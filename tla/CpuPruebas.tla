----------------------------- MODULE CpuPruebas -----------------------------
(***************************************************************************)
(* Theorems about the exchange of contexts between the kernel and the CPU: *)
(* what is written in a message is what is read from it, the types of the  *)
(* CPU and of memory, when the CPU crashes, and that the address a thread  *)
(* of a file carries is still the one its program asked for.               *)
(***************************************************************************)
EXTENDS Cpu, SecuenciasPruebas

(* What a slot of a message may hold.                                      *)
Casillas == PROCESOS \union Int \union CELDAS \union INSTRUCCIONES \union BOOLEAN

Registros(regs) == regs \in [DOMAIN ANCHO -> Seq(CELDAS)] /\ DeSuAncho(regs)

-----------------------------------------------------------------------------
(* The slots before each register.                                         *)
LEMMA AntesEs ==
  /\ Len(REGISTROS) \in Nat /\ \A i \in 1..Len(REGISTROS) : REGISTROS[i] \in DOMAIN ANCHO
  /\ Antes \in [1..(Len(REGISTROS) + 1) -> Nat]
  /\ Antes[1] = 0
  /\ \A i \in 1..Len(REGISTROS) :
       Antes[i + 1] = Antes[i] + ANCHO[REGISTROS[i]]
<1> DEFINE N == Len(REGISTROS)
           G(f) == f = [i \in 1..(N + 1) |-> IF i = 1 THEN 0
                          ELSE f[i - 1] + ANCHO[REGISTROS[i - 1]]]
           paso == [x \in (2..(N + 1)) \X Nat |-> x[2] + ANCHO[REGISTROS[x[1] - 1]]]
<1>1. /\ N \in Nat /\ \A i \in 1..N : REGISTROS[i] \in DOMAIN ANCHO
      /\ \A i \in 1..N : ANCHO[REGISTROS[i]] \in Nat
  <2>1. N \in Nat /\ \A i \in 1..N : REGISTROS[i] \in DOMAIN ANCHO
    BY SupuestoContexto
  <2> QED
    BY <2>1, SupuestoInstrucciones
<1>2. PICK f \in [1..(N + 1) -> Nat] : G(f)
  <2>1. ASSUME NEW n \in 2..(N + 1), NEW t \in Nat
        PROVE  /\ <<n, t>> \in (2..(N + 1)) \X Nat
               /\ paso[<<n, t>>] = t + ANCHO[REGISTROS[n - 1]]
               /\ paso[<<n, t>>] \in Nat
    <3>1. <<n, t>> \in (2..(N + 1)) \X Nat /\ n - 1 \in 1..N
      BY <1>1
    <3>2. paso[<<n, t>>] = t + ANCHO[REGISTROS[n - 1]]
      BY <3>1
    <3> QED BY <1>1, <3>1, <3>2
  <2>2. PICK f \in [1..(N + 1) -> Nat] : Sucesion(f, N + 1, 0, paso)
    <3>1. N + 1 \in Nat /\ 0 \in Nat
      BY <1>1
    <3> HIDE DEF paso, N
    <3> QED BY <2>1, <3>1, SucesionExiste
  <2>3. \A i \in 1..(N + 1) : i # 1 =>
          paso[<<i, f[i - 1]>>] = f[i - 1] + ANCHO[REGISTROS[i - 1]]
    <3> TAKE i \in 1..(N + 1)
    <3> HAVE i # 1
    <3>1. i \in 2..(N + 1) /\ i - 1 \in 1..(N + 1) /\ f[i - 1] \in Nat
      BY <1>1
    <3> QED BY <2>1, <3>1
  <2>4. G(f)
    <3> HIDE DEF paso, N
    <3> QED BY <2>2, <2>3 DEF Sucesion
  <2> QED BY <2>4
<1>3. G(CHOOSE g : G(g))
  <2> HIDE DEF G
  <2> QED BY <1>2
<1>4. G(Antes)
  BY <1>3 DEF Antes
<1>5. \A i \in 1..(N + 1) : Antes[i] =
        IF i = 1 THEN 0 ELSE Antes[i - 1] + ANCHO[REGISTROS[i - 1]]
  BY <1>4
<1>6. Antes[1] = 0
  BY <1>1, <1>5
<1>7. ASSUME NEW i \in 1..N
      PROVE  Antes[i + 1] = Antes[i] + ANCHO[REGISTROS[i]]
  <2>1. PICK k \in 1..(N + 1) : k = i + 1
    BY <1>1
  <2>2. k # 1 /\ k - 1 = i
    BY <1>1, <2>1
  <2>3. Antes[k] = Antes[k - 1] + ANCHO[REGISTROS[k - 1]]
    BY <1>5, <2>2
  <2> QED BY <2>1, <2>2, <2>3
<1>8. Antes \in [1..(N + 1) -> Nat]
  <2> DEFINE S == {n \in 0..N : Antes[n + 1] \in Nat}
  <2>1. 0 \in S
    BY <1>1, <1>6
  <2>2. ASSUME NEW n \in 0..(N - 1), n \in S PROVE n + 1 \in S
    <3>1. n + 1 \in 1..N /\ n + 1 \in 0..N /\ Antes[n + 1] \in Nat
      BY <1>1, <2>2
    <3>2. Antes[n + 1 + 1] = Antes[n + 1] + ANCHO[REGISTROS[n + 1]]
      BY <1>7, <3>1
    <3>3. ANCHO[REGISTROS[n + 1]] \in Nat
      BY <1>1, <3>1
    <3> QED BY <3>1, <3>2, <3>3
  <2> HIDE DEF S
  <2>3. \A n \in 0..N : n \in S
    <3> HIDE DEF N
    <3> QED BY <1>1, <2>1, <2>2, Induccion
  <2>4. ASSUME NEW i \in 1..(N + 1) PROVE Antes[i] \in Nat
    <3>1. i - 1 \in 0..N /\ i - 1 + 1 = i
      BY <1>1
    <3>2. Antes[i - 1 + 1] \in Nat
      BY <2>3, <3>1 DEF S
    <3> QED BY <3>1, <3>2
  <2>5. Antes = [i \in 1..(N + 1) |-> Antes[i]]
    BY <1>4
  <2> QED BY <2>4, <2>5
<1> QED
  BY <1>1, <1>6, <1>7, <1>8

(* The registers one after the other, each in its place.                   *)
LEMMA RegistrosEnSerie ==
  ASSUME NEW regs, Registros(regs)
  PROVE  /\ TamRegistros \in Nat
         /\ SerializarRegistros(regs) \in Seq(Casillas)
         /\ Len(SerializarRegistros(regs)) = TamRegistros
         /\ \A i \in 1..Len(REGISTROS) :
              EstaEn(SerializarRegistros(regs), Antes[i], regs[REGISTROS[i]])
<1> DEFINE N == Len(REGISTROS)
           ss == [i \in 1..N |-> regs[REGISTROS[i]]]
<1>1. /\ N \in Nat /\ \A i \in 1..N : REGISTROS[i] \in DOMAIN ANCHO
      /\ Antes \in [1..(N + 1) -> Nat] /\ Antes[1] = 0
      /\ \A i \in 1..N : Antes[i + 1] = Antes[i] + ANCHO[REGISTROS[i]]
  BY AntesEs
<1>2. ASSUME NEW r \in DOMAIN ANCHO
      PROVE  regs[r] \in Seq(Casillas) /\ Len(regs[r]) = ANCHO[r]
  <2>1. ANCHO[r] \in Nat /\ regs[r] \in [1..ANCHO[r] -> CELDAS]
    BY SupuestoInstrucciones DEF Registros, DeSuAncho
  <2>2. CELDAS \subseteq Casillas
    BY DEF Casillas
  <2> QED BY <2>1, <2>2
<1>3. /\ ss \in Seq(Seq(Casillas)) /\ Len(ss) = N
      /\ \A i \in 1..N : ss[i] = regs[REGISTROS[i]] /\ Len(ss[i]) = ANCHO[REGISTROS[i]]
  <2>1. \A i \in 1..N : regs[REGISTROS[i]] \in Seq(Casillas)
    BY <1>1, <1>2
  <2>2. ss \in [1..N -> Seq(Casillas)]
    BY <2>1
  <2>3. \A i \in 1..N : ss[i] = regs[REGISTROS[i]]
    OBVIOUS
  <2> HIDE DEF ss, N
  <2> QED BY <1>1, <1>2, <2>2, <2>3
<1>4. SerializarRegistros(regs) = FlattenSeq(ss)
  BY DEF SerializarRegistros
<1> HIDE DEF ss, N
<1>5. /\ FlattenSeq(ss) \in Seq(Casillas)
      /\ Len(FlattenSeq(ss)) = Antes[Len(ss) + 1]
      /\ \A i \in 1..Len(ss) : EstaEn(FlattenSeq(ss), Antes[i], ss[i])
  <2>1. Antes \in [1..(Len(ss) + 1) -> Nat]
    BY <1>1, <1>3
  <2>2. \A i \in 1..Len(ss) : Antes[i + 1] = Antes[i] + Len(ss[i])
    BY <1>1, <1>3
  <2> QED BY <1>1, <1>3, <2>1, <2>2, Aplanada
<1>6. TamRegistros = Antes[N + 1] /\ TamRegistros \in Nat
  BY <1>1 DEF TamRegistros, N
<1> QED
  BY <1>3, <1>4, <1>5, <1>6 DEF N

(* cambiar_contexto and deserializar_contexto_pcb read each register where *)
(* serializar_contexto_pcb and serializar_contexto wrote it.               *)
LEMMA RegistrosVuelven ==
  ASSUME NEW regs, Registros(regs), NEW m \in Seq(Casillas),
         EstaEn(m, 0, SerializarRegistros(regs))
  PROVE  DeserializarRegistros(m) = regs
<1> DEFINE N == Len(REGISTROS)
           w == SerializarRegistros(regs)
<1>1. /\ Len(w) \in Nat /\ Len(w) <= Len(m) /\ \A j \in 1..Len(w) : m[j] = w[j]
  <2>1. w \in Seq(Casillas)
    BY RegistrosEnSerie
  <2>2. Len(w) \in Nat
    BY <2>1
  <2>3. 0 + Len(w) <= Len(m) /\ \A j \in 1..Len(w) : m[0 + j] = w[j]
    BY DEF EstaEn
  <2> HIDE DEF w
  <2>4. \A j \in 1..Len(w) : 0 + j = j
    BY <2>2
  <2> QED BY <2>2, <2>3, <2>4
<1>2. ASSUME NEW r \in DOMAIN ANCHO
      PROVE  DeserializarRegistros(m)[r] = regs[r]
  <2> DEFINE i == CHOOSE i \in 1..N : REGISTROS[i] = r
  <2>1. i \in 1..N /\ REGISTROS[i] = r
    <3>1. \E j \in 1..N : REGISTROS[j] = r
      BY SupuestoContexto
    <3> QED BY <3>1
  <2>2. DeserializarRegistros(m)[r] = SubSeq(m, Antes[i] + 1, Antes[i] + ANCHO[r])
    BY DEF DeserializarRegistros
  <2> HIDE DEF i
  <2>3. ANCHO[r] \in Nat /\ regs[r] \in Seq(Casillas) /\ Len(regs[r]) = ANCHO[r]
    <3>1. ANCHO[r] \in Nat /\ regs[r] \in [1..ANCHO[r] -> CELDAS]
      BY SupuestoInstrucciones DEF Registros, DeSuAncho
    <3>2. CELDAS \subseteq Casillas
      BY DEF Casillas
    <3> QED BY <3>1, <3>2
  <2>4. EstaEn(w, Antes[i], regs[r])
    BY <2>1, RegistrosEnSerie
  <2> HIDE DEF w
  <2>5. EstaEn(m, Antes[i], regs[r])
    <3>1. /\ Antes[i] \in Nat /\ Antes[i] + ANCHO[r] <= Len(w)
          /\ \A j \in 1..ANCHO[r] : w[Antes[i] + j] = regs[r][j]
      BY <2>3, <2>4 DEF EstaEn
    <3>2. \A j \in 1..ANCHO[r] : Antes[i] + j \in 1..Len(w)
      BY <1>1, <2>3, <3>1
    <3>3. \A j \in 1..ANCHO[r] : m[Antes[i] + j] = regs[r][j]
      BY <1>1, <3>1, <3>2
    <3>4. Antes[i] + ANCHO[r] <= Len(m)
      BY <1>1, <2>3, <3>1
    <3> QED BY <2>3, <3>1, <3>3, <3>4 DEF EstaEn
  <2>6. SubSeq(m, Antes[i] + 1, Antes[i] + Len(regs[r])) = regs[r]
    BY <2>3, <2>5, Tramo
  <2> QED BY <2>2, <2>3, <2>6
<1>3. DeserializarRegistros(m) = [r \in DOMAIN ANCHO |-> DeserializarRegistros(m)[r]]
  <2> DEFINE t(r) == SubSeq(m, Antes[CHOOSE i \in 1..Len(REGISTROS) : REGISTROS[i] = r] + 1,
                            Antes[CHOOSE i \in 1..Len(REGISTROS) : REGISTROS[i] = r] + ANCHO[r])
  <2>1. DeserializarRegistros(m) = [r \in DOMAIN ANCHO |-> t(r)]
    BY DEF DeserializarRegistros
  <2> HIDE DEF t
  <2> QED BY <2>1
<1>4. regs = [r \in DOMAIN ANCHO |-> regs[r]]
  BY DEF Registros
<1> QED
  BY <1>2, <1>3, <1>4

(* TramoPegado for messages.                                               *)
LEMMA Pegar ==
  \A a, b \in Seq(Casillas) :
    /\ a \o b \in Seq(Casillas) /\ Len(a \o b) = Len(a) + Len(b)
    /\ EstaEn(a \o b, Len(a), b)
    /\ \A d : \A s \in Seq(Casillas) : EstaEn(a, d, s) => EstaEn(a \o b, d, s)
BY TramoPegado

(* The size that goes first, and one slot.                                 *)
LEMMA TamanioVuelve ==
  ASSUME NEW m \in Seq(Casillas)
  PROVE  Recibido(ConTamanio(m)) = m
<1>1. Len(m) \in Nat /\ Len(m) \in Casillas
  BY DEF Casillas
<1>2. PICK t : t = <<Len(m)>>
  OBVIOUS
<1>3. t \in Seq(Casillas) /\ Len(t) = 1 /\ t[1] = Len(m)
  BY <1>1, <1>2
<1>4. PICK c : c = t \o m
  OBVIOUS
<1>5. c \in Seq(Casillas) /\ EstaEn(c, 1, m) /\ c[1] = Len(m)
  <2>1. c \in Seq(Casillas) /\ EstaEn(c, 1, m)
    BY <1>3, <1>4, TramoPegado
  <2>2. c[1] = t[1]
    <3>1. \A j \in 1..Len(t) : (t \o m)[j] = t[j]
      BY ONLY <1>3, m \in Seq(Casillas), Pegadas
    <3> QED BY <1>3, <1>4, <3>1
  <2> QED BY <1>3, <2>1, <2>2
<1>6. SubSeq(c, 1 + 1, 1 + Len(m)) = m
  BY <1>5, Tramo
<1>7. 1 + 1 = 2 /\ 1 + Len(m) = c[1] + 1
  BY <1>1, <1>5
<1> QED
  BY <1>2, <1>4, <1>6, <1>7 DEF Recibido, ConTamanio

(* One slot: a number, an instruction or a process.                        *)
LEMMA UnaCasilla ==
  ASSUME NEW x \in Casillas
  PROVE  /\ <<x>> \in Seq(Casillas) /\ Len(<<x>>) = 1
         /\ \A m, d : EstaEn(m, d, <<x>>) => m[d + 1] = x
<1>1. <<x>> \in Seq(Casillas) /\ Len(<<x>>) = 1 /\ <<x>>[1] = x
  OBVIOUS
<1>2. ASSUME NEW m, NEW d, EstaEn(m, d, <<x>>) PROVE m[d + 1] = x
  <2>1. \A j \in 1..1 : m[d + j] = <<x>>[j]
    BY <1>1, <1>2 DEF EstaEn
  <2> QED BY <1>1, <2>1
<1> QED
  BY <1>1, <1>2

(* The entries of a table, four slots each.                                *)
Entrada(tabla, s) == <<s, tabla[s].base, tabla[s].tam, tabla[s].activo>>
Entradas(tabla) ==
  FlattenSeq([i \in 1..CANT_SEGMENTOS |-> Entrada(tabla, i - 1)])

(* Each field of a segment is at its slot.                                 *)
LEMMA TablaEnSerie ==
  ASSUME NEW tabla \in Tabla
  PROVE  /\ SerializarTabla(tabla) = <<CANT_SEGMENTOS>> \o Entradas(tabla)
         /\ Entradas(tabla) \in Seq(Casillas)
         /\ Len(Entradas(tabla)) = 4 * CANT_SEGMENTOS
         /\ \A s \in IDS :
              /\ Entradas(tabla)[4 * s + 2] = tabla[s].base
              /\ Entradas(tabla)[4 * s + 3] = tabla[s].tam
              /\ Entradas(tabla)[4 * s + 4] = tabla[s].activo
<1> DEFINE N == CANT_SEGMENTOS
           ss == [i \in 1..N |-> Entrada(tabla, i - 1)]
           o == [i \in 1..(N + 1) |-> 4 * (i - 1)]
<1>1. N \in Nat /\ IDS = 0..(N - 1)
  BY SupuestoInstrucciones DEF IDS
<1>2. ASSUME NEW s \in IDS
      PROVE  /\ Entrada(tabla, s) \in Seq(Casillas) /\ Len(Entrada(tabla, s)) = 4
             /\ Entrada(tabla, s)[2] = tabla[s].base
             /\ Entrada(tabla, s)[3] = tabla[s].tam
             /\ Entrada(tabla, s)[4] = tabla[s].activo
  <2>1. tabla[s].base \in Nat /\ tabla[s].tam \in Nat /\ tabla[s].activo \in BOOLEAN
    BY DEF Tabla
  <2>2. s \in Int
    BY <1>1
  <2>3. /\ s \in Casillas /\ tabla[s].base \in Casillas
        /\ tabla[s].tam \in Casillas /\ tabla[s].activo \in Casillas
    BY <2>1, <2>2 DEF Casillas
  <2> QED BY <2>3 DEF Entrada
<1>3. /\ ss \in Seq(Seq(Casillas)) /\ Len(ss) = N
      /\ \A i \in 1..N : ss[i] = Entrada(tabla, i - 1) /\ i - 1 \in IDS
  <2>1. \A i \in 1..N : i - 1 \in IDS
    BY <1>1
  <2>2. ss \in [1..N -> Seq(Casillas)]
    BY <1>2, <2>1
  <2>3. \A i \in 1..N : ss[i] = Entrada(tabla, i - 1)
    OBVIOUS
  <2> HIDE DEF ss, N
  <2> QED BY <1>1, <2>1, <2>2, <2>3
<1>4. /\ SerializarTabla(tabla) = <<CANT_SEGMENTOS>> \o Entradas(tabla)
      /\ Entradas(tabla) = FlattenSeq(ss)
  BY DEF SerializarTabla, Entradas, Entrada
<1>5. /\ o \in [1..(N + 1) -> Nat] /\ o[1] = 0 /\ o[N + 1] = 4 * N
      /\ \A i \in 1..N : o[i] = 4 * (i - 1) /\ o[i + 1] = o[i] + 4
  BY <1>1
<1> HIDE DEF ss, N, o
<1>6. /\ FlattenSeq(ss) \in Seq(Casillas)
      /\ Len(FlattenSeq(ss)) = o[Len(ss) + 1]
      /\ \A i \in 1..Len(ss) : EstaEn(FlattenSeq(ss), o[i], ss[i])
  <2>1. o \in [1..(Len(ss) + 1) -> Nat]
    BY <1>3, <1>5
  <2>2. \A i \in 1..Len(ss) : o[i + 1] = o[i] + Len(ss[i])
    BY <1>2, <1>3, <1>5
  <2> QED BY <1>3, <1>5, <2>1, <2>2, Aplanada
<1>7. ASSUME NEW s \in IDS
      PROVE  /\ Entradas(tabla)[4 * s + 2] = tabla[s].base
             /\ Entradas(tabla)[4 * s + 3] = tabla[s].tam
             /\ Entradas(tabla)[4 * s + 4] = tabla[s].activo
  <2>1. PICK i \in 1..N : i = s + 1 /\ i - 1 = s
    BY <1>1
  <2>2. EstaEn(Entradas(tabla), 4 * s, Entrada(tabla, s))
    BY <1>3, <1>4, <1>5, <1>6, <2>1
  <2>3. \A j \in 1..4 : Entradas(tabla)[4 * s + j] = Entrada(tabla, s)[j]
    BY <1>2, <2>2 DEF EstaEn
  <2> QED BY <1>2, <2>3
<1> QED
  BY <1>3, <1>4, <1>5, <1>6, <1>7 DEF N

(* deserializar_segmentos gives back the table.                            *)
LEMMA TablaVuelve ==
  ASSUME NEW tabla \in Tabla
  PROVE  DeserializarSegmentos(Entradas(tabla), CANT_SEGMENTOS) = tabla
<1> DEFINE t == DeserializarSegmentos(Entradas(tabla), CANT_SEGMENTOS)
<1>1. t = [s \in IDS |-> [base |-> Entradas(tabla)[4 * s + 2],
                         tam |-> Entradas(tabla)[4 * s + 3],
                         activo |-> Entradas(tabla)[4 * s + 4]]]
  BY DEF DeserializarSegmentos, IDS
<1> HIDE DEF t
<1>2. t = [s \in IDS |-> [base |-> tabla[s].base, tam |-> tabla[s].tam,
                          activo |-> tabla[s].activo]]
  BY <1>1, TablaEnSerie
<1>3. \A s \in IDS : [base |-> tabla[s].base, tam |-> tabla[s].tam,
                      activo |-> tabla[s].activo] = tabla[s]
  BY DEF Tabla
<1>4. t = [s \in IDS |-> tabla[s]]
  BY <1>2, <1>3
<1>5. tabla = [s \in IDS |-> tabla[s]]
  BY DEF Tabla
<1> QED
  BY <1>4, <1>5 DEF t

(* serializar_contexto_pcb and cambiar_contexto: the CPU has what the      *)
(* kernel sent, whatever the registers, the program and the table.         *)
LEMMA ContextoVuelve ==
  ASSUME NEW pid \in PROCESOS, NEW regs, Registros(regs), NEW pc \in Nat,
         NEW ins \in Seq(INSTRUCCIONES), NEW tabla \in Tabla
  PROVE  CambiarContexto(Recibido(SerializarContextoPCB(pid, regs, pc, ins, tabla)))
           = [pid |-> pid, registros |-> regs, pc |-> pc, instrucciones |-> ins,
              segmentos |-> tabla]
<1> DEFINE K == TamRegistros
           R == SerializarRegistros(regs)
           L == Len(ins)
           F == Entradas(tabla)
           C == CANT_SEGMENTOS
<1>1. /\ K \in Nat /\ R \in Seq(Casillas) /\ Len(R) = K
      /\ F \in Seq(Casillas) /\ Len(F) = 4 * C /\ C \in Nat
      /\ L \in Nat /\ ins \in Seq(Casillas)
  <2>1. ins \in Seq(Casillas)
    BY DEF Casillas
  <2>2. C \in Nat
    BY SupuestoInstrucciones
  <2> QED BY <2>1, <2>2, RegistrosEnSerie, TablaEnSerie
<1>2. pid \in Casillas /\ pc \in Casillas /\ L \in Casillas /\ C \in Casillas
  BY <1>1 DEF Casillas
<1>3. SerializarContextoPCB(pid, regs, pc, ins, tabla)
        = ConTamanio(<<pid>> \o R \o <<pc>> \o (<<L>> \o ins) \o (<<C>> \o F))
  BY TablaEnSerie DEF SerializarContextoPCB, SerializarInstrucciones
<1>4. EstaEn(R, 0, R) /\ EstaEn(ins, 0, ins) /\ EstaEn(F, 0, F)
  <2>1. \A s \in Seq(Casillas) : EstaEn(s, 0, s)
    <3> TAKE s \in Seq(Casillas)
    <3>1. Len(s) \in Nat /\ \A j \in 1..Len(s) : 0 + j = j
      OBVIOUS
    <3> QED BY <3>1 DEF EstaEn
  <2> QED BY <1>1, <2>1
<1> HIDE DEF K, R, L, F, C
<1>5. PICK pp, qq, ll, cc :
        pp = <<pid>> /\ qq = <<pc>> /\ ll = <<L>> /\ cc = <<C>>
  OBVIOUS
<1>6. /\ pp \in Seq(Casillas) /\ qq \in Seq(Casillas) /\ ll \in Seq(Casillas)
      /\ cc \in Seq(Casillas)
      /\ Len(pp) = 1 /\ Len(qq) = 1 /\ Len(ll) = 1 /\ Len(cc) = 1
  BY <1>2, <1>5, UnaCasilla
<1>7. EstaEn(pp, 0, pp) /\ EstaEn(ll, 0, ll) /\ EstaEn(cc, 0, cc)
  BY <1>6 DEF EstaEn
<1>8. PICK a1, a2, a3, a4, si, st :
        /\ a1 = pp \o R /\ a2 = a1 \o qq
        /\ si = ll \o ins /\ st = cc \o F
        /\ a3 = a2 \o si /\ a4 = a3 \o st
  OBVIOUS
<1>9. /\ a1 \in Seq(Casillas) /\ Len(a1) = K + 1
      /\ EstaEn(a1, 0, pp) /\ EstaEn(a1, 1, R)
  <2>1. Len(a1) = Len(pp) + Len(R) /\ a1 \in Seq(Casillas)
        /\ EstaEn(a1, 0, pp) /\ EstaEn(a1, Len(pp), R)
    BY ONLY <1>1, <1>6, <1>7, <1>8, Pegar
  <2> QED BY <1>1, <1>6, <2>1
<1>10. /\ a2 \in Seq(Casillas) /\ Len(a2) = K + 2 /\ EstaEn(a2, 0, pp)
      /\ EstaEn(a2, 1, R) /\ EstaEn(a2, K + 1, qq)
  <2>1. Len(a2) = Len(a1) + Len(qq) /\ a2 \in Seq(Casillas) /\ EstaEn(a2, 0, pp)
        /\ EstaEn(a2, 1, R) /\ EstaEn(a2, Len(a1), qq)
    BY ONLY <1>1, <1>6, <1>8, <1>9, Pegar
  <2>2. K + 1 + 1 = K + 2
    BY <1>1
  <2> QED BY <1>6, <1>9, <2>1, <2>2
<1>11. /\ si \in Seq(Casillas) /\ Len(si) = L + 1
      /\ EstaEn(si, 0, ll) /\ EstaEn(si, 1, ins)
  <2>1. Len(si) = Len(ll) + Len(ins) /\ si \in Seq(Casillas)
        /\ EstaEn(si, 0, ll) /\ EstaEn(si, Len(ll), ins)
    BY ONLY <1>1, <1>6, <1>7, <1>8, Pegar
  <2>2. Len(ins) = L
    BY DEF L
  <2> QED BY <1>1, <1>6, <2>1, <2>2
<1>12. /\ st \in Seq(Casillas) /\ Len(st) = 4 * C + 1
      /\ EstaEn(st, 0, cc) /\ EstaEn(st, 1, F)
  <2>1. Len(st) = Len(cc) + Len(F) /\ st \in Seq(Casillas)
        /\ EstaEn(st, 0, cc) /\ EstaEn(st, Len(cc), F)
    BY ONLY <1>1, <1>6, <1>7, <1>8, Pegar
  <2> QED BY <1>1, <1>6, <2>1
<1>13. /\ a3 \in Seq(Casillas) /\ Len(a3) = K + 3 + L /\ EstaEn(a3, 0, pp)
       /\ EstaEn(a3, 1, R) /\ EstaEn(a3, K + 1, qq)
       /\ EstaEn(a3, K + 2, ll) /\ EstaEn(a3, K + 3, ins)
  <2>1. /\ a3 \in Seq(Casillas) /\ Len(a3) = Len(a2) + Len(si)
        /\ EstaEn(a3, Len(a2), si) /\ EstaEn(a3, 0, pp)
        /\ EstaEn(a3, 1, R) /\ EstaEn(a3, K + 1, qq)
    BY ONLY <1>1, <1>6, <1>8, <1>10, <1>11, Pegar
  <2>2. K + 2 + 0 = K + 2 /\ K + 2 + 1 = K + 3 /\ K + 2 + (L + 1) = K + 3 + L
    BY <1>1
  <2>3. EstaEn(a3, Len(a2) + 0, ll) /\ EstaEn(a3, Len(a2) + 1, ins)
    BY ONLY <1>1, <1>6, <1>11, <2>1, TramoDeTramo
  <2> QED BY <1>10, <1>11, <2>1, <2>2, <2>3
<1>14. /\ a4 \in Seq(Casillas) /\ Len(a4) = K + 4 + L + 4 * C
       /\ EstaEn(a4, 0, pp)
       /\ EstaEn(a4, 1, R) /\ EstaEn(a4, K + 1, qq)
       /\ EstaEn(a4, K + 2, ll) /\ EstaEn(a4, K + 3, ins)
       /\ EstaEn(a4, K + 3 + L, cc) /\ EstaEn(a4, K + 4 + L, F)
  <2>1. /\ a4 \in Seq(Casillas) /\ Len(a4) = Len(a3) + Len(st)
        /\ EstaEn(a4, Len(a3), st) /\ EstaEn(a4, 0, pp)
        /\ EstaEn(a4, 1, R) /\ EstaEn(a4, K + 1, qq)
        /\ EstaEn(a4, K + 2, ll) /\ EstaEn(a4, K + 3, ins)
    BY ONLY <1>1, <1>6, <1>8, <1>13, <1>12, Pegar
  <2>2. /\ K + 3 + L + 0 = K + 3 + L /\ K + 3 + L + 1 = K + 4 + L
        /\ K + 3 + L + (4 * C + 1) = K + 4 + L + 4 * C
    BY <1>1
  <2>3. EstaEn(a4, Len(a3) + 0, cc) /\ EstaEn(a4, Len(a3) + 1, F)
    BY ONLY <1>1, <1>6, <1>12, <2>1, TramoDeTramo
  <2> QED BY <1>13, <1>12, <2>1, <2>2, <2>3
<1>15. Recibido(SerializarContextoPCB(pid, regs, pc, ins, tabla)) = a4
  <2>1. SerializarContextoPCB(pid, regs, pc, ins, tabla) = ConTamanio(a4)
    BY <1>3, <1>5, <1>8
  <2> QED BY <1>14, <2>1, TamanioVuelve
<1>16. /\ a4[1] = pid /\ a4[K + 2] = pc /\ a4[K + 3] = L /\ a4[K + 4 + L] = C
  <2>1. /\ a4[0 + 1] = pid /\ a4[K + 1 + 1] = pc /\ a4[K + 2 + 1] = L
        /\ a4[K + 3 + L + 1] = C
    BY <1>2, <1>5, <1>14, UnaCasilla
  <2>2. /\ 0 + 1 = 1 /\ K + 1 + 1 = K + 2 /\ K + 2 + 1 = K + 3
        /\ K + 3 + L + 1 = K + 4 + L
    BY <1>1
  <2> QED BY <2>1, <2>2
<1>17. DeserializarRegistros(Tail(a4)) = regs
  <2>1. a4 # <<>>
    BY <1>1, <1>14
  <2>2. PICK m : m = Tail(a4)
    OBVIOUS
  <2>3. /\ m \in Seq(Casillas) /\ Len(m) = K + 3 + L + 4 * C
        /\ \A i \in 1..Len(m) : m[i] = a4[i + 1]
    BY <1>1, <1>14, <2>1, <2>2, HeadTailProperties
  <2>4. EstaEn(m, 0, R)
    <3>1. \A j \in 1..K : a4[1 + j] = R[j]
      BY <1>1, <1>14 DEF EstaEn
    <3>2. K <= Len(m) /\ \A j \in 1..K : /\ 1 + j = j + 1 /\ 0 + j = j
                                         /\ j \in 1..Len(m)
      BY <1>1, <2>3
    <3>3. \A j \in 1..K : m[0 + j] = R[j]
      BY <2>3, <3>1, <3>2
    <3> QED BY <1>1, <3>2, <3>3 DEF EstaEn
  <2> QED BY <2>2, <2>3, <2>4, RegistrosVuelven DEF R
<1>18. SubSeq(a4, K + 2 + 2, K + 2 + 1 + L) = ins
  <2>1. SubSeq(a4, K + 3 + 1, K + 3 + Len(ins)) = ins
    BY <1>1, <1>14, Tramo
  <2>2. K + 3 + 1 = K + 2 + 2 /\ K + 3 + Len(ins) = K + 2 + 1 + L
    BY <1>1 DEF L
  <2> QED BY <2>1, <2>2
<1>19. SubSeq(a4, K + 2 + 2 + L + 1, Len(a4)) = F
  <2>1. SubSeq(a4, K + 4 + L + 1, K + 4 + L + Len(F)) = F
    BY <1>1, <1>14, Tramo
  <2>2. K + 4 + L + 1 = K + 2 + 2 + L + 1 /\ K + 4 + L + Len(F) = Len(a4)
    BY <1>1, <1>14
  <2> QED BY <2>1, <2>2
<1>20. DeserializarSegmentos(F, C) = tabla
  BY TablaVuelve DEF F, C
<1>21. /\ TAMANIO_CONTEXTO + 1 = K + 2 /\ K + 2 + 1 = K + 3
       /\ K + 2 + 2 + L = K + 4 + L
  BY <1>1 DEF TAMANIO_CONTEXTO, K
<1>22. CambiarContexto(a4) =
         [pid |-> a4[1], registros |-> DeserializarRegistros(Tail(a4)),
          pc |-> a4[K + 2], instrucciones |-> SubSeq(a4, K + 2 + 2, K + 2 + 1 + L),
          segmentos |-> DeserializarSegmentos(
             SubSeq(a4, K + 2 + 2 + L + 1, Len(a4)), a4[K + 2 + 2 + L])]
  BY <1>16, <1>21 DEF CambiarContexto
<1> QED
  BY <1>15, <1>16, <1>17, <1>18, <1>19, <1>20, <1>21, <1>22

(* serializar_contexto, deserializar_contexto_pcb and the arguments of the *)
(* calls: the kernel has what the CPU sent.                                *)
LEMMA LlamadaVuelve ==
  ASSUME NEW regs, Registros(regs), NEW pc \in Nat, NEW args \in Seq(Casillas)
  PROVE  LET m == Recibido(SerializarContexto(regs, pc, args))
         IN  /\ DeserializarRegistros(m) = regs
             /\ DeserializarPC(m) = pc
             /\ \A i \in 1..Len(args) : Argumento(m, i) = args[i]
<1> DEFINE K == TamRegistros
           R == SerializarRegistros(regs)
<1>1. K \in Nat /\ R \in Seq(Casillas) /\ Len(R) = K /\ pc \in Casillas
  BY RegistrosEnSerie DEF Casillas
<1>2. EstaEn(R, 0, R)
  <2>1. \A j \in 1..Len(R) : 0 + j = j
    BY <1>1
  <2> QED BY <1>1, <2>1 DEF EstaEn
<1> HIDE DEF K, R
<1>3. PICK a1, a2 : a1 = R \o <<pc>> /\ a2 = a1 \o args
  OBVIOUS
<1>4. <<pc>> \in Seq(Casillas) /\ Len(<<pc>>) = 1
  BY <1>1, UnaCasilla
<1>5. /\ a1 \in Seq(Casillas) /\ Len(a1) = K + 1
      /\ EstaEn(a1, 0, R) /\ EstaEn(a1, K, <<pc>>)
  BY <1>1, <1>2, <1>3, <1>4, TramoPegado
<1>6. /\ a2 \in Seq(Casillas) /\ EstaEn(a2, 0, R) /\ EstaEn(a2, K, <<pc>>)
      /\ EstaEn(a2, K + 1, args)
  BY <1>1, <1>3, <1>4, <1>5, TramoPegado
<1>7. Recibido(SerializarContexto(regs, pc, args)) = a2
  BY <1>3, <1>6, TamanioVuelve DEF SerializarContexto, R
<1>8. DeserializarRegistros(a2) = regs
  BY <1>6, RegistrosVuelven DEF R
<1>9. TAMANIO_CONTEXTO = K + 1
  BY DEF TAMANIO_CONTEXTO, K
<1>10. DeserializarPC(a2) = pc
  BY <1>1, <1>6, <1>9, UnaCasilla DEF DeserializarPC
<1>11. \A i \in 1..Len(args) : Argumento(a2, i) = args[i]
  BY <1>6, <1>9 DEF Argumento, EstaEn
<1> QED
  BY <1>7, <1>8, <1>10, <1>11

-----------------------------------------------------------------------------
(* What each variable holds; a segment is inside memory.                   *)
Hilo ==
  [fase : {"nace", "toma"}, cop : DeArchivo, dir : Int, cant : Nat,
   vieja : BOOLEAN, logica : Nat]
Contextos ==
  [pid : PROCESOS \union {NULO}, pc : Nat,
   registros : {regs \in [DOMAIN ANCHO -> Seq(CELDAS)] : Registros(regs)},
   instrucciones : Seq(INSTRUCCIONES), segmentos : Tabla]

Datos ==
  /\ programa \in [PROCESOS -> PROGRAMAS]
  /\ program_counter \in [PROCESOS -> Nat]
  /\ \A p \in PROCESOS : program_counter[p] <= Len(programa[p])
  /\ registros_cpu \in
       [PROCESOS -> {regs \in [DOMAIN ANCHO -> Seq(CELDAS)] : Registros(regs)}]
  /\ tabla_segmentos \in [PROCESOS -> Tabla]
  /\ \A p \in PROCESOS, s \in IDS :
       tabla_segmentos[p][s].base + tabla_segmentos[p][s].tam <= TAM_MEMORIA
  /\ RUNNING \in PROCESOS \union {NULO} /\ terminados \subseteq PROCESOS
  /\ contexto \in Contextos
  /\ contexto.pc <= Len(contexto.instrucciones)
  /\ cpu \in {"espera", "ejecuta", "caida"}
  /\ ESPACIO_USUARIO \in [0..(TAM_MEMORIA - 1) -> CELDAS]
  /\ hilo \in [PROCESOS -> {SinHilo} \union Hilo]

(* A program that can go on: it has an instruction left, or the last one   *)
(* was a call after which the kernel resumes it.                           *)
Sigue(ins, pc) ==
  pc < Len(ins) \/ (pc \in 1..Len(ins) /\ Decode(ins[pc]) \in Llamadas)

Vivos ==
  /\ \A p \in PROCESOS \ terminados : Sigue(programa[p], program_counter[p])
  /\ RUNNING \in PROCESOS =>
       RUNNING \notin terminados /\ hilo[RUNNING].fase = "no"

(* The arguments of a call are those of the instruction before the pc, and *)
(* the address of a file operation is of the table the kernel still has.   *)
ArgumentosDe(cop, i, tabla) ==
  CASE cop = "CREATE_SEGMENT" -> <<i.id, i.tam>>
    [] cop = "DELETE_SEGMENT" -> <<i.id>>
    [] cop \in DeArchivo -> <<Dato, MMU(tabla, i.dir, i.cant), i.cant>>
    [] OTHER -> <<>>

MensajeACpu ==
  enlace = [a |-> "cpu", cop |-> "NUEVO_CONTEXTO_PCB",
            m |-> SerializarContextoPCB(RUNNING, registros_cpu[RUNNING],
                    program_counter[RUNNING], programa[RUNNING],
                    tabla_segmentos[RUNNING])]

UltimaPedida == programa[RUNNING][contexto.pc]

MensajeAlKernel ==
  \E cop \in Llamadas \union {"EXIT", "SEG_FAULT"} :
    /\ enlace = [a |-> "kernel", cop |-> cop,
                 m |-> SerializarContexto(contexto.registros, contexto.pc,
                         ArgumentosDe(cop, UltimaPedida, tabla_segmentos[RUNNING]))]
    /\ contexto.pc \in 1..Len(programa[RUNNING])
    /\ cop \in Llamadas => /\ Decode(UltimaPedida) = cop
                           /\ ~SinEntrada(UltimaPedida)

(* Who has the turn: the CPU with the context of RUNNING, or a message.    *)
Turno ==
  /\ cpu = "espera" =>
       \/ enlace = NULO
       \/ RUNNING \in PROCESOS /\ (MensajeACpu \/ MensajeAlKernel)
  /\ cpu # "espera" =>
       /\ enlace = NULO /\ RUNNING \in PROCESOS
       /\ contexto.instrucciones = programa[RUNNING]
       /\ contexto.segmentos = tabla_segmentos[RUNNING]
       /\ Sigue(programa[RUNNING], contexto.pc)
  /\ cpu = "caida" => ~HayInstruccion \/ SinEntrada(Instruccion)

Inductivo == Datos /\ Vivos /\ Turno /\ DireccionVigente

-----------------------------------------------------------------------------
(* What an instruction has, by its name.                                   *)
LEMMA Operandos ==
  ASSUME NEW i \in INSTRUCCIONES
  PROVE  /\ Decode(i) = "SET" => i.reg \in DOMAIN ANCHO /\ i.val \in Seq(CELDAS)
         /\ Decode(i) \in {"MOV_IN", "MOV_OUT"} =>
              i.reg \in DOMAIN ANCHO /\ i.dir \in Nat
         /\ Decode(i) \in DeArchivo => i.dir \in Nat /\ i.cant \in Nat
         /\ Decode(i) = "CREATE_SEGMENT" => i.id \in IDS \ {0} /\ i.tam \in Nat \ {0}
         /\ Decode(i) = "DELETE_SEGMENT" => i.id \in IDS \ {0}
         /\ Decode(i) # "EXIT" => i.op = Decode(i)
<1>1. Decode(i) # "EXIT" => i.op = Decode(i)
  BY DEF Decode
<1>2. ASSUME i.op = "SET" PROVE i.reg \in DOMAIN ANCHO /\ i.val \in Seq(CELDAS)
  BY <1>2 DEF INSTRUCCIONES, DeArchivo, EnCpu, Llamadas
<1>3. ASSUME i.op \in {"MOV_IN", "MOV_OUT"} PROVE i.reg \in DOMAIN ANCHO /\ i.dir \in Nat
  BY <1>3 DEF INSTRUCCIONES, DeArchivo, EnCpu, Llamadas
<1>4. ASSUME i.op \in DeArchivo PROVE i.dir \in Nat /\ i.cant \in Nat
  BY <1>4 DEF INSTRUCCIONES, DeArchivo, EnCpu, Llamadas
<1>5. ASSUME i.op = "CREATE_SEGMENT" PROVE i.id \in IDS \ {0} /\ i.tam \in Nat \ {0}
  BY <1>5 DEF INSTRUCCIONES, DeArchivo, EnCpu, Llamadas
<1>6. ASSUME i.op = "DELETE_SEGMENT" PROVE i.id \in IDS \ {0}
  BY <1>6 DEF INSTRUCCIONES, DeArchivo, EnCpu, Llamadas
<1>7. "EXIT" \notin DeArchivo
  BY DEF DeArchivo
<1> QED
  BY <1>1, <1>2, <1>3, <1>4, <1>5, <1>6, <1>7

(* mmu: an address inside the segment, or none.                            *)
LEMMA DireccionDe ==
  ASSUME NEW tabla \in Tabla, NEW dir \in Nat, NEW n \in Nat,
         SegmentoDe(dir) \in IDS
  PROVE  LET s == tabla[SegmentoDe(dir)]
         IN  /\ MMU(tabla, dir, n) \in Int
             /\ MMU(tabla, dir, n) # FUERA =>
                  /\ MMU(tabla, dir, n) = s.base + Desplazamiento(dir)
                  /\ Desplazamiento(dir) \in Nat
                  /\ s.base <= MMU(tabla, dir, n)
                  /\ MMU(tabla, dir, n) + n <= s.base + s.tam
<1> DEFINE s == tabla[SegmentoDe(dir)]
<1>1. s.base \in Nat /\ s.tam \in Nat
  BY DEF Tabla
<1>2. Desplazamiento(dir) \in Nat
  BY SupuestoInstrucciones DEF Desplazamiento
<1>3. MMU(tabla, dir, n) = IF Desplazamiento(dir) + n > s.tam THEN FUERA
                           ELSE s.base + Desplazamiento(dir)
  BY DEF MMU
<1> HIDE DEF s
<1>4. FUERA \in Int
  BY DEF FUERA
<1>5. CASE Desplazamiento(dir) + n > s.tam
  BY <1>3, <1>4, <1>5 DEF s
<1>6. CASE ~(Desplazamiento(dir) + n > s.tam)
  <2>1. MMU(tabla, dir, n) = s.base + Desplazamiento(dir)
    BY <1>3, <1>6
  <2>2. s.base + Desplazamiento(dir) + n <= s.base + s.tam
    BY <1>1, <1>2, <1>6
  <2> QED BY <1>1, <1>2, <2>1, <2>2 DEF s
<1> QED
  BY <1>5, <1>6

(* leer, escribir and strncpy keep cells.                                  *)
LEMMA Copias ==
  /\ \A n \in Nat, v \in Seq(CELDAS) : Strncpy(v, n) \in [1..n -> CELDAS]
  /\ \A dir \in Nat, n \in Nat :
       ESPACIO_USUARIO \in [0..(TAM_MEMORIA - 1) -> CELDAS] /\ dir + n <= TAM_MEMORIA =>
         Leer(dir, n) \in [1..n -> CELDAS]
  /\ \A dir \in Int, n \in Nat : \A v \in [1..n -> CELDAS] :
       ESPACIO_USUARIO \in [0..(TAM_MEMORIA - 1) -> CELDAS] /\ Escribir(dir, v) =>
         ESPACIO_USUARIO' \in [0..(TAM_MEMORIA - 1) -> CELDAS]
<1>1. ASSUME NEW n \in Nat, NEW v \in Seq(CELDAS)
      PROVE  Strncpy(v, n) \in [1..n -> CELDAS]
  <2>1. ASSUME NEW i \in 1..n
        PROVE  (IF \E j \in 1..i : j > Len(v) \/ v[j] = Nul THEN Nul ELSE v[i]) \in CELDAS
    <3>1. Nul \in CELDAS
      BY SupuestoCpu
    <3>2. i \in 1..i
      OBVIOUS
    <3>3. ASSUME ~(\E j \in 1..i : j > Len(v) \/ v[j] = Nul)
          PROVE  v[i] \in CELDAS
      <4>1. ~(i > Len(v)) /\ Len(v) \in Nat
        BY <3>2, <3>3
      <4> QED BY <4>1
    <3> QED BY <3>1, <3>3
  <2> QED BY <2>1 DEF Strncpy
<1>2. ASSUME NEW dir \in Nat, NEW n \in Nat, dir + n <= TAM_MEMORIA,
             ESPACIO_USUARIO \in [0..(TAM_MEMORIA - 1) -> CELDAS]
      PROVE  Leer(dir, n) \in [1..n -> CELDAS]
  <2>1. \A i \in 1..n : dir + i - 1 \in 0..(TAM_MEMORIA - 1)
    BY <1>2, SupuestoCpu
  <2> QED BY <1>2, <2>1 DEF Leer
<1>3. ASSUME NEW dir \in Int, NEW n \in Nat, NEW v \in [1..n -> CELDAS],
             ESPACIO_USUARIO \in [0..(TAM_MEMORIA - 1) -> CELDAS],
             Escribir(dir, v)
      PROVE  ESPACIO_USUARIO' \in [0..(TAM_MEMORIA - 1) -> CELDAS]
  <2>1. \A c : c - dir + 1 \in DOMAIN v => v[c - dir + 1] \in CELDAS
    OBVIOUS
  <2> QED BY <1>3, <2>1 DEF Escribir
<1> QED
  BY <1>1, <1>2, <1>3

(* The arguments of each call.                                             *)
LEMMA ArgumentosSon ==
  \A cop, i, tabla :
    /\ cop = "CREATE_SEGMENT" => ArgumentosDe(cop, i, tabla) = <<i.id, i.tam>>
    /\ cop = "DELETE_SEGMENT" => ArgumentosDe(cop, i, tabla) = <<i.id>>
    /\ cop \in DeArchivo => ArgumentosDe(cop, i, tabla) =
         <<Dato, MMU(tabla, i.dir, i.cant), i.cant>>
    /\ cop \notin DeArchivo \union {"CREATE_SEGMENT", "DELETE_SEGMENT"} =>
         ArgumentosDe(cop, i, tabla) = <<>>
BY DEF ArgumentosDe, DeArchivo

(* They fit in a message.                                                  *)
LEMMA ArgumentosTipo ==
  ASSUME NEW i \in INSTRUCCIONES, NEW tabla \in Tabla, NEW cop,
         cop \in Llamadas => Decode(i) = cop /\ ~SinEntrada(i)
  PROVE  ArgumentosDe(cop, i, tabla) \in Seq(Casillas)
<1>1. /\ <<>> \in Seq(Casillas)
      /\ \A x \in Casillas : <<x>> \in Seq(Casillas)
      /\ \A x, y \in Casillas : <<x, y>> \in Seq(Casillas)
      /\ \A x, y, z \in Casillas : <<x, y, z>> \in Seq(Casillas)
  OBVIOUS
<1>2. ASSUME cop = "CREATE_SEGMENT"
      PROVE  i.id \in Casillas /\ i.tam \in Casillas
  <2>1. Decode(i) = cop
    BY <1>2 DEF Llamadas
  <2> QED BY <1>2, <2>1, Operandos, SupuestoInstrucciones DEF Casillas, IDS
<1>3. ASSUME cop = "DELETE_SEGMENT" PROVE i.id \in Casillas
  <2>1. Decode(i) = cop
    BY <1>3 DEF Llamadas
  <2> QED BY <1>3, <2>1, Operandos, SupuestoInstrucciones DEF Casillas, IDS
<1>4. ASSUME cop \in DeArchivo
      PROVE  /\ Dato \in Casillas /\ MMU(tabla, i.dir, i.cant) \in Casillas
             /\ i.cant \in Casillas
  <2>1. /\ Decode(i) = cop /\ ~SinEntrada(i) /\ i.op = cop
        /\ i.dir \in Nat /\ i.cant \in Nat
    BY <1>4, Operandos DEF Llamadas, DeArchivo
  <2>2. SegmentoDe(i.dir) \in IDS
    BY <1>4, <2>1 DEF SinEntrada
  <2>3. MMU(tabla, i.dir, i.cant) \in Int
    BY <2>1, <2>2, DireccionDe
  <2> QED BY <2>1, <2>3, SupuestoCpu DEF Casillas
<1>5. PICK x, y, z : x = i.id /\ y = i.tam /\ z = i.cant
  OBVIOUS
<1>6. PICK m : m = MMU(tabla, i.dir, i.cant)
  OBVIOUS
<1>7. PICK d : d = Dato
  OBVIOUS
<1>8. /\ cop = "CREATE_SEGMENT" => ArgumentosDe(cop, i, tabla) = <<x, y>>
      /\ cop = "DELETE_SEGMENT" => ArgumentosDe(cop, i, tabla) = <<x>>
      /\ cop \in DeArchivo => ArgumentosDe(cop, i, tabla) = <<d, m, z>>
      /\ cop \notin DeArchivo \union {"CREATE_SEGMENT", "DELETE_SEGMENT"} =>
           ArgumentosDe(cop, i, tabla) = <<>>
  BY ONLY <1>5, <1>6, <1>7, ArgumentosSon
<1>9. /\ cop = "CREATE_SEGMENT" => x \in Casillas /\ y \in Casillas
      /\ cop = "DELETE_SEGMENT" => x \in Casillas
      /\ cop \in DeArchivo => d \in Casillas /\ m \in Casillas /\ z \in Casillas
  BY <1>2, <1>3, <1>4, <1>5, <1>6, <1>7
<1>10. CASE cop = "CREATE_SEGMENT"
  BY ONLY <1>1, <1>8, <1>9, <1>10
<1>11. CASE cop = "DELETE_SEGMENT"
  BY ONLY <1>1, <1>8, <1>9, <1>11
<1>12. CASE cop \in DeArchivo
  BY ONLY <1>1, <1>8, <1>9, <1>12
<1>13. CASE cop \notin DeArchivo \union {"CREATE_SEGMENT", "DELETE_SEGMENT"}
  BY ONLY <1>1, <1>8, <1>13
<1> QED
  BY <1>10, <1>11, <1>12, <1>13

-----------------------------------------------------------------------------
(* The program of a process is a list of instructions with one at least.   *)
LEMMA ProgramaDe ==
  ASSUME Datos, NEW p \in PROCESOS
  PROVE  /\ programa[p] \in Seq(INSTRUCCIONES) /\ Len(programa[p]) \in Nat \ {0}
         /\ Registros(registros_cpu[p]) /\ tabla_segmentos[p] \in Tabla
         /\ program_counter[p] \in Nat
<1>1. programa[p] \in PROGRAMAS
  BY DEF Datos
<1>2. programa[p] \in Seq(INSTRUCCIONES) /\ programa[p] # <<>>
  BY <1>1, SupuestoCpu
<1>3. Registros(registros_cpu[p]) /\ tabla_segmentos[p] \in Tabla
      /\ program_counter[p] \in Nat
  BY DEF Datos
<1> QED
  BY <1>2, <1>3

(* The CPU takes a context: it is that of the process in RUNNING.          *)
LEMMA LlegaALaCpu ==
  ASSUME Datos, Turno, enlace # NULO, enlace.a = "cpu"
  PROVE  /\ cpu = "espera" /\ RUNNING \in PROCESOS
         /\ CambiarContexto(Recibido(enlace.m)) =
              [pid |-> RUNNING, registros |-> registros_cpu[RUNNING],
               pc |-> program_counter[RUNNING], instrucciones |-> programa[RUNNING],
               segmentos |-> tabla_segmentos[RUNNING]]
<1>1. cpu = "espera" /\ RUNNING \in PROCESOS /\ (MensajeACpu \/ MensajeAlKernel)
  BY DEF Turno, Datos
<1>2. ~MensajeAlKernel
  BY DEF MensajeAlKernel
<1>3. enlace.m = SerializarContextoPCB(RUNNING, registros_cpu[RUNNING],
                   program_counter[RUNNING], programa[RUNNING],
                   tabla_segmentos[RUNNING])
  BY <1>1, <1>2 DEF MensajeACpu
<1>4. /\ programa[RUNNING] \in Seq(INSTRUCCIONES)
      /\ Registros(registros_cpu[RUNNING]) /\ tabla_segmentos[RUNNING] \in Tabla
      /\ program_counter[RUNNING] \in Nat
  BY <1>1, ProgramaDe
<1>5. CambiarContexto(Recibido(enlace.m)) =
        [pid |-> RUNNING, registros |-> registros_cpu[RUNNING],
         pc |-> program_counter[RUNNING], instrucciones |-> programa[RUNNING],
         segmentos |-> tabla_segmentos[RUNNING]]
  BY <1>1, <1>3, <1>4, ContextoVuelve
<1> QED
  BY <1>1, <1>5

(* The kernel takes a call: it is of the process in RUNNING, and says what *)
(* its instruction says.                                                   *)
LEMMA LlegaAlKernel ==
  ASSUME Datos, Turno, enlace # NULO, enlace.a = "kernel"
  PROVE  /\ cpu = "espera" /\ RUNNING \in PROCESOS
         /\ contexto.pc \in 1..Len(programa[RUNNING])
         /\ UltimaPedida \in INSTRUCCIONES
         /\ Registros(contexto.registros)
         /\ DeserializarRegistros(Recibo) = contexto.registros
         /\ DeserializarPC(Recibo) = contexto.pc
         /\ enlace.cop \in Llamadas =>
              Decode(UltimaPedida) = enlace.cop /\ ~SinEntrada(UltimaPedida)
         /\ enlace.cop = "CREATE_SEGMENT" =>
              /\ Argumento(Recibo, 1) = UltimaPedida.id
              /\ Argumento(Recibo, 2) = UltimaPedida.tam
         /\ enlace.cop = "DELETE_SEGMENT" => Argumento(Recibo, 1) = UltimaPedida.id
         /\ enlace.cop \in DeArchivo =>
              /\ Argumento(Recibo, 2) = MMU(tabla_segmentos[RUNNING],
                                            UltimaPedida.dir, UltimaPedida.cant)
              /\ Argumento(Recibo, 3) = UltimaPedida.cant
<1>1. cpu = "espera" /\ RUNNING \in PROCESOS /\ (MensajeACpu \/ MensajeAlKernel)
  BY DEF Turno, Datos
<1>2. ~MensajeACpu
  BY DEF MensajeACpu
<1> DEFINE args == ArgumentosDe(enlace.cop, UltimaPedida, tabla_segmentos[RUNNING])
<1>3. /\ enlace.m = SerializarContexto(contexto.registros, contexto.pc, args)
      /\ contexto.pc \in 1..Len(programa[RUNNING])
      /\ enlace.cop \in Llamadas =>
           Decode(UltimaPedida) = enlace.cop /\ ~SinEntrada(UltimaPedida)
  <2>1. PICK cop \in Llamadas \union {"EXIT", "SEG_FAULT"} :
          /\ enlace = [a |-> "kernel", cop |-> cop,
                 m |-> SerializarContexto(contexto.registros, contexto.pc,
                         ArgumentosDe(cop, UltimaPedida, tabla_segmentos[RUNNING]))]
          /\ contexto.pc \in 1..Len(programa[RUNNING])
          /\ cop \in Llamadas => /\ Decode(UltimaPedida) = cop
                                 /\ ~SinEntrada(UltimaPedida)
    BY <1>1, <1>2 DEF MensajeAlKernel
  <2>2. enlace.cop = cop
    BY <2>1
  <2> QED BY <2>1, <2>2
<1>4. UltimaPedida \in INSTRUCCIONES /\ tabla_segmentos[RUNNING] \in Tabla
  BY <1>1, <1>3, ProgramaDe DEF UltimaPedida
<1>5. Registros(contexto.registros) /\ contexto.pc \in Nat
  BY DEF Datos, Contextos
<1>6. args \in Seq(Casillas)
  BY <1>3, <1>4, ArgumentosTipo
<1> HIDE DEF args
<1>7. /\ DeserializarRegistros(Recibo) = contexto.registros
      /\ DeserializarPC(Recibo) = contexto.pc
      /\ \A i \in 1..Len(args) : Argumento(Recibo, i) = args[i]
  BY <1>3, <1>5, <1>6, LlamadaVuelve DEF Recibo
<1>8. ASSUME enlace.cop = "CREATE_SEGMENT"
      PROVE  /\ Argumento(Recibo, 1) = UltimaPedida.id
             /\ Argumento(Recibo, 2) = UltimaPedida.tam
  <2>1. args = <<UltimaPedida.id, UltimaPedida.tam>>
    BY <1>8, ArgumentosSon DEF args
  <2> QED BY <1>7, <2>1
<1>9. ASSUME enlace.cop = "DELETE_SEGMENT"
      PROVE  Argumento(Recibo, 1) = UltimaPedida.id
  <2>1. args = <<UltimaPedida.id>>
    BY <1>9, ArgumentosSon DEF args
  <2> QED BY <1>7, <2>1
<1>10. ASSUME enlace.cop \in DeArchivo
       PROVE  /\ Argumento(Recibo, 2) = MMU(tabla_segmentos[RUNNING],
                                            UltimaPedida.dir, UltimaPedida.cant)
              /\ Argumento(Recibo, 3) = UltimaPedida.cant
  <2>1. args = <<Dato, MMU(tabla_segmentos[RUNNING], UltimaPedida.dir,
                           UltimaPedida.cant), UltimaPedida.cant>>
    BY <1>10, ArgumentosSon DEF args
  <2> QED BY <1>7, <2>1
<1> QED
  BY <1>1, <1>3, <1>4, <1>5, <1>7, <1>8, <1>9, <1>10

-----------------------------------------------------------------------------
(* The table of a process that has not asked for segments.                 *)
LEMMA InicialTipo ==
  /\ TablaInicial \in Tabla /\ Inactivo \in [base : Nat, tam : Nat, activo : BOOLEAN]
  /\ \A s \in IDS : TablaInicial[s].base + TablaInicial[s].tam <= TAM_MEMORIA
  /\ Inactivo.base + Inactivo.tam <= TAM_MEMORIA
BY SupuestoCpu DEF TablaInicial, Tabla, Inactivo

(* Empty registers are registers.                                          *)
LEMMA VaciosTipo ==
  Registros(RegistrosVacios) /\ RegistrosVacios \in [DOMAIN ANCHO -> Seq(CELDAS)]
<1>1. ASSUME NEW r \in DOMAIN ANCHO
      PROVE  /\ [i \in 1..ANCHO[r] |-> Nul] \in [1..ANCHO[r] -> CELDAS]
             /\ [i \in 1..ANCHO[r] |-> Nul] \in Seq(CELDAS)
  <2>1. ANCHO[r] \in Nat /\ Nul \in CELDAS
    BY SupuestoInstrucciones, SupuestoCpu
  <2> QED BY <2>1
<1> QED
  BY <1>1 DEF Registros, RegistrosVacios, DeSuAncho

(* The invariant holds at the start.                                       *)
LEMMA InicioInductivo == Init => Inductivo
<1> SUFFICES ASSUME Init PROVE Inductivo
  OBVIOUS
<1>1. Datos
  <2>1. programa \in [PROCESOS -> PROGRAMAS]
    BY DEF Init
  <2>2. \A p \in PROCESOS : program_counter[p] = 0 /\ Len(programa[p]) \in Nat
    <3> TAKE p \in PROCESOS
    <3>1. programa[p] \in Seq(INSTRUCCIONES)
      BY <2>1, SupuestoCpu
    <3> QED BY <3>1 DEF Init
  <2>3. program_counter \in [PROCESOS -> Nat]
    BY DEF Init
  <2>4. registros_cpu \in
          [PROCESOS -> {regs \in [DOMAIN ANCHO -> Seq(CELDAS)] : Registros(regs)}]
    BY VaciosTipo DEF Init
  <2>5. /\ tabla_segmentos \in [PROCESOS -> Tabla]
        /\ \A p \in PROCESOS, s \in IDS :
             tabla_segmentos[p][s].base + tabla_segmentos[p][s].tam <= TAM_MEMORIA
    BY InicialTipo DEF Init
  <2>6. contexto \in Contextos /\ contexto.pc = 0 /\ contexto.instrucciones = <<>>
    <3>1. <<>> \in Seq(INSTRUCCIONES)
      OBVIOUS
    <3> QED BY <3>1, VaciosTipo, InicialTipo DEF Init, Contextos
  <2>7. contexto.pc <= Len(contexto.instrucciones)
    <3>1. Len(<<>>) = 0
      OBVIOUS
    <3> QED BY <2>6, <3>1
  <2>8. ESPACIO_USUARIO \in [0..(TAM_MEMORIA - 1) -> CELDAS]
    BY SupuestoCpu DEF Init
  <2>9. hilo \in [PROCESOS -> {SinHilo} \union Hilo]
    BY DEF Init
  <2>10. /\ RUNNING \in PROCESOS \union {NULO} /\ terminados \subseteq PROCESOS
         /\ cpu \in {"espera", "ejecuta", "caida"}
    BY DEF Init
  <2>11. \A p \in PROCESOS : program_counter[p] <= Len(programa[p])
    BY <2>2
  <2> QED
    BY <2>1, <2>3, <2>4, <2>5, <2>6, <2>7, <2>8, <2>9, <2>10, <2>11 DEF Datos
<1>2. Vivos
  <2>1. ASSUME NEW p \in PROCESOS PROVE Sigue(programa[p], program_counter[p])
    <3>1. Len(programa[p]) \in Nat \ {0} /\ program_counter[p] = 0
      BY <1>1, ProgramaDe DEF Init
    <3> QED BY <3>1 DEF Sigue
  <2>2. RUNNING \notin PROCESOS
    BY SupuestoCpu DEF Init
  <2> QED BY <2>1, <2>2 DEF Vivos
<1>3. Turno
  BY DEF Init, Turno
<1>4. DireccionVigente
  BY DEF Init, DireccionVigente, SinHilo
<1> QED
  BY <1>1, <1>2, <1>3, <1>4 DEF Inductivo

-----------------------------------------------------------------------------
(* What the CPU has while it executes: the context of the process in       *)
(* RUNNING, as the kernel keeps it.                                        *)
LEMMA EnEjecucion ==
  ASSUME Datos, Turno, cpu # "espera"
  PROVE  /\ RUNNING \in PROCESOS
         /\ contexto.pc \in Nat /\ contexto.pc <= Len(contexto.instrucciones)
         /\ Len(contexto.instrucciones) \in Nat
         /\ contexto.instrucciones = programa[RUNNING]
         /\ contexto.segmentos = tabla_segmentos[RUNNING]
         /\ contexto.segmentos \in Tabla
         /\ HayInstruccion =>
              /\ contexto.pc + 1 \in 1..Len(contexto.instrucciones)
              /\ Instruccion \in INSTRUCCIONES
              /\ Instruccion = programa[RUNNING][contexto.pc + 1]
<1>1. /\ RUNNING \in PROCESOS /\ contexto.instrucciones = programa[RUNNING]
      /\ contexto.segmentos = tabla_segmentos[RUNNING]
  BY DEF Turno
<1>2. /\ contexto.pc \in Nat /\ contexto.pc <= Len(contexto.instrucciones)
      /\ contexto.instrucciones \in Seq(INSTRUCCIONES)
      /\ contexto.segmentos \in Tabla
  BY DEF Datos, Contextos
<1>3. Len(contexto.instrucciones) \in Nat
  BY <1>2
<1>4. ASSUME HayInstruccion
      PROVE  /\ contexto.pc + 1 \in 1..Len(contexto.instrucciones)
             /\ Instruccion \in INSTRUCCIONES
             /\ Instruccion = programa[RUNNING][contexto.pc + 1]
  <2>1. contexto.pc + 1 \in 1..Len(contexto.instrucciones)
    BY <1>2, <1>3, <1>4 DEF HayInstruccion
  <2>2. contexto.instrucciones[contexto.pc + 1] \in INSTRUCCIONES
    BY <1>2, <2>1
  <2> QED BY <1>1, <2>1, <2>2 DEF Instruccion
<1> QED
  BY <1>1, <1>2, <1>3, <1>4

(* A step of the CPU changes its context, the message and memory only.     *)
LEMMA PasoDeCpu ==
  ASSUME Inductivo, UNCHANGED <<pcbs, RUNNING, terminados, hilo>>,
         contexto' \in Contextos, contexto'.pc <= Len(contexto'.instrucciones),
         cpu' \in {"espera", "ejecuta", "caida"},
         ESPACIO_USUARIO' \in [0..(TAM_MEMORIA - 1) -> CELDAS],
         Turno'
  PROVE  Inductivo'
<1>1. /\ programa' = programa /\ program_counter' = program_counter
      /\ registros_cpu' = registros_cpu /\ tabla_segmentos' = tabla_segmentos
      /\ RUNNING' = RUNNING /\ terminados' = terminados /\ hilo' = hilo
  BY DEF pcbs
<1>2. Datos'
  BY <1>1 DEF Inductivo, Datos
<1>3. Vivos'
  BY <1>1 DEF Inductivo, Vivos
<1>4. DireccionVigente'
  BY <1>1 DEF Inductivo, DireccionVigente, MMU
<1> QED
  BY <1>2, <1>3, <1>4 DEF Inductivo

(* The context after an instruction.                                       *)
LEMMA ContextoAvanza ==
  ASSUME NEW c \in Contextos, NEW c2,
         NEW regs \in {e \in [DOMAIN ANCHO -> Seq(CELDAS)] : Registros(e)},
         c2 = [c EXCEPT !.pc = @ + 1, !.registros = regs]
  PROVE  /\ c2 \in Contextos /\ c2.pc = c.pc + 1 /\ c2.registros = regs
         /\ c2.instrucciones = c.instrucciones /\ c2.segmentos = c.segmentos
<1> DEFINE R == {e \in [DOMAIN ANCHO -> Seq(CELDAS)] : Registros(e)}
           P == PROCESOS \union {NULO}
           I == Seq(INSTRUCCIONES)
<1>1. Contextos = [pid : P, pc : Nat, registros : R, instrucciones : I,
                   segmentos : Tabla]
  BY DEF Contextos
<1> HIDE DEF R, P, I
<1>2. regs \in R
  BY DEF R
<1>3. c \in [pid : P, pc : Nat, registros : R, instrucciones : I, segmentos : Tabla]
  BY <1>1
<1>4. /\ c2 \in [pid : P, pc : Nat, registros : R, instrucciones : I,
                 segmentos : Tabla]
      /\ c2.pc = c.pc + 1 /\ c2.registros = regs
      /\ c2.instrucciones = c.instrucciones /\ c2.segmentos = c.segmentos
  <2>1. PICK c1 : c1 = [c EXCEPT !.pc = @ + 1]
    OBVIOUS
  <2>2. c2 = [c1 EXCEPT !.registros = regs]
    BY ONLY <2>1, c2 = [c EXCEPT !.pc = @ + 1, !.registros = regs], Zenon
  <2>3. /\ c1 \in [pid : P, pc : Nat, registros : R, instrucciones : I,
                   segmentos : Tabla]
        /\ c1.pc = c.pc + 1 /\ c1.instrucciones = c.instrucciones
        /\ c1.segmentos = c.segmentos
    BY ONLY <1>3, <2>1
  <2> QED BY ONLY <1>2, <2>2, <2>3
<1> QED
  BY <1>1, <1>4

(* devolver_contexto: the call is that of the instruction, or one that     *)
(* ends the process.                                                       *)
LEMMA PasoDevolver ==
  ASSUME Inductivo, NEW op, Ejecuta(op),
         NEW cop \in Llamadas \union {"EXIT", "SEG_FAULT"},
         cop \in Llamadas => cop = op,
         NEW regs \in [DOMAIN ANCHO -> Seq(CELDAS)], Registros(regs),
         Devolver(cop, regs),
         ESPACIO_USUARIO' \in [0..(TAM_MEMORIA - 1) -> CELDAS]
  PROVE  Inductivo'
<1>1. Datos /\ Turno /\ cpu = "ejecuta" /\ HayInstruccion /\ ~SinEntrada(Instruccion)
      /\ Decode(Instruccion) = op
  BY DEF Inductivo, Ejecuta
<1>2. UNCHANGED <<pcbs, RUNNING, terminados, hilo>>
  BY DEF Ejecuta
<1>3. /\ RUNNING \in PROCESOS
      /\ contexto.pc \in Nat /\ Len(contexto.instrucciones) \in Nat
      /\ contexto.instrucciones = programa[RUNNING]
      /\ contexto.segmentos = tabla_segmentos[RUNNING]
      /\ contexto.pc + 1 \in 1..Len(contexto.instrucciones)
      /\ Instruccion = programa[RUNNING][contexto.pc + 1]
  BY <1>1, EnEjecucion
<1>4. /\ contexto' = [contexto EXCEPT !.pc = @ + 1, !.registros = regs]
      /\ cpu' = "espera"
      /\ enlace' = [a |-> "kernel", cop |-> cop,
                    m |-> SerializarContexto(regs, contexto.pc + 1,
                                             Argumentos(cop))]
  BY DEF Devolver
<1>5. contexto \in Contextos
  BY <1>1 DEF Datos
<1>6. /\ contexto' \in Contextos /\ contexto'.pc = contexto.pc + 1
      /\ contexto'.registros = regs
      /\ contexto'.instrucciones = contexto.instrucciones
  <2>1. regs \in {e \in [DOMAIN ANCHO -> Seq(CELDAS)] : Registros(e)}
    OBVIOUS
  <2> QED BY <1>3, <1>4, <1>5, <2>1, ContextoAvanza
<1>7. contexto'.pc <= Len(contexto'.instrucciones)
  BY <1>3, <1>6
<1>8. /\ programa' = programa /\ RUNNING' = RUNNING
      /\ tabla_segmentos' = tabla_segmentos
  BY <1>2 DEF pcbs
<1>9. UltimaPedida' = Instruccion
  BY <1>3, <1>6, <1>8 DEF UltimaPedida
<1>10. Argumentos(cop) =
         ArgumentosDe(cop, UltimaPedida', tabla_segmentos'[RUNNING'])
  <2>1. Argumentos(cop) = ArgumentosDe(cop, Instruccion, contexto.segmentos)
    BY DEF Argumentos, ArgumentosDe
  <2> QED BY <1>3, <1>8, <1>9, <2>1
<1>11. MensajeAlKernel'
  <2>1. enlace' = [a |-> "kernel", cop |-> cop,
                 m |-> SerializarContexto(contexto'.registros, contexto'.pc,
                         ArgumentosDe(cop, UltimaPedida',
                                      tabla_segmentos'[RUNNING']))]
    BY <1>4, <1>6, <1>10
  <2>2. contexto'.pc \in 1..Len(programa'[RUNNING'])
    BY <1>3, <1>6, <1>8
  <2>3. cop \in Llamadas => Decode(UltimaPedida') = cop /\ ~SinEntrada(UltimaPedida')
    BY <1>1, <1>9
  <2>4. (\E c \in Llamadas \union {"EXIT", "SEG_FAULT"} :
          /\ enlace = [a |-> "kernel", cop |-> c,
                 m |-> SerializarContexto(contexto.registros, contexto.pc,
                         ArgumentosDe(c, UltimaPedida, tabla_segmentos[RUNNING]))]
          /\ contexto.pc \in 1..Len(programa[RUNNING])
          /\ c \in Llamadas => /\ Decode(UltimaPedida) = c
                               /\ ~SinEntrada(UltimaPedida))'
    BY <2>1, <2>2, <2>3
  <2> QED BY <2>4 DEF MensajeAlKernel
<1>12. Turno'
  BY <1>3, <1>4, <1>8, <1>11 DEF Turno
<1> QED
  BY <1>2, <1>4, <1>6, <1>7, <1>12, PasoDeCpu

(* The next instruction, or EXIT after the last one.                       *)
LEMMA PasoSeguir ==
  ASSUME Inductivo, NEW op, Ejecuta(op), op \notin Llamadas,
         NEW regs \in [DOMAIN ANCHO -> Seq(CELDAS)], Registros(regs),
         Seguir(regs),
         ESPACIO_USUARIO' \in [0..(TAM_MEMORIA - 1) -> CELDAS]
  PROVE  Inductivo'
<1>1. CASE UltimaInstruccion
  <2>1. Devolver("EXIT", regs)
    BY <1>1 DEF Seguir
  <2>2. "EXIT" \notin Llamadas
    BY DEF Llamadas, DeArchivo
  <2> QED BY <2>1, <2>2, PasoDevolver
<1>2. CASE ~UltimaInstruccion
  <2>1. Datos /\ Turno /\ cpu = "ejecuta" /\ HayInstruccion
    BY DEF Inductivo, Ejecuta
  <2>2. UNCHANGED <<pcbs, RUNNING, terminados, hilo>>
    BY DEF Ejecuta
  <2>3. /\ RUNNING \in PROCESOS
        /\ contexto.pc \in Nat /\ Len(contexto.instrucciones) \in Nat
        /\ contexto.instrucciones = programa[RUNNING]
        /\ contexto.segmentos = tabla_segmentos[RUNNING]
    BY <2>1, EnEjecucion
  <2>4. /\ contexto' = [contexto EXCEPT !.pc = @ + 1, !.registros = regs]
        /\ cpu' = cpu /\ enlace' = enlace
    BY <1>2 DEF Seguir
  <2>5. contexto \in Contextos
    BY <2>1 DEF Datos
  <2>6. /\ contexto' \in Contextos /\ contexto'.pc = contexto.pc + 1
        /\ contexto'.instrucciones = contexto.instrucciones
        /\ contexto'.segmentos = contexto.segmentos
    <3>1. regs \in {e \in [DOMAIN ANCHO -> Seq(CELDAS)] : Registros(e)}
      OBVIOUS
    <3> QED BY <2>3, <2>4, <2>5, <3>1, ContextoAvanza
  <2>7. contexto'.pc < Len(contexto'.instrucciones)
    BY <1>2, <2>3, <2>6 DEF UltimaInstruccion
  <2>8. /\ programa' = programa /\ RUNNING' = RUNNING
        /\ tabla_segmentos' = tabla_segmentos
    BY <2>2 DEF pcbs
  <2>9. Turno'
    <3>1. enlace = NULO
      BY <2>1 DEF Turno
    <3>2. Sigue(programa'[RUNNING'], contexto'.pc)
      BY <2>3, <2>6, <2>7, <2>8 DEF Sigue
    <3>3. cpu' = "ejecuta"
      BY <2>1, <2>4
    <3> QED BY <2>3, <2>4, <2>6, <2>8, <3>1, <3>2, <3>3 DEF Turno
  <2>10. contexto'.pc <= Len(contexto'.instrucciones)
    BY <2>3, <2>6, <2>7
  <2> QED BY <2>1, <2>2, <2>4, <2>6, <2>9, <2>10, PasoDeCpu
<1> QED
  BY <1>1, <1>2

(* Registers of which one gets a value of its width.                       *)
LEMMA CambiaRegistro ==
  ASSUME NEW regs \in [DOMAIN ANCHO -> Seq(CELDAS)], Registros(regs),
         NEW r \in DOMAIN ANCHO, NEW v \in [1..ANCHO[r] -> CELDAS]
  PROVE  /\ [regs EXCEPT ![r] = v] \in [DOMAIN ANCHO -> Seq(CELDAS)]
         /\ Registros([regs EXCEPT ![r] = v])
<1>1. ANCHO[r] \in Nat
  BY SupuestoInstrucciones
<1>2. v \in Seq(CELDAS)
  BY <1>1
<1> QED
  BY <1>2 DEF Registros, DeSuAncho

(* SET.                                                                    *)
LEMMA PasoSet == Inductivo /\ CpuSet => Inductivo'
<1> SUFFICES ASSUME Inductivo, CpuSet PROVE Inductivo'
  OBVIOUS
<1>1. /\ Datos /\ Turno /\ cpu = "ejecuta" /\ HayInstruccion
      /\ Decode(Instruccion) = "SET" /\ Ejecuta("SET")
  BY DEF Inductivo, CpuSet, Ejecuta
<1>2. Instruccion.reg \in DOMAIN ANCHO /\ Instruccion.val \in Seq(CELDAS)
  BY <1>1, EnEjecucion, Operandos
<1>3. PICK regs, r, v : /\ regs = contexto.registros /\ r = Instruccion.reg
                        /\ v = Strncpy(Instruccion.val, ANCHO[Instruccion.reg])
  OBVIOUS
<1>4. regs \in [DOMAIN ANCHO -> Seq(CELDAS)] /\ Registros(regs)
  BY <1>1, <1>3 DEF Datos, Contextos
<1>5. r \in DOMAIN ANCHO /\ v \in [1..ANCHO[r] -> CELDAS]
  <2>1. ANCHO[r] \in Nat
    BY <1>2, <1>3, SupuestoInstrucciones
  <2> QED BY <1>2, <1>3, <2>1, Copias
<1>6. Seguir([regs EXCEPT ![r] = v])
  BY <1>3 DEF CpuSet
<1>7. ESPACIO_USUARIO' \in [0..(TAM_MEMORIA - 1) -> CELDAS]
  BY <1>1 DEF CpuSet, Datos
<1>8. "SET" \notin Llamadas
  BY DEF Llamadas, DeArchivo
<1>9. PICK nuevos : nuevos = [regs EXCEPT ![r] = v]
  OBVIOUS
<1>10. nuevos \in [DOMAIN ANCHO -> Seq(CELDAS)] /\ Registros(nuevos)
  BY <1>4, <1>5, <1>9, CambiaRegistro
<1> QED
  BY <1>1, <1>6, <1>7, <1>8, <1>9, <1>10, PasoSeguir

(* The segment an instruction reaches is inside memory.                    *)
LEMMA Alcanza ==
  ASSUME Datos, Turno, cpu = "ejecuta", HayInstruccion, ~SinEntrada(Instruccion),
         Decode(Instruccion) \in {"MOV_IN", "MOV_OUT"}
  PROVE  /\ Instruccion.reg \in DOMAIN ANCHO /\ TamRegistro \in Nat
         /\ LET dir == MMU(contexto.segmentos, Instruccion.dir, TamRegistro)
            IN  dir # FUERA => dir \in Nat /\ dir + TamRegistro <= TAM_MEMORIA
<1>1. /\ RUNNING \in PROCESOS /\ Instruccion \in INSTRUCCIONES
      /\ contexto.segmentos = tabla_segmentos[RUNNING]
      /\ contexto.segmentos \in Tabla
  BY EnEjecucion
<1>2. /\ Instruccion.reg \in DOMAIN ANCHO /\ Instruccion.dir \in Nat
      /\ Instruccion.op \in {"MOV_IN", "MOV_OUT"}
  <2>1. Decode(Instruccion) # "EXIT"
    OBVIOUS
  <2> QED BY <1>1, <2>1, Operandos
<1>3. TamRegistro \in Nat
  BY <1>2, SupuestoInstrucciones DEF TamRegistro
<1>4. SegmentoDe(Instruccion.dir) \in IDS
  BY <1>2 DEF SinEntrada
<1> DEFINE s == contexto.segmentos[SegmentoDe(Instruccion.dir)]
           dir == MMU(contexto.segmentos, Instruccion.dir, TamRegistro)
<1>5. /\ dir \in Int
      /\ dir # FUERA => s.base <= dir /\ dir + TamRegistro <= s.base + s.tam
  BY <1>1, <1>2, <1>3, <1>4, DireccionDe
<1>6. s.base + s.tam <= TAM_MEMORIA
  BY <1>1, <1>4 DEF Datos
<1>7. s.base \in Nat /\ s.tam \in Nat /\ TAM_MEMORIA \in Nat
  BY <1>1, <1>4, SupuestoCpu DEF Tabla
<1> HIDE DEF s, dir
<1>8. dir # FUERA => dir \in Nat /\ dir + TamRegistro <= TAM_MEMORIA
  BY <1>3, <1>5, <1>6, <1>7
<1> QED
  BY <1>2, <1>3, <1>8 DEF dir

(* MOV_IN.                                                                 *)
LEMMA PasoMovIn == Inductivo /\ CpuMovIn => Inductivo'
<1> SUFFICES ASSUME Inductivo, CpuMovIn PROVE Inductivo'
  OBVIOUS
<1>1. /\ Datos /\ Turno /\ cpu = "ejecuta" /\ HayInstruccion
      /\ Decode(Instruccion) = "MOV_IN" /\ Ejecuta("MOV_IN")
      /\ ~SinEntrada(Instruccion)
  BY DEF Inductivo, CpuMovIn, Ejecuta
<1>2. PICK regs, r, n, dir :
        /\ regs = contexto.registros /\ r = Instruccion.reg /\ n = TamRegistro
        /\ dir = MMU(contexto.segmentos, Instruccion.dir, n)
  OBVIOUS
<1>3. regs \in [DOMAIN ANCHO -> Seq(CELDAS)] /\ Registros(regs)
  BY <1>1, <1>2 DEF Datos, Contextos
<1>4. /\ r \in DOMAIN ANCHO /\ n = ANCHO[r] /\ n \in Nat
      /\ dir # FUERA => dir \in Nat /\ dir + n <= TAM_MEMORIA
  BY <1>1, <1>2, Alcanza DEF TamRegistro
<1>5. ESPACIO_USUARIO' \in [0..(TAM_MEMORIA - 1) -> CELDAS]
  BY <1>1 DEF CpuMovIn, Datos
<1>6. "MOV_IN" \notin Llamadas /\ "SEG_FAULT" \notin Llamadas
  BY DEF Llamadas, DeArchivo
<1>7. CASE dir = FUERA
  <2>1. Devolver("SEG_FAULT", regs)
    BY <1>2, <1>7 DEF CpuMovIn
  <2> QED BY <1>1, <1>3, <1>5, <1>6, <2>1, PasoDevolver
<1>8. CASE dir # FUERA
  <2>1. PICK v : v = Strncpy(Leer(dir, n), n)
    OBVIOUS
  <2>2. Leer(dir, n) \in Seq(CELDAS)
    <3>1. Leer(dir, n) \in [1..n -> CELDAS]
      BY <1>1, <1>4, <1>8, Copias DEF Datos
    <3>2. PICK l : l = Leer(dir, n)
      OBVIOUS
    <3> QED BY <1>4, <3>1, <3>2
  <2>3. v \in [1..ANCHO[r] -> CELDAS]
    BY <1>4, <2>1, <2>2, Copias
  <2>4. PICK nuevos : nuevos = [regs EXCEPT ![r] = v]
    OBVIOUS
  <2>5. nuevos \in [DOMAIN ANCHO -> Seq(CELDAS)] /\ Registros(nuevos)
    BY <1>3, <1>4, <2>3, <2>4, CambiaRegistro
  <2>6. Seguir(nuevos)
    BY <1>2, <1>8, <2>1, <2>4 DEF CpuMovIn
  <2> QED BY <1>1, <1>5, <1>6, <2>5, <2>6, PasoSeguir
<1> QED
  BY <1>7, <1>8

(* MOV_OUT.                                                                *)
LEMMA PasoMovOut == Inductivo /\ CpuMovOut => Inductivo'
<1> SUFFICES ASSUME Inductivo, CpuMovOut PROVE Inductivo'
  OBVIOUS
<1>1. /\ Datos /\ Turno /\ cpu = "ejecuta" /\ HayInstruccion
      /\ Decode(Instruccion) = "MOV_OUT" /\ Ejecuta("MOV_OUT")
      /\ ~SinEntrada(Instruccion)
  BY DEF Inductivo, CpuMovOut, Ejecuta
<1>2. PICK regs, r, n, dir :
        /\ regs = contexto.registros /\ r = Instruccion.reg /\ n = TamRegistro
        /\ dir = MMU(contexto.segmentos, Instruccion.dir, n)
  OBVIOUS
<1>3. regs \in [DOMAIN ANCHO -> Seq(CELDAS)] /\ Registros(regs)
  BY <1>1, <1>2 DEF Datos, Contextos
<1>4. /\ r \in DOMAIN ANCHO /\ n = ANCHO[r] /\ n \in Nat
      /\ dir # FUERA => dir \in Nat /\ dir + n <= TAM_MEMORIA
  BY <1>1, <1>2, Alcanza DEF TamRegistro
<1>5. ESPACIO_USUARIO \in [0..(TAM_MEMORIA - 1) -> CELDAS]
  BY <1>1 DEF Datos
<1>6. "MOV_OUT" \notin Llamadas /\ "SEG_FAULT" \notin Llamadas
  BY DEF Llamadas, DeArchivo
<1>7. CASE dir = FUERA
  <2>1. Devolver("SEG_FAULT", regs) /\ ESPACIO_USUARIO' = ESPACIO_USUARIO
    BY <1>2, <1>7 DEF CpuMovOut
  <2> QED BY <1>1, <1>3, <1>5, <1>6, <2>1, PasoDevolver
<1>8. CASE dir # FUERA
  <2>1. Seguir(regs) /\ Escribir(dir, regs[r])
    BY <1>2, <1>8 DEF CpuMovOut
  <2>2. regs[r] \in [1..n -> CELDAS]
    BY <1>3, <1>4 DEF Registros, DeSuAncho
  <2>3. ESPACIO_USUARIO' \in [0..(TAM_MEMORIA - 1) -> CELDAS]
    <3>1. PICK v : v = regs[r]
      OBVIOUS
    <3>2. v \in [1..n -> CELDAS] /\ Escribir(dir, v) /\ dir \in Int
      BY <1>4, <1>8, <2>1, <2>2, <3>1
    <3> QED BY <1>4, <1>5, <3>2, Copias
  <2> QED BY <1>1, <1>3, <1>6, <2>1, <2>3, PasoSeguir
<1> QED
  BY <1>7, <1>8

(* A call.                                                                 *)
LEMMA PasoLlamada == Inductivo /\ CpuLlamada => Inductivo'
<1> SUFFICES ASSUME Inductivo, CpuLlamada PROVE Inductivo'
  OBVIOUS
<1>1. PICK op \in Llamadas \union {"EXIT"} :
        Ejecuta(op) /\ Devolver(op, contexto.registros) /\ UNCHANGED ESPACIO_USUARIO
  BY DEF CpuLlamada
<1>2. PICK regs : regs = contexto.registros
  OBVIOUS
<1>3. regs \in [DOMAIN ANCHO -> Seq(CELDAS)] /\ Registros(regs)
  BY <1>2 DEF Inductivo, Datos, Contextos
<1>4. ESPACIO_USUARIO' \in [0..(TAM_MEMORIA - 1) -> CELDAS]
  BY <1>1 DEF Inductivo, Datos
<1> QED
  BY <1>1, <1>2, <1>3, <1>4, PasoDevolver

(* The CPU goes down.                                                      *)
LEMMA PasoCae == Inductivo /\ CpuCae => Inductivo'
<1> SUFFICES ASSUME Inductivo, CpuCae PROVE Inductivo'
  OBVIOUS
<1>1. /\ contexto' = contexto /\ enlace' = enlace /\ cpu' = "caida" /\ cpu = "ejecuta"
      /\ ESPACIO_USUARIO' = ESPACIO_USUARIO
      /\ UNCHANGED <<pcbs, RUNNING, terminados, hilo>>
      /\ ~HayInstruccion \/ SinEntrada(Instruccion)
  BY DEF CpuCae
<1>2. /\ programa' = programa /\ RUNNING' = RUNNING
      /\ tabla_segmentos' = tabla_segmentos
  BY <1>1 DEF pcbs
<1>3. (~HayInstruccion \/ SinEntrada(Instruccion))'
  BY <1>1 DEF HayInstruccion, Instruccion
<1>4. Turno'
  BY <1>1, <1>2, <1>3 DEF Inductivo, Turno
<1>5. /\ contexto' \in Contextos /\ contexto'.pc <= Len(contexto'.instrucciones)
      /\ ESPACIO_USUARIO' \in [0..(TAM_MEMORIA - 1) -> CELDAS]
      /\ cpu' \in {"espera", "ejecuta", "caida"}
  BY <1>1 DEF Inductivo, Datos
<1> QED
  BY <1>1, <1>4, <1>5, PasoDeCpu

-----------------------------------------------------------------------------
(* mandar_a_cpu.                                                           *)
LEMMA PasoMandar ==
  ASSUME Inductivo, NEW p \in PROCESOS, MandarACpu(p)
  PROVE  Inductivo'
<1>1. /\ enlace = NULO /\ cpu = "espera" /\ p \notin terminados /\ hilo[p] = SinHilo
      /\ RUNNING' = p /\ cpu' = cpu /\ contexto' = contexto
      /\ ESPACIO_USUARIO' = ESPACIO_USUARIO /\ hilo' = hilo
      /\ terminados' = terminados
      /\ programa' = programa /\ program_counter' = program_counter
      /\ registros_cpu' = registros_cpu /\ tabla_segmentos' = tabla_segmentos
  BY DEF MandarACpu, pcbs
<1>2. Datos'
  BY <1>1 DEF Inductivo, Datos
<1>3. Vivos'
  BY <1>1 DEF Inductivo, Vivos, SinHilo
<1>4. DireccionVigente'
  BY <1>1 DEF Inductivo, DireccionVigente, MMU
<1>5. MensajeACpu'
  BY <1>1 DEF MandarACpu, MensajeACpu
<1>6. Turno'
  BY <1>1, <1>5 DEF Turno
<1> QED
  BY <1>2, <1>3, <1>4, <1>6 DEF Inductivo

(* The CPU takes a context.                                                *)
LEMMA PasoRecibe == Inductivo /\ CpuRecibe => Inductivo'
<1> SUFFICES ASSUME Inductivo, CpuRecibe PROVE Inductivo'
  OBVIOUS
<1>1. /\ enlace # NULO /\ enlace.a = "cpu" /\ enlace' = NULO /\ cpu' = "ejecuta"
      /\ contexto' = CambiarContexto(Recibido(enlace.m))
      /\ ESPACIO_USUARIO' = ESPACIO_USUARIO
      /\ UNCHANGED <<pcbs, RUNNING, terminados, hilo>>
  BY DEF CpuRecibe
<1>2. Datos /\ Turno /\ Vivos
  BY DEF Inductivo
<1>3. /\ RUNNING \in PROCESOS
      /\ contexto' =
           [pid |-> RUNNING, registros |-> registros_cpu[RUNNING],
            pc |-> program_counter[RUNNING], instrucciones |-> programa[RUNNING],
            segmentos |-> tabla_segmentos[RUNNING]]
  BY <1>1, <1>2, LlegaALaCpu
<1>4. /\ programa[RUNNING] \in Seq(INSTRUCCIONES)
      /\ Len(programa[RUNNING]) \in Nat \ {0}
      /\ registros_cpu[RUNNING] \in
           {regs \in [DOMAIN ANCHO -> Seq(CELDAS)] : Registros(regs)}
      /\ tabla_segmentos[RUNNING] \in Tabla /\ program_counter[RUNNING] \in Nat
      /\ program_counter[RUNNING] <= Len(programa[RUNNING])
  <2>1. /\ registros_cpu[RUNNING] \in
           {regs \in [DOMAIN ANCHO -> Seq(CELDAS)] : Registros(regs)}
        /\ program_counter[RUNNING] <= Len(programa[RUNNING])
    BY <1>2, <1>3 DEF Datos
  <2> QED BY <1>2, <1>3, <2>1, ProgramaDe
<1>5. contexto' \in Contextos
  BY <1>3, <1>4 DEF Contextos
<1>6. /\ contexto'.pc = program_counter[RUNNING]
      /\ contexto'.instrucciones = programa[RUNNING]
      /\ contexto'.segmentos = tabla_segmentos[RUNNING]
  BY <1>3
<1>7. /\ programa' = programa /\ RUNNING' = RUNNING
      /\ tabla_segmentos' = tabla_segmentos
  BY <1>1 DEF pcbs
<1>8. Sigue(programa[RUNNING], program_counter[RUNNING])
  BY <1>2, <1>3 DEF Vivos
<1>9. Turno'
  BY <1>1, <1>3, <1>6, <1>7, <1>8 DEF Turno
<1>10. ESPACIO_USUARIO' \in [0..(TAM_MEMORIA - 1) -> CELDAS]
  BY <1>1, <1>2 DEF Datos
<1>11. contexto'.pc <= Len(contexto'.instrucciones)
  BY <1>4, <1>6
<1> QED
  BY <1>1, <1>5, <1>9, <1>10, <1>11, PasoDeCpu

-----------------------------------------------------------------------------
(* deserializar_contexto_pcb: the kernel keeps what the CPU left.          *)
LEMMA PasoGuardar ==
  ASSUME Inductivo, NEW cops, KernelRecibe(cops)
  PROVE  /\ RUNNING \in PROCESOS /\ RUNNING \notin terminados
         /\ hilo[RUNNING].fase = "no"
         /\ enlace # NULO /\ enlace.a = "kernel" /\ enlace.cop \in cops
         /\ enlace' = NULO /\ programa' = programa /\ contexto' = contexto
         /\ cpu' = "espera"
         /\ program_counter' \in [PROCESOS -> Nat]
         /\ program_counter'[RUNNING] = contexto.pc
         /\ \A p \in PROCESOS : program_counter'[p] <= Len(programa[p])
         /\ registros_cpu' \in
              [PROCESOS -> {regs \in [DOMAIN ANCHO -> Seq(CELDAS)] : Registros(regs)}]
         /\ \A p \in PROCESOS \ terminados :
              p # RUNNING \/ cops \subseteq Llamadas =>
                Sigue(programa[p], program_counter'[p])
<1>1. /\ Datos /\ Turno /\ Vivos
      /\ enlace # NULO /\ enlace.a = "kernel" /\ enlace.cop \in cops
      /\ enlace' = NULO /\ programa' = programa /\ contexto' = contexto /\ cpu' = cpu
      /\ registros_cpu' =
           [registros_cpu EXCEPT ![RUNNING] = DeserializarRegistros(Recibo)]
      /\ program_counter' =
           [program_counter EXCEPT ![RUNNING] = DeserializarPC(Recibo)]
  BY DEF Inductivo, KernelRecibe, Guardar
<1>2. /\ cpu = "espera" /\ RUNNING \in PROCESOS
      /\ contexto.pc \in 1..Len(programa[RUNNING])
      /\ DeserializarRegistros(Recibo) = contexto.registros
      /\ DeserializarPC(Recibo) = contexto.pc
      /\ enlace.cop \in Llamadas => Decode(UltimaPedida) = enlace.cop
  BY <1>1, LlegaAlKernel
<1>3. RUNNING \notin terminados /\ hilo[RUNNING].fase = "no"
  BY <1>1, <1>2 DEF Vivos
<1>4. \A p \in PROCESOS : Len(programa[p]) \in Nat
  BY <1>1, ProgramaDe
<1>5. /\ program_counter \in [PROCESOS -> Nat]
      /\ \A p \in PROCESOS : program_counter[p] <= Len(programa[p])
      /\ registros_cpu \in
           [PROCESOS -> {regs \in [DOMAIN ANCHO -> Seq(CELDAS)] : Registros(regs)}]
      /\ contexto.registros \in
           {regs \in [DOMAIN ANCHO -> Seq(CELDAS)] : Registros(regs)}
  BY <1>1 DEF Datos, Contextos
<1>6. /\ contexto.pc \in Nat /\ contexto.pc <= Len(programa[RUNNING])
  BY <1>2, <1>4
<1>7. /\ program_counter' = [program_counter EXCEPT ![RUNNING] = contexto.pc]
      /\ registros_cpu' = [registros_cpu EXCEPT ![RUNNING] = contexto.registros]
  BY <1>1, <1>2
<1>8. /\ program_counter' \in [PROCESOS -> Nat]
      /\ program_counter'[RUNNING] = contexto.pc
      /\ \A p \in PROCESOS \ {RUNNING} : program_counter'[p] = program_counter[p]
  BY <1>2, <1>5, <1>6, <1>7
<1>9. registros_cpu' \in
        [PROCESOS -> {regs \in [DOMAIN ANCHO -> Seq(CELDAS)] : Registros(regs)}]
  BY <1>2, <1>5, <1>7
<1>10. \A p \in PROCESOS : program_counter'[p] <= Len(programa[p])
  BY <1>5, <1>6, <1>8
<1>11. ASSUME NEW p \in PROCESOS \ terminados, p # RUNNING \/ cops \subseteq Llamadas
       PROVE  Sigue(programa[p], program_counter'[p])
  <2>1. CASE p # RUNNING
    BY <1>1, <1>8, <2>1 DEF Vivos
  <2>2. CASE p = RUNNING
    <3>1. enlace.cop \in Llamadas
      BY <1>1, <1>11, <2>2
    <3>2. Decode(programa[p][contexto.pc]) \in Llamadas
      BY <1>2, <2>2, <3>1 DEF UltimaPedida
    <3> QED BY <1>2, <1>8, <2>2, <3>2 DEF Sigue
  <2> QED BY <2>1, <2>2
<1> QED
  BY <1>1, <1>2, <1>3, <1>8, <1>9, <1>10, <1>11

(* What is left to show of each handler of the kernel.                     *)
LEMMA PasoKernel ==
  ASSUME Inductivo, NEW cops, KernelRecibe(cops),
         RUNNING' \in {RUNNING, NULO}, terminados' \subseteq PROCESOS,
         terminados \subseteq terminados',
         RUNNING \in terminados' \/ cops \subseteq Llamadas,
         RUNNING' = RUNNING => terminados' = terminados /\ hilo' = hilo,
         tabla_segmentos' \in [PROCESOS -> Tabla],
         \A p \in PROCESOS, s \in IDS :
           tabla_segmentos'[p][s].base + tabla_segmentos'[p][s].tam <= TAM_MEMORIA,
         UNCHANGED ESPACIO_USUARIO, hilo' \in [PROCESOS -> {SinHilo} \union Hilo],
         DireccionVigente'
  PROVE  Inductivo'
<1>1. /\ RUNNING \in PROCESOS /\ RUNNING \notin terminados
      /\ hilo[RUNNING].fase = "no"
      /\ enlace' = NULO /\ programa' = programa /\ contexto' = contexto
      /\ cpu' = "espera"
      /\ program_counter' \in [PROCESOS -> Nat]
      /\ \A p \in PROCESOS : program_counter'[p] <= Len(programa[p])
      /\ registros_cpu' \in
           [PROCESOS -> {regs \in [DOMAIN ANCHO -> Seq(CELDAS)] : Registros(regs)}]
      /\ \A p \in PROCESOS \ terminados :
           p # RUNNING \/ cops \subseteq Llamadas =>
             Sigue(programa[p], program_counter'[p])
  BY PasoGuardar
<1>2. Datos'
  <2>1. Datos
    BY DEF Inductivo
  <2>2. RUNNING' \in PROCESOS \union {NULO}
    BY <1>1
  <2>3. /\ contexto' \in Contextos /\ contexto'.pc <= Len(contexto'.instrucciones)
        /\ programa' \in [PROCESOS -> PROGRAMAS]
        /\ ESPACIO_USUARIO' \in [0..(TAM_MEMORIA - 1) -> CELDAS]
        /\ cpu' \in {"espera", "ejecuta", "caida"}
    BY <1>1, <2>1 DEF Datos
  <2>4. \A p \in PROCESOS : program_counter'[p] <= Len(programa'[p])
    BY <1>1
  <2> QED BY <1>1, <2>2, <2>3, <2>4 DEF Datos
<1>3. Vivos'
  <2>1. ASSUME NEW p \in PROCESOS, p \notin terminados'
        PROVE  Sigue(programa'[p], program_counter'[p])
    <3>1. p \notin terminados /\ (p # RUNNING \/ cops \subseteq Llamadas)
      BY <2>1
    <3> QED BY <1>1, <3>1
  <2>2. ASSUME RUNNING' \in PROCESOS
        PROVE  RUNNING' \notin terminados' /\ hilo'[RUNNING'].fase = "no"
    <3>1. RUNNING' = RUNNING
      BY <2>2, SupuestoCpu
    <3> QED BY <1>1, <3>1
  <2> QED BY <2>1, <2>2 DEF Vivos
<1>4. Turno'
  BY <1>1 DEF Turno
<1> QED
  BY <1>2, <1>3, <1>4 DEF Inductivo

(* A table changes only for the process in RUNNING, which has no thread.   *)
LEMMA SinSuTabla ==
  ASSUME Inductivo, RUNNING \in PROCESOS, hilo[RUNNING].fase = "no",
         NEW t \in Tabla, \A s \in IDS : t[s].base + t[s].tam <= TAM_MEMORIA,
         tabla_segmentos' = [tabla_segmentos EXCEPT ![RUNNING] = t],
         UNCHANGED hilo
  PROVE  /\ tabla_segmentos' \in [PROCESOS -> Tabla]
         /\ \A p \in PROCESOS, s \in IDS :
              tabla_segmentos'[p][s].base + tabla_segmentos'[p][s].tam <= TAM_MEMORIA
         /\ DireccionVigente'
<1>1. /\ tabla_segmentos \in [PROCESOS -> Tabla]
      /\ \A p \in PROCESOS, s \in IDS :
           tabla_segmentos[p][s].base + tabla_segmentos[p][s].tam <= TAM_MEMORIA
  BY DEF Inductivo, Datos
<1>2. /\ tabla_segmentos' \in [PROCESOS -> Tabla]
      /\ tabla_segmentos'[RUNNING] = t
      /\ \A p \in PROCESOS \ {RUNNING} : tabla_segmentos'[p] = tabla_segmentos[p]
  BY <1>1
<1>3. ASSUME NEW p \in PROCESOS, NEW s \in IDS
      PROVE  tabla_segmentos'[p][s].base + tabla_segmentos'[p][s].tam <= TAM_MEMORIA
  <2>1. CASE p = RUNNING
    BY <1>2, <2>1
  <2>2. CASE p # RUNNING
    <3>1. tabla_segmentos'[p] = tabla_segmentos[p]
      BY <1>2, <2>2
    <3> QED BY <1>1, <3>1
  <2> QED BY <2>1, <2>2
<1>4. DireccionVigente'
  <2>1. ASSUME NEW p \in PROCESOS
        PROVE  \/ hilo[p].fase = "no" \/ hilo[p].vieja
               \/ hilo[p].dir = MMU(tabla_segmentos'[p], hilo[p].logica, hilo[p].cant)
    <3>1. CASE p = RUNNING
      BY <3>1
    <3>2. CASE p # RUNNING
      <4>1. tabla_segmentos'[p] = tabla_segmentos[p]
        BY <1>2, <3>2
      <4>2. \/ hilo[p].fase = "no" \/ hilo[p].vieja
            \/ hilo[p].dir = MMU(tabla_segmentos[p], hilo[p].logica, hilo[p].cant)
        BY DEF Inductivo, DireccionVigente
      <4> QED BY <4>1, <4>2
    <3> QED BY <3>1, <3>2
  <2>2. hilo' = hilo
    OBVIOUS
  <2> QED BY <2>1, <2>2 DEF DireccionVigente, MMU
<1> QED
  BY <1>2, <1>3, <1>4

(* YIELD.                                                                  *)
LEMMA PasoYield == Inductivo /\ KernelYield => Inductivo'
<1> SUFFICES ASSUME Inductivo, KernelYield PROVE Inductivo'
  OBVIOUS
<1>1. /\ KernelRecibe({"YIELD"}) /\ RUNNING' \in {RUNNING, NULO}
      /\ UNCHANGED <<tabla_segmentos, terminados, ESPACIO_USUARIO, hilo>>
  BY DEF KernelYield
<1>2. {"YIELD"} \subseteq Llamadas
  BY DEF Llamadas
<1>3. PICK cops : cops = {"YIELD"}
  OBVIOUS
<1>4. DireccionVigente'
  BY <1>1 DEF Inductivo, DireccionVigente, MMU
<1>5. /\ tabla_segmentos' \in [PROCESOS -> Tabla]
      /\ \A p \in PROCESOS, s \in IDS :
           tabla_segmentos'[p][s].base + tabla_segmentos'[p][s].tam <= TAM_MEMORIA
      /\ hilo' \in [PROCESOS -> {SinHilo} \union Hilo]
      /\ terminados' \subseteq PROCESOS
  BY <1>1 DEF Inductivo, Datos
<1> QED
  BY <1>1, <1>2, <1>3, <1>4, <1>5, PasoKernel

(* The end of a process.                                                   *)
LEMMA PasoTerminar ==
  ASSUME Inductivo, NEW cops, Terminar(cops)
  PROVE  Inductivo'
<1>1. /\ KernelRecibe(cops)
      /\ terminados' = terminados \union {RUNNING}
      /\ tabla_segmentos' = [tabla_segmentos EXCEPT ![RUNNING] = TablaInicial]
      /\ RUNNING' = NULO
      /\ UNCHANGED <<ESPACIO_USUARIO, hilo>>
  BY DEF Terminar
<1>2. RUNNING \in PROCESOS /\ hilo[RUNNING].fase = "no"
  BY <1>1, PasoGuardar
<1>3. PICK t : t = TablaInicial
  OBVIOUS
<1>4. t \in Tabla /\ \A s \in IDS : t[s].base + t[s].tam <= TAM_MEMORIA
  BY <1>3, InicialTipo
<1>5. /\ tabla_segmentos' \in [PROCESOS -> Tabla]
      /\ \A p \in PROCESOS, s \in IDS :
           tabla_segmentos'[p][s].base + tabla_segmentos'[p][s].tam <= TAM_MEMORIA
      /\ DireccionVigente'
  BY <1>1, <1>2, <1>3, <1>4, SinSuTabla
<1>6. /\ hilo' \in [PROCESOS -> {SinHilo} \union Hilo] /\ terminados' \subseteq PROCESOS
      /\ RUNNING' \in {RUNNING, NULO} /\ terminados \subseteq terminados'
      /\ RUNNING \in terminados' /\ RUNNING' # RUNNING
  BY <1>1, <1>2, SupuestoCpu DEF Inductivo, Datos
<1> QED
  BY <1>1, <1>5, <1>6, PasoKernel

(* A hole is inside memory.                                                *)
LEMMA EnUnHueco ==
  ASSUME Datos, NEW tam \in Nat \ {0}, NEW b \in Huecos(tam)
  PROVE  b \in Nat /\ b + tam <= TAM_MEMORIA
<1>1. Libres \subseteq 0..(TAM_MEMORIA - 1)
  BY DEF Libres, Datos
<1>2. b \in Libres /\ b..(b + tam - 1) \subseteq Libres
  BY DEF Huecos
<1>3. b \in Nat
  BY <1>1, <1>2, SupuestoCpu
<1>4. b + tam - 1 \in b..(b + tam - 1)
  BY <1>3
<1>5. b + tam - 1 \in 0..(TAM_MEMORIA - 1)
  BY <1>1, <1>2, <1>4
<1> QED
  BY <1>3, <1>5, SupuestoCpu

(* A table of which one segment changes.                                   *)
LEMMA CambiaSegmento ==
  ASSUME Datos, RUNNING \in PROCESOS, NEW id \in IDS,
         NEW b \in Nat, NEW tam \in Nat, b + tam <= TAM_MEMORIA,
         NEW a \in BOOLEAN, NEW t,
         t = [tabla_segmentos[RUNNING] EXCEPT ![id] =
                [base |-> b, tam |-> tam, activo |-> a]]
  PROVE  t \in Tabla /\ \A s \in IDS : t[s].base + t[s].tam <= TAM_MEMORIA
<1>1. PICK u : u = tabla_segmentos[RUNNING]
  OBVIOUS
<1>2. u \in Tabla /\ \A s \in IDS : u[s].base + u[s].tam <= TAM_MEMORIA
  BY <1>1 DEF Datos
<1>3. PICK v \in [base : Nat, tam : Nat, activo : BOOLEAN] :
        v = [base |-> b, tam |-> tam, activo |-> a]
  OBVIOUS
<1>4. t = [u EXCEPT ![id] = v]
  BY <1>1, <1>3
<1>5. t \in Tabla /\ t[id] = v /\ \A s \in IDS \ {id} : t[s] = u[s]
  BY <1>2, <1>4 DEF Tabla
<1>6. v.base + v.tam <= TAM_MEMORIA
  BY <1>3
<1> QED
  BY <1>2, <1>5, <1>6

(* CREATE_SEGMENT.                                                         *)
LEMMA PasoCrea == Inductivo /\ KernelCrea => Inductivo'
<1> SUFFICES ASSUME Inductivo, KernelCrea PROVE Inductivo'
  OBVIOUS
<1>1. /\ KernelRecibe({"CREATE_SEGMENT"})
      /\ UNCHANGED <<RUNNING, terminados, ESPACIO_USUARIO, hilo>>
  BY DEF KernelCrea
<1>2. /\ RUNNING \in PROCESOS /\ hilo[RUNNING].fase = "no"
      /\ enlace # NULO /\ enlace.a = "kernel" /\ enlace.cop = "CREATE_SEGMENT"
  <2>1. PICK cops : cops = {"CREATE_SEGMENT"}
    OBVIOUS
  <2> QED BY <1>1, <2>1, PasoGuardar
<1>3. Datos /\ Turno
  BY DEF Inductivo
<1>4. /\ Argumento(Recibo, 1) = UltimaPedida.id /\ Argumento(Recibo, 2) = UltimaPedida.tam
      /\ UltimaPedida \in INSTRUCCIONES /\ Decode(UltimaPedida) = "CREATE_SEGMENT"
  BY <1>2, <1>3, LlegaAlKernel DEF Llamadas
<1>5. PICK id, tam : id = UltimaPedida.id /\ tam = UltimaPedida.tam
  OBVIOUS
<1>6. id \in IDS /\ tam \in Nat \ {0}
  BY <1>4, <1>5, Operandos
<1>7. PICK b \in Huecos(tam) :
        tabla_segmentos' = [tabla_segmentos EXCEPT ![RUNNING][id] =
                              [base |-> b, tam |-> tam, activo |-> TRUE]]
  BY <1>4, <1>5 DEF KernelCrea
<1>8. b \in Nat /\ b + tam <= TAM_MEMORIA
  BY <1>3, <1>6, EnUnHueco
<1>9. PICK t : t = [tabla_segmentos[RUNNING] EXCEPT ![id] =
                      [base |-> b, tam |-> tam, activo |-> TRUE]]
  OBVIOUS
<1>10. tabla_segmentos' = [tabla_segmentos EXCEPT ![RUNNING] = t]
  BY <1>7, <1>9
<1>11. t \in Tabla /\ \A s \in IDS : t[s].base + t[s].tam <= TAM_MEMORIA
  BY <1>2, <1>3, <1>6, <1>8, <1>9, CambiaSegmento
<1>12. /\ tabla_segmentos' \in [PROCESOS -> Tabla]
       /\ \A p \in PROCESOS, s \in IDS :
            tabla_segmentos'[p][s].base + tabla_segmentos'[p][s].tam <= TAM_MEMORIA
       /\ DireccionVigente'
  BY <1>1, <1>2, <1>10, <1>11, SinSuTabla
<1>13. hilo' \in [PROCESOS -> {SinHilo} \union Hilo] /\ terminados' \subseteq PROCESOS
  BY <1>1, <1>3 DEF Datos
<1>14. PICK cops : cops = {"CREATE_SEGMENT"}
  OBVIOUS
<1>15. {"CREATE_SEGMENT"} \subseteq Llamadas
  BY DEF Llamadas
<1> QED
  BY <1>1, <1>12, <1>13, <1>14, <1>15, PasoKernel

(* CREATE_SEGMENT without memory.                                          *)
LEMMA PasoSinMemoria == Inductivo /\ KernelSinMemoria => Inductivo'
<1>1. PICK cops : cops = {"CREATE_SEGMENT"}
  OBVIOUS
<1> QED
  BY <1>1, PasoTerminar DEF KernelSinMemoria

(* EXIT and SEG_FAULT.                                                     *)
LEMMA PasoTermina == Inductivo /\ KernelTermina => Inductivo'
<1>1. PICK cops : cops = {"EXIT", "SEG_FAULT"}
  OBVIOUS
<1> QED
  BY <1>1, PasoTerminar DEF KernelTermina

(* DELETE_SEGMENT.                                                         *)
LEMMA PasoBorra == Inductivo /\ KernelBorra => Inductivo'
<1> SUFFICES ASSUME Inductivo, KernelBorra PROVE Inductivo'
  OBVIOUS
<1>1. /\ KernelRecibe({"DELETE_SEGMENT"})
      /\ tabla_segmentos' =
           [tabla_segmentos EXCEPT ![RUNNING][Argumento(Recibo, 1)] = Inactivo]
      /\ UNCHANGED <<RUNNING, terminados, ESPACIO_USUARIO, hilo>>
  BY DEF KernelBorra
<1>2. /\ RUNNING \in PROCESOS /\ hilo[RUNNING].fase = "no"
      /\ enlace # NULO /\ enlace.a = "kernel" /\ enlace.cop = "DELETE_SEGMENT"
  <2>1. PICK cops : cops = {"DELETE_SEGMENT"}
    OBVIOUS
  <2> QED BY <1>1, <2>1, PasoGuardar
<1>3. Datos /\ Turno
  BY DEF Inductivo
<1>4. /\ Argumento(Recibo, 1) = UltimaPedida.id
      /\ UltimaPedida \in INSTRUCCIONES /\ Decode(UltimaPedida) = "DELETE_SEGMENT"
  BY <1>2, <1>3, LlegaAlKernel DEF Llamadas
<1>5. PICK id, d : id = UltimaPedida.id /\ d = Inactivo
  OBVIOUS
<1>6. id \in IDS
  BY <1>4, <1>5, Operandos
<1>7. PICK t : t = [tabla_segmentos[RUNNING] EXCEPT ![id] = d]
  OBVIOUS
<1>8. tabla_segmentos' = [tabla_segmentos EXCEPT ![RUNNING] = t]
  BY <1>1, <1>4, <1>5, <1>7
<1>9. t \in Tabla /\ \A s \in IDS : t[s].base + t[s].tam <= TAM_MEMORIA
  <2>1. /\ d.base \in Nat /\ d.tam \in Nat /\ d.base + d.tam <= TAM_MEMORIA
        /\ d = [base |-> d.base, tam |-> d.tam, activo |-> FALSE]
    BY <1>5, SupuestoCpu DEF Inactivo
  <2>2. PICK b \in Nat, n \in Nat, a \in BOOLEAN :
          b = d.base /\ n = d.tam /\ a = FALSE
    BY <2>1
  <2>3. t = [tabla_segmentos[RUNNING] EXCEPT ![id] =
               [base |-> b, tam |-> n, activo |-> a]]
    BY <1>7, <2>1, <2>2
  <2>4. b + n <= TAM_MEMORIA
    BY <2>1, <2>2
  <2> QED BY <1>2, <1>3, <1>6, <2>3, <2>4, CambiaSegmento
<1>10. /\ tabla_segmentos' \in [PROCESOS -> Tabla]
       /\ \A p \in PROCESOS, s \in IDS :
            tabla_segmentos'[p][s].base + tabla_segmentos'[p][s].tam <= TAM_MEMORIA
       /\ DireccionVigente'
  BY <1>1, <1>2, <1>8, <1>9, SinSuTabla
<1>11. hilo' \in [PROCESOS -> {SinHilo} \union Hilo] /\ terminados' \subseteq PROCESOS
  BY <1>1, <1>3 DEF Datos
<1>12. PICK cops : cops = {"DELETE_SEGMENT"}
  OBVIOUS
<1>13. {"DELETE_SEGMENT"} \subseteq Llamadas
  BY DEF Llamadas
<1> QED
  BY <1>1, <1>10, <1>11, <1>12, <1>13, PasoKernel

-----------------------------------------------------------------------------
(* F_READ and F_WRITE: the thread has the address of the instruction.      *)
LEMMA PasoArchivo == Inductivo /\ KernelArchivo => Inductivo'
<1> SUFFICES ASSUME Inductivo, KernelArchivo PROVE Inductivo'
  OBVIOUS
<1>1. PICK cops : cops = DeArchivo
  OBVIOUS
<1>2. /\ KernelRecibe(cops) /\ RUNNING' = NULO
      /\ UNCHANGED <<tabla_segmentos, terminados, ESPACIO_USUARIO>>
  BY <1>1 DEF KernelArchivo
<1>3. /\ RUNNING \in PROCESOS /\ RUNNING' # RUNNING
      /\ enlace # NULO /\ enlace.a = "kernel" /\ enlace.cop \in DeArchivo
  BY <1>1, <1>2, PasoGuardar, SupuestoCpu
<1>4. Datos /\ Turno /\ DireccionVigente
  BY DEF Inductivo
<1>5. DeArchivo \subseteq Llamadas
  BY DEF Llamadas
<1>6. /\ UltimaPedida \in INSTRUCCIONES /\ Decode(UltimaPedida) = enlace.cop
      /\ ~SinEntrada(UltimaPedida)
      /\ DeserializarPC(Recibo) = contexto.pc
      /\ Argumento(Recibo, 2) = MMU(tabla_segmentos[RUNNING],
                                    UltimaPedida.dir, UltimaPedida.cant)
      /\ Argumento(Recibo, 3) = UltimaPedida.cant
  BY <1>3, <1>4, <1>5, LlegaAlKernel
<1>7. /\ UltimaPedida.dir \in Nat /\ UltimaPedida.cant \in Nat
      /\ UltimaPedida.op = enlace.cop
  BY <1>3, <1>6, Operandos DEF DeArchivo
<1>8. PICK cop, dir, cant, logica :
        /\ cop = enlace.cop /\ cant = UltimaPedida.cant
        /\ logica = UltimaPedida.dir
        /\ dir = MMU(tabla_segmentos[RUNNING], UltimaPedida.dir, UltimaPedida.cant)
  OBVIOUS
<1>9. dir \in Int
  <2>1. SegmentoDe(UltimaPedida.dir) \in IDS
    BY <1>3, <1>6, <1>7 DEF SinEntrada
  <2>2. tabla_segmentos[RUNNING] \in Tabla
    BY <1>3, <1>4, ProgramaDe
  <2> QED BY <1>7, <1>8, <2>1, <2>2, DireccionDe
<1>10. PICK h : h = [fase |-> "nace", cop |-> cop, dir |-> dir, cant |-> cant,
                     vieja |-> FALSE, logica |-> logica]
  OBVIOUS
<1>11. hilo' = [hilo EXCEPT ![RUNNING] = h]
  <2>1. programa[RUNNING][DeserializarPC(Recibo)].dir = logica
    BY <1>6, <1>8 DEF UltimaPedida
  <2> QED BY <1>6, <1>8, <1>10, <2>1 DEF KernelArchivo
<1>12. h \in Hilo
  BY <1>3, <1>7, <1>8, <1>9, <1>10 DEF Hilo
<1>13. /\ hilo' \in [PROCESOS -> {SinHilo} \union Hilo]
       /\ hilo'[RUNNING] = h
       /\ \A p \in PROCESOS \ {RUNNING} : hilo'[p] = hilo[p]
  BY <1>3, <1>4, <1>11, <1>12 DEF Datos
<1>14. DireccionVigente'
  <2>1. ASSUME NEW p \in PROCESOS
        PROVE  LET g == hilo'[p]
               IN  g.fase = "no" \/ g.vieja
                   \/ g.dir = MMU(tabla_segmentos[p], g.logica, g.cant)
    <3>1. CASE p = RUNNING
      <4>1. h.dir = MMU(tabla_segmentos[RUNNING], h.logica, h.cant)
        BY <1>8, <1>10
      <4> QED BY <1>13, <3>1, <4>1
    <3>2. CASE p # RUNNING
      BY <1>4, <1>13, <3>2 DEF DireccionVigente
    <3> QED BY <3>1, <3>2
  <2> QED BY <1>2, <2>1 DEF DireccionVigente, MMU
<1>15. /\ tabla_segmentos' \in [PROCESOS -> Tabla]
       /\ \A p \in PROCESOS, s \in IDS :
            tabla_segmentos'[p][s].base + tabla_segmentos'[p][s].tam <= TAM_MEMORIA
       /\ terminados' \subseteq PROCESOS
  BY <1>2, <1>4 DEF Datos
<1> QED
  BY <1>1, <1>2, <1>3, <1>5, <1>13, <1>14, <1>15, PasoKernel

(* A step of a thread changes memory and the thread only.                  *)
LEMMA PasoDeHilo ==
  ASSUME Inductivo,
         UNCHANGED <<pcbs, RUNNING, terminados, enlace, contexto, cpu>>,
         ESPACIO_USUARIO' \in [0..(TAM_MEMORIA - 1) -> CELDAS],
         NEW p \in PROCESOS, hilo[p].fase # "no", NEW h \in {SinHilo} \union Hilo,
         hilo' = [hilo EXCEPT ![p] = h],
         h.fase = "no" \/ /\ h.dir = hilo[p].dir /\ h.vieja = hilo[p].vieja
                          /\ h.logica = hilo[p].logica /\ h.cant = hilo[p].cant
  PROVE  Inductivo'
<1>1. /\ programa' = programa /\ program_counter' = program_counter
      /\ registros_cpu' = registros_cpu /\ tabla_segmentos' = tabla_segmentos
      /\ RUNNING' = RUNNING /\ terminados' = terminados /\ enlace' = enlace
      /\ contexto' = contexto /\ cpu' = cpu
  BY DEF pcbs
<1>2. /\ hilo' \in [PROCESOS -> {SinHilo} \union Hilo] /\ hilo'[p] = h
      /\ \A q \in PROCESOS \ {p} : hilo'[q] = hilo[q]
  BY DEF Inductivo, Datos
<1>3. Datos'
  BY <1>1, <1>2 DEF Inductivo, Datos
<1>4. Vivos'
  <2>1. RUNNING # p
    BY DEF Inductivo, Vivos
  <2> QED BY <1>1, <1>2, <2>1 DEF Inductivo, Vivos
<1>5. Turno'
  BY <1>1 DEF Inductivo, Turno, MensajeACpu, MensajeAlKernel, UltimaPedida,
              HayInstruccion, Instruccion
<1>6. DireccionVigente'
  <2>1. ASSUME NEW q \in PROCESOS
        PROVE  LET g == hilo'[q]
               IN  g.fase = "no" \/ g.vieja
                   \/ g.dir = MMU(tabla_segmentos[q], g.logica, g.cant)
    <3>1. LET g == hilo[q]
          IN  g.fase = "no" \/ g.vieja
              \/ g.dir = MMU(tabla_segmentos[q], g.logica, g.cant)
      BY DEF Inductivo, DireccionVigente
    <3>2. CASE q = p
      BY <1>2, <3>1, <3>2
    <3>3. CASE q # p
      BY <1>2, <3>1, <3>3
    <3> QED BY <3>2, <3>3
  <2> QED BY <1>1, <2>1 DEF DireccionVigente, MMU
<1> QED
  BY <1>3, <1>4, <1>5, <1>6 DEF Inductivo

(* A thread locks mutex_compactacion.                                      *)
LEMMA PasoToma ==
  ASSUME Inductivo, NEW p \in PROCESOS, HiloToma(p)
  PROVE  Inductivo'
<1>1. /\ hilo[p].fase = "nace" /\ hilo' = [hilo EXCEPT ![p].fase = "toma"]
      /\ UNCHANGED <<pcbs, RUNNING, terminados, enlace, contexto, cpu>>
      /\ ESPACIO_USUARIO' = ESPACIO_USUARIO
  BY DEF HiloToma
<1>2. /\ hilo \in [PROCESOS -> {SinHilo} \union Hilo]
      /\ ESPACIO_USUARIO' \in [0..(TAM_MEMORIA - 1) -> CELDAS]
  BY <1>1 DEF Inductivo, Datos
<1>3. PICK g : g = hilo[p]
  OBVIOUS
<1>4. g \in Hilo
  BY <1>1, <1>2, <1>3 DEF SinHilo
<1>5. PICK h : h = [g EXCEPT !.fase = "toma"]
  OBVIOUS
<1>6. /\ h \in Hilo /\ h.dir = g.dir /\ h.vieja = g.vieja /\ h.logica = g.logica
      /\ h.cant = g.cant
  BY <1>4, <1>5 DEF Hilo
<1>7. hilo' = [hilo EXCEPT ![p] = h]
  BY <1>1, <1>3, <1>5
<1> QED
  BY <1>1, <1>2, <1>3, <1>6, <1>7, PasoDeHilo

(* A thread does its operation.                                            *)
LEMMA PasoOpera ==
  ASSUME Inductivo, NEW p \in PROCESOS, HiloOpera(p)
  PROVE  Inductivo'
<1>1. /\ hilo[p].fase = "toma" /\ hilo' = [hilo EXCEPT ![p] = SinHilo]
      /\ UNCHANGED <<pcbs, RUNNING, terminados, enlace, contexto, cpu>>
      /\ IF hilo[p].cop = "F_READ"
           THEN Escribir(hilo[p].dir, [i \in 1..hilo[p].cant |-> Dato])
           ELSE UNCHANGED ESPACIO_USUARIO
  BY DEF HiloOpera
<1>2. /\ hilo \in [PROCESOS -> {SinHilo} \union Hilo]
      /\ ESPACIO_USUARIO \in [0..(TAM_MEMORIA - 1) -> CELDAS]
  BY DEF Inductivo, Datos
<1>3. hilo[p].dir \in Int /\ hilo[p].cant \in Nat
  <2>1. hilo[p] \in Hilo
    BY <1>1, <1>2 DEF SinHilo
  <2> QED BY <2>1 DEF Hilo
<1>4. ESPACIO_USUARIO' \in [0..(TAM_MEMORIA - 1) -> CELDAS]
  <2>1. CASE hilo[p].cop = "F_READ"
    <3>1. PICK v : v = [i \in 1..hilo[p].cant |-> Dato]
      OBVIOUS
    <3>2. v \in [1..hilo[p].cant -> CELDAS]
      BY <3>1, SupuestoCpu
    <3>3. PICK dir, n : dir = hilo[p].dir /\ n = hilo[p].cant
      OBVIOUS
    <3>4. Escribir(dir, v)
      BY <1>1, <2>1, <3>1, <3>3
    <3> QED BY <1>2, <1>3, <3>2, <3>3, <3>4, Copias
  <2>2. CASE hilo[p].cop # "F_READ"
    BY <1>1, <1>2, <2>2
  <2> QED BY <2>1, <2>2
<1>5. PICK h : h = SinHilo
  OBVIOUS
<1>6. h \in {SinHilo} \union Hilo /\ h.fase = "no" /\ hilo' = [hilo EXCEPT ![p] = h]
  BY <1>1, <1>5 DEF SinHilo
<1> QED
  BY <1>1, <1>4, <1>6, PasoDeHilo

(* Nothing that the invariant speaks of changes.                           *)
LEMMA PasoQuieto ==
  ASSUME Inductivo, UNCHANGED <<pcbs, RUNNING, terminados, hilo>>,
         contexto' = contexto, cpu' = cpu, enlace' = enlace,
         ESPACIO_USUARIO' = ESPACIO_USUARIO
  PROVE  Inductivo'
<1>1. /\ contexto' \in Contextos /\ contexto'.pc <= Len(contexto'.instrucciones)
      /\ cpu' \in {"espera", "ejecuta", "caida"}
      /\ ESPACIO_USUARIO' \in [0..(TAM_MEMORIA - 1) -> CELDAS]
  BY DEF Inductivo, Datos
<1>2. Turno'
  BY DEF pcbs, Inductivo, Turno, MensajeACpu, MensajeAlKernel, UltimaPedida,
         HayInstruccion, Instruccion
<1> QED
  BY <1>1, <1>2, PasoDeCpu

(* Memoria falls, and the thread waits for ever.                           *)
LEMMA PasoCaeMemoria ==
  ASSUME Inductivo, NEW p \in PROCESOS, MemoriaCae(p)
  PROVE  Inductivo'
<1>1. /\ UNCHANGED <<pcbs, RUNNING, terminados, hilo>>
      /\ contexto' = contexto /\ cpu' = cpu /\ enlace' = enlace
      /\ ESPACIO_USUARIO' = ESPACIO_USUARIO
  BY DEF MemoriaCae
<1> QED
  BY <1>1, PasoQuieto

-----------------------------------------------------------------------------
(* A segment only moves down.                                              *)
LEMMA SoloBaja ==
  ASSUME Datos, NEW p \in PROCESOS, NEW s \in IDS
  PROVE  LET d == tabla_segmentos[p][s]
         IN  NuevaBase(d) \in Nat /\ NuevaBase(d) <= d.base
<1>1. /\ \A q \in PROCESOS, i \in IDS :
           tabla_segmentos[q][i].base \in Nat /\ tabla_segmentos[q][i].tam \in Nat
  BY DEF Datos, Tabla
<1>2. PICK b : b = tabla_segmentos[p][s].base
  OBVIOUS
<1>3. b \in Nat
  BY <1>1, <1>2
<1>4. Ocupadas \subseteq Nat
  <2>1. 0..(TAM_SEGMENTO_0 - 1) \subseteq Nat
    BY SupuestoCpu
  <2>2. ASSUME NEW a \in Activos PROVE CeldasDe(a) \subseteq Nat
    <3>1. PICK q \in PROCESOS, i \in IDS : a = <<q, i>>
      BY DEF Activos
    <3>2. tabla_segmentos[a[1]][a[2]].base \in Nat
      BY <1>1, <3>1
    <3> QED BY <3>2 DEF CeldasDe, Celdas
  <2> QED BY <2>1, <2>2 DEF Ocupadas
<1>5. PICK S : S = {c \in Ocupadas : c < b}
  OBVIOUS
<1>6. S \in SUBSET (0..(b - 1))
  <2>1. ASSUME NEW c \in S PROVE c \in 0..(b - 1)
    <3>1. c \in Nat /\ c < b
      BY <1>4, <1>5
    <3> QED BY <1>3, <3>1
  <2> QED BY <2>1
<1>7. IsFiniteSet(0..(b - 1)) /\ Cardinality(0..(b - 1)) = b
  <2>1. b - 1 \in Int /\ 0 \in Int /\ (IF 0 > b - 1 THEN 0 ELSE (b - 1) - 0 + 1) = b
    BY <1>3
  <2> QED BY <2>1, FS_Interval
<1>8. IsFiniteSet(S) /\ Cardinality(S) <= b
  BY <1>6, <1>7, FS_Subset
<1>9. Cardinality(S) \in Nat
  BY <1>8, FS_CardinalityType
<1>10. NuevaBase(tabla_segmentos[p][s]) = Cardinality(S)
  BY <1>2, <1>5 DEF NuevaBase
<1> QED
  BY <1>2, <1>8, <1>9, <1>10

(* What goes to a cell of the new place comes from one of the old.         *)
LEMMA OrigenDentro ==
  ASSUME NEW d, d.base \in Nat, d.tam \in Nat, d.base + d.tam <= TAM_MEMORIA,
         NuevaBase(d) \in Nat, NuevaBase(d) <= d.base,
         NEW c \in NuevaBase(d)..(NuevaBase(d) + d.tam - 1),
         NEW alReves \in BOOLEAN
  PROVE  Origen(d, c, alReves) \in 0..(TAM_MEMORIA - 1)
<1> DEFINE base == d.base
           tam == d.tam
           b == NuevaBase(d)
           baja == base - b
           ultima == base + tam - 1
<1>1. /\ Origen(d, c, alReves) =
           IF alReves /\ baja > 0 THEN ultima - ((ultima - c) % baja) ELSE c + baja
      /\ base \in Nat /\ tam \in Nat /\ b \in Nat /\ b <= base
      /\ base + tam <= TAM_MEMORIA /\ TAM_MEMORIA \in Nat
      /\ c \in b..(b + tam - 1)
  BY SupuestoCpu DEF Origen
<1> HIDE DEF base, tam, b
<1>2. /\ baja \in Nat /\ ultima \in Int /\ ultima <= TAM_MEMORIA - 1
      /\ c \in Nat /\ c + baja <= ultima
  BY <1>1
<1> HIDE DEF baja, ultima
<1>3. CASE alReves /\ baja > 0
  <2>1. Origen(d, c, alReves) = ultima - ((ultima - c) % baja)
    BY <1>1, <1>3
  <2>2. PICK x \in Nat : x = ultima - c /\ x >= baja
    BY <1>2
  <2>3. PICK y : y = x % baja
    OBVIOUS
  <2>4. y \in 0..(baja - 1)
    BY <1>2, <1>3, <2>3
  <2>5. Origen(d, c, alReves) = ultima - y
    BY <2>1, <2>2, <2>3
  <2>6. ultima - y \in 0..(TAM_MEMORIA - 1)
    BY <1>1, <1>2, <2>2, <2>4
  <2> QED BY <2>5, <2>6
<1>4. CASE ~(alReves /\ baja > 0)
  <2>1. Origen(d, c, alReves) = c + baja
    BY <1>1, <1>4
  <2> QED BY <1>1, <1>2, <2>1
<1> QED
  BY <1>3, <1>4

(* The compaction keeps the types: what a cell gets comes from a cell of   *)
(* memory, and a segment that moves is still inside memory.                *)
LEMMA PasoCompactar == Inductivo /\ Compactar => Inductivo'
<1> SUFFICES ASSUME Inductivo, Compactar PROVE Inductivo'
  OBVIOUS
<1>1. /\ enlace # NULO /\ enlace.a = "kernel" /\ enlace.cop = "CREATE_SEGMENT"
      /\ NadieOpera
      /\ tabla_segmentos' = [p \in PROCESOS |-> [s \in IDS |->
           LET d == tabla_segmentos[p][s]
           IN  IF <<p, s>> \in Activos THEN [d EXCEPT !.base = NuevaBase(d)] ELSE d]]
      /\ hilo' = [p \in PROCESOS |->
           IF hilo[p].fase = "nace" THEN [hilo[p] EXCEPT !.vieja = TRUE] ELSE hilo[p]]
      /\ UNCHANGED <<programa, program_counter, registros_cpu, RUNNING, terminados,
                     enlace, contexto, cpu>>
  BY DEF Compactar
<1>2. Datos /\ Turno /\ Vivos /\ DireccionVigente
  BY DEF Inductivo
<1>3. ASSUME NEW p \in PROCESOS, NEW s \in IDS
      PROVE  /\ tabla_segmentos'[p][s] \in [base : Nat, tam : Nat, activo : BOOLEAN]
             /\ tabla_segmentos'[p][s].base + tabla_segmentos'[p][s].tam <= TAM_MEMORIA
  <2>1. PICK d : d = tabla_segmentos[p][s]
    OBVIOUS
  <2>2. d \in [base : Nat, tam : Nat, activo : BOOLEAN] /\ d.base + d.tam <= TAM_MEMORIA
    BY <1>2, <2>1 DEF Datos, Tabla
  <2>3. PICK b : b = NuevaBase(d)
    OBVIOUS
  <2>4. b \in Nat /\ b <= d.base
    BY <1>2, <2>1, <2>3, SoloBaja
  <2>5. tabla_segmentos'[p][s] = d \/ tabla_segmentos'[p][s] = [d EXCEPT !.base = b]
    BY <1>1, <2>1, <2>3
  <2>6. PICK e : e = [d EXCEPT !.base = b]
    OBVIOUS
  <2>7. /\ e \in [base : Nat, tam : Nat, activo : BOOLEAN]
        /\ e.base = b /\ e.tam = d.tam
    BY <2>2, <2>4, <2>6
  <2>8. e.base + e.tam <= TAM_MEMORIA
    BY <2>2, <2>4, <2>7, SupuestoCpu
  <2> QED BY <2>2, <2>5, <2>6, <2>7, <2>8
<1>4. tabla_segmentos' \in [PROCESOS -> Tabla]
  BY <1>1, <1>3 DEF Tabla
<1>5. ESPACIO_USUARIO' \in [0..(TAM_MEMORIA - 1) -> CELDAS]
  <2>1. ESPACIO_USUARIO \in [0..(TAM_MEMORIA - 1) -> CELDAS]
    BY <1>2 DEF Datos
  <2>0. PICK alReves \in BOOLEAN : ESPACIO_USUARIO' = Movidas(alReves)
    BY DEF Compactar
  <2> DEFINE movidos(c) == {a \in Activos :
                              LET d == tabla_segmentos[a[1]][a[2]]
                              IN  c \in NuevaBase(d)..(NuevaBase(d) + d.tam - 1)}
             elegido(c) == CHOOSE a \in movidos(c) : TRUE
             valor(c) ==
               IF movidos(c) = {} THEN ESPACIO_USUARIO[c]
               ELSE ESPACIO_USUARIO[
                      Origen(tabla_segmentos[elegido(c)[1]][elegido(c)[2]],
                             c, alReves)]
  <2>2. ESPACIO_USUARIO' = [c \in DOMAIN ESPACIO_USUARIO |-> valor(c)]
    BY <2>0 DEF Movidas
  <2>3. ASSUME NEW c \in 0..(TAM_MEMORIA - 1) PROVE valor(c) \in CELDAS
    <3>1. CASE movidos(c) = {}
      BY <2>1, <3>1
    <3>2. CASE movidos(c) # {}
      <4>1. elegido(c) \in movidos(c)
        BY <3>2
      <4>2. PICK a : a = elegido(c)
        OBVIOUS
      <4>3. PICK d : d = tabla_segmentos[a[1]][a[2]]
        OBVIOUS
      <4>4. a \in Activos /\ c \in NuevaBase(d)..(NuevaBase(d) + d.tam - 1)
        BY <4>1, <4>2, <4>3
      <4>5. a[1] \in PROCESOS /\ a[2] \in IDS
        BY <4>4 DEF Activos
      <4>6. /\ d.base \in Nat /\ d.tam \in Nat /\ d.base + d.tam <= TAM_MEMORIA
        BY <1>2, <4>3, <4>5 DEF Datos, Tabla
      <4>7. NuevaBase(d) \in Nat /\ NuevaBase(d) <= d.base
        BY <1>2, <4>3, <4>5, SoloBaja
      <4>8. Origen(d, c, alReves) \in 0..(TAM_MEMORIA - 1)
        <5>1. PICK b : b = NuevaBase(d)
          OBVIOUS
        <5> QED BY <4>4, <4>6, <4>7, <5>1, OrigenDentro
      <4>9. valor(c) = ESPACIO_USUARIO[Origen(d, c, alReves)]
        BY <3>2, <4>2, <4>3
      <4> QED BY <2>1, <4>8, <4>9
    <3> QED BY <3>1, <3>2
  <2> HIDE DEF valor
  <2> QED BY <2>1, <2>2, <2>3
<1>6. ASSUME NEW p \in PROCESOS
      PROVE  /\ hilo'[p] \in {SinHilo} \union Hilo
             /\ hilo'[p].fase = hilo[p].fase
             /\ hilo[p].fase # "no" => hilo'[p].vieja
  <2>1. hilo[p] \in {SinHilo} \union Hilo /\ hilo[p].fase # "toma"
    BY <1>1, <1>2 DEF Datos, NadieOpera
  <2>2. CASE hilo[p].fase = "nace"
    <3>1. PICK g : g = hilo[p]
      OBVIOUS
    <3>2. g \in Hilo
      BY <2>1, <2>2, <3>1 DEF SinHilo
    <3>3. hilo'[p] = [g EXCEPT !.vieja = TRUE]
      BY <1>1, <2>2, <3>1
    <3> QED BY <3>1, <3>2, <3>3 DEF Hilo
  <2>3. CASE hilo[p].fase # "nace"
    <3>1. hilo'[p] = hilo[p]
      BY <1>1, <2>3
    <3>2. hilo[p].fase = "no"
      BY <2>1, <2>3 DEF Hilo, SinHilo
    <3> QED BY <2>1, <3>1, <3>2
  <2> QED BY <2>2, <2>3
<1>7. hilo' \in [PROCESOS -> {SinHilo} \union Hilo]
  BY <1>1, <1>6
<1>8. Datos'
  BY <1>1, <1>2, <1>3, <1>4, <1>5, <1>7 DEF Datos
<1>9. Vivos'
  BY <1>1, <1>2, <1>6 DEF Vivos
<1>10. DireccionVigente'
  BY <1>6 DEF DireccionVigente
<1>11. Turno'
  <2>1. /\ cpu = "espera" /\ RUNNING \in PROCESOS /\ (MensajeACpu \/ MensajeAlKernel)
    BY <1>1, <1>2 DEF Turno, Datos
  <2>2. MensajeAlKernel
    BY <1>1, <2>1 DEF MensajeACpu
  <2>3. \A i : ArgumentosDe("CREATE_SEGMENT", i, tabla_segmentos[RUNNING]) =
               ArgumentosDe("CREATE_SEGMENT", i, tabla_segmentos'[RUNNING])
    BY ArgumentosSon
  <2>4. MensajeAlKernel'
    <3>1. PICK cop \in Llamadas \union {"EXIT", "SEG_FAULT"} :
            /\ enlace = [a |-> "kernel", cop |-> cop,
                 m |-> SerializarContexto(contexto.registros, contexto.pc,
                         ArgumentosDe(cop, UltimaPedida, tabla_segmentos[RUNNING]))]
            /\ contexto.pc \in 1..Len(programa[RUNNING])
            /\ cop \in Llamadas => /\ Decode(UltimaPedida) = cop
                                   /\ ~SinEntrada(UltimaPedida)
      BY <2>2 DEF MensajeAlKernel
    <3>2. cop = "CREATE_SEGMENT"
      BY <1>1, <3>1
    <3>3. ArgumentosDe(cop, UltimaPedida, tabla_segmentos[RUNNING]) =
            ArgumentosDe(cop, UltimaPedida, tabla_segmentos'[RUNNING])
      BY <2>3, <3>2
    <3>4. UltimaPedida' = UltimaPedida
      BY <1>1 DEF UltimaPedida
    <3> QED BY <1>1, <3>1, <3>3, <3>4 DEF MensajeAlKernel
  <2> QED BY <1>1, <2>1, <2>4 DEF Turno
<1> QED
  BY <1>8, <1>9, <1>10, <1>11 DEF Inductivo

-----------------------------------------------------------------------------
(* Every step keeps the invariant.                                         *)
LEMMA PasoInductivo == Inductivo /\ [Next]_vars => Inductivo'
<1> SUFFICES ASSUME Inductivo, [Next]_vars PROVE Inductivo'
  OBVIOUS
<1>1. ASSUME NEW p \in PROCESOS,
             MandarACpu(p) \/ HiloToma(p) \/ HiloOpera(p) \/ MemoriaCae(p)
      PROVE  Inductivo'
  BY <1>1, PasoMandar, PasoToma, PasoOpera, PasoCaeMemoria
<1>2. CASE CpuRecibe
  BY <1>2, PasoRecibe
<1>3. CASE CpuSet \/ CpuMovIn \/ CpuMovOut \/ CpuLlamada \/ CpuCae
  BY <1>3, PasoSet, PasoMovIn, PasoMovOut, PasoLlamada, PasoCae
<1>4. CASE KernelYield \/ KernelTermina \/ KernelCrea \/ KernelSinMemoria
  BY <1>4, PasoYield, PasoTermina, PasoCrea, PasoSinMemoria
<1>5. CASE KernelBorra \/ KernelArchivo \/ Compactar
  BY <1>5, PasoBorra, PasoArchivo, PasoCompactar
<1>6. CASE UNCHANGED vars
  BY <1>6, PasoQuieto DEF vars
<1> QED
  BY <1>1, <1>2, <1>3, <1>4, <1>5, <1>6 DEF Next

(* src/kernel/src/comunicacion.c, src/cpu/src: the context the CPU has and *)
(* the call the kernel reads are always those of the process in RUNNING,   *)
(* slot by slot, whatever widths the registers have.                       *)
THEOREM InvarianteCpu == Spec => []Inductivo
<1> QED
  BY InicioInductivo, PasoInductivo, PTL DEF Spec

-----------------------------------------------------------------------------
(* The transfer of p goes past the end of its segment, whatever the base.  *)
NoCabe(p) ==
  Desplazamiento(hilo[p].logica) + hilo[p].cant
    > tabla_segmentos[p][SegmentoDe(hilo[p].logica)].tam

(* A transfer is inside memory unless the mmu said no, and memoria falls   *)
(* only for one of those.                                                  *)
DeMemoria ==
  /\ memoria \in {"atiende", "caida"}
  /\ \A p \in PROCESOS : hilo[p].fase # "no" =>
       /\ SegmentoDe(hilo[p].logica) \in IDS
       /\ NoCabe(p) \/ DentroDeMemoria(p)
  /\ memoria = "caida" =>
       \E p \in PROCESOS : hilo[p].fase = "toma" /\ NoCabe(p)

(* A base is not negative, so the mmu says no only for the size.           *)
LEMMA NoCabeEs ==
  ASSUME Datos, NEW p \in PROCESOS, hilo[p].fase # "no",
         SegmentoDe(hilo[p].logica) \in IDS
  PROVE  MMU(tabla_segmentos[p], hilo[p].logica, hilo[p].cant) = FUERA <=> NoCabe(p)
<1>1. hilo[p] \in Hilo
  BY DEF Datos, SinHilo
<1>2. PICK dir, n : dir = hilo[p].logica /\ n = hilo[p].cant
  OBVIOUS
<1>3. dir \in Nat /\ n \in Nat
  BY <1>1, <1>2 DEF Hilo
<1>4. PICK s : s = tabla_segmentos[p][SegmentoDe(dir)]
  OBVIOUS
<1>5. s.base \in Nat /\ s.tam \in Nat
  BY <1>2, <1>4 DEF Datos, Tabla
<1>6. PICK x : x = Desplazamiento(dir)
  OBVIOUS
<1>7. x \in Nat
  BY <1>3, <1>6, SupuestoInstrucciones DEF Desplazamiento
<1>8. MMU(tabla_segmentos[p], dir, n) = IF x + n > s.tam THEN -1 ELSE s.base + x
  BY <1>4, <1>6 DEF MMU, FUERA
<1>9. NoCabe(p) <=> x + n > s.tam
  BY <1>2, <1>4, <1>6 DEF NoCabe
<1> QED
  BY <1>2, <1>3, <1>5, <1>7, <1>8, <1>9 DEF FUERA

(* The transfers that go on are the same, of segments of the same size.    *)
LEMMA PasoTransferencias ==
  ASSUME DeMemoria, UNCHANGED memoria,
         \A p \in PROCESOS : hilo'[p].fase # "no" =>
           /\ hilo[p].fase # "no"
           /\ hilo'[p].logica = hilo[p].logica /\ hilo'[p].cant = hilo[p].cant
           /\ hilo'[p].dir = hilo[p].dir
           /\ \A s \in IDS : tabla_segmentos'[p][s].tam = tabla_segmentos[p][s].tam,
         memoria = "caida" => \A p \in PROCESOS :
           hilo[p].fase = "toma" => hilo'[p].fase = "toma"
  PROVE  DeMemoria'
<1>1. ASSUME NEW p \in PROCESOS, hilo'[p].fase # "no"
      PROVE  /\ SegmentoDe(hilo'[p].logica) \in IDS
             /\ NoCabe(p)' <=> NoCabe(p)
             /\ DentroDeMemoria(p)' <=> DentroDeMemoria(p)
             /\ NoCabe(p) \/ DentroDeMemoria(p)
  <2>1. SegmentoDe(hilo[p].logica) \in IDS /\ (NoCabe(p) \/ DentroDeMemoria(p))
    BY <1>1 DEF DeMemoria
  <2>2. NoCabe(p)' <=> NoCabe(p)
    BY <1>1, <2>1 DEF NoCabe, SegmentoDe, Desplazamiento
  <2>3. DentroDeMemoria(p)' <=> DentroDeMemoria(p)
    BY <1>1 DEF DentroDeMemoria
  <2> QED BY <1>1, <2>1, <2>2, <2>3
<1>2. ASSUME memoria = "caida"
      PROVE  \E p \in PROCESOS : hilo'[p].fase = "toma" /\ NoCabe(p)'
  <2>1. PICK p \in PROCESOS : hilo[p].fase = "toma" /\ NoCabe(p)
    BY <1>2 DEF DeMemoria
  <2>2. hilo'[p].fase = "toma"
    BY <1>2, <2>1
  <2> QED BY <1>1, <2>1, <2>2
<1>3. ASSUME NEW p \in PROCESOS, hilo'[p].fase # "no"
      PROVE  /\ SegmentoDe(hilo'[p].logica) \in IDS
             /\ NoCabe(p)' \/ DentroDeMemoria(p)'
  BY <1>1, <1>3
<1> QED
  BY <1>2, <1>3 DEF DeMemoria, SegmentoDe

(* F_READ and F_WRITE: the thread that is born has what the mmu said.      *)
LEMMA PasoNace ==
  ASSUME Inductivo, Inductivo', DeMemoria, KernelArchivo
  PROVE  DeMemoria'
<1>1. PICK cops : cops = DeArchivo
  OBVIOUS
<1>2. /\ KernelRecibe(cops) /\ UNCHANGED <<tabla_segmentos, memoria>>
      /\ hilo' = [hilo EXCEPT ![RUNNING] =
           [fase |-> "nace", cop |-> enlace.cop, dir |-> Argumento(Recibo, 2),
            cant |-> Argumento(Recibo, 3), vieja |-> FALSE,
            logica |-> programa[RUNNING][DeserializarPC(Recibo)].dir]]
  BY <1>1 DEF KernelArchivo, KernelRecibe
<1>3. /\ RUNNING \in PROCESOS /\ hilo[RUNNING].fase = "no"
      /\ enlace # NULO /\ enlace.a = "kernel" /\ enlace.cop \in DeArchivo
  BY <1>1, <1>2, PasoGuardar
<1>4. Datos /\ Turno /\ DeArchivo \subseteq Llamadas
  BY DEF Inductivo, Llamadas
<1>5. /\ UltimaPedida \in INSTRUCCIONES /\ Decode(UltimaPedida) = enlace.cop
      /\ ~SinEntrada(UltimaPedida) /\ DeserializarPC(Recibo) = contexto.pc
  BY <1>3, <1>4, LlegaAlKernel
<1>6. UltimaPedida.op = enlace.cop
  BY <1>3, <1>5, Operandos DEF DeArchivo
<1>7. SegmentoDe(UltimaPedida.dir) \in IDS
  BY <1>3, <1>5, <1>6 DEF SinEntrada
<1>8. PICK h : h = hilo'[RUNNING]
  OBVIOUS
<1>9. /\ h.fase = "nace" /\ h.vieja = FALSE /\ h.logica = UltimaPedida.dir
      /\ \A p \in PROCESOS \ {RUNNING} : hilo'[p] = hilo[p]
  BY <1>2, <1>3, <1>4, <1>5, <1>8 DEF Datos, UltimaPedida
<1>10. h \in Hilo
  BY <1>3, <1>8, <1>9 DEF Inductivo, Datos, SinHilo
<1>11. h.dir = MMU(tabla_segmentos[RUNNING], h.logica, h.cant)
  <2>1. DireccionVigente'
    BY DEF Inductivo
  <2>2. \/ hilo'[RUNNING].fase = "no" \/ hilo'[RUNNING].vieja
        \/ hilo'[RUNNING].dir = MMU(tabla_segmentos'[RUNNING],
                                    hilo'[RUNNING].logica, hilo'[RUNNING].cant)
    BY <1>3, <2>1 DEF DireccionVigente, MMU
  <2> QED BY <1>2, <1>8, <1>9, <2>2
<1>12. PICK s : s = tabla_segmentos[RUNNING][SegmentoDe(h.logica)]
  OBVIOUS
<1>13. /\ SegmentoDe(h.logica) \in IDS /\ h.logica \in Nat /\ h.cant \in Nat
       /\ s.base \in Nat /\ s.tam \in Nat /\ s.base + s.tam <= TAM_MEMORIA
  BY <1>3, <1>4, <1>7, <1>9, <1>10, <1>12 DEF Hilo, Datos, Tabla
<1>14. PICK x : x = Desplazamiento(h.logica)
  OBVIOUS
<1>15. x \in Nat
  BY <1>13, <1>14, SupuestoInstrucciones DEF Desplazamiento
<1>16. h.dir = IF x + h.cant > s.tam THEN -1 ELSE s.base + x
  BY <1>11, <1>12, <1>14 DEF MMU, FUERA
<1>17. PICK q \in PROCESOS : q = RUNNING
  BY <1>3
<1>18. hilo'[q] = h /\ tabla_segmentos' = tabla_segmentos /\ hilo[q].fase = "no"
  BY <1>2, <1>3, <1>8, <1>17
<1>19. NoCabe(q)' <=> x + h.cant > s.tam
  BY <1>12, <1>14, <1>17, <1>18 DEF NoCabe, Desplazamiento, SegmentoDe
<1>20. DentroDeMemoria(q)' <=> (h.dir >= 0 /\ h.dir + h.cant <= TAM_MEMORIA)
  BY <1>18 DEF DentroDeMemoria
<1>21. NoCabe(q)' \/ DentroDeMemoria(q)'
  BY <1>13, <1>15, <1>16, <1>19, <1>20, SupuestoCpu
<1>22. ASSUME NEW p \in PROCESOS, p # q
       PROVE  /\ hilo'[p] = hilo[p] /\ (NoCabe(p)' <=> NoCabe(p))
              /\ (DentroDeMemoria(p)' <=> DentroDeMemoria(p))
  <2>1. hilo'[p] = hilo[p]
    BY <1>9, <1>17, <1>22
  <2> QED BY <1>18, <2>1 DEF NoCabe, DentroDeMemoria, Desplazamiento, SegmentoDe
<1>23. ASSUME NEW p \in PROCESOS, hilo'[p].fase # "no"
       PROVE  /\ SegmentoDe(hilo'[p].logica) \in IDS
              /\ NoCabe(p)' \/ DentroDeMemoria(p)'
  <2>1. CASE p = q
    BY <1>13, <1>18, <1>21, <2>1
  <2>2. CASE p # q
    BY <1>22, <1>23, <2>2 DEF DeMemoria
  <2> QED BY <2>1, <2>2
<1>24. ASSUME memoria = "caida"
       PROVE  \E p \in PROCESOS : hilo'[p].fase = "toma" /\ NoCabe(p)'
  <2>1. PICK p \in PROCESOS : hilo[p].fase = "toma" /\ NoCabe(p)
    BY <1>24 DEF DeMemoria
  <2>2. p # q
    BY <1>18, <2>1
  <2> QED BY <1>22, <2>1, <2>2
<1>25. memoria' = memoria
  BY <1>2
<1> QED
  BY <1>23, <1>24, <1>25 DEF DeMemoria, SegmentoDe

(* Where only the table of the process in RUNNING changes.                 *)
LEMMA PasoSinHilos ==
  ASSUME DeMemoria, UNCHANGED <<hilo, memoria>>,
         \A p \in PROCESOS : hilo[p].fase # "no" =>
           tabla_segmentos'[p] = tabla_segmentos[p]
  PROVE  DeMemoria'
<1>1. \A p \in PROCESOS : hilo'[p].fase # "no" =>
        /\ hilo[p].fase # "no"
        /\ hilo'[p].logica = hilo[p].logica /\ hilo'[p].cant = hilo[p].cant
        /\ hilo'[p].dir = hilo[p].dir
        /\ \A s \in IDS : tabla_segmentos'[p][s].tam = tabla_segmentos[p][s].tam
  OBVIOUS
<1> QED
  BY <1>1, PasoTransferencias

(* Every step keeps it.                                                    *)
LEMMA PasoDeMemoria ==
  ASSUME Inductivo, Inductivo', DeMemoria, [Next]_vars
  PROVE  DeMemoria'
<1>1. CASE CpuRecibe \/ CpuSet \/ CpuMovIn \/ CpuMovOut \/ CpuLlamada \/ CpuCae
  <2>1. UNCHANGED <<hilo, memoria, tabla_segmentos>>
    BY <1>1 DEF CpuRecibe, CpuSet, CpuMovIn, CpuMovOut, CpuLlamada, CpuCae, Ejecuta, pcbs
  <2> QED BY <2>1, PasoSinHilos
<1>2. CASE UNCHANGED vars
  BY <1>2, PasoSinHilos DEF vars, pcbs
<1>3. ASSUME NEW p \in PROCESOS, MandarACpu(p) PROVE DeMemoria'
  BY <1>3, PasoSinHilos DEF MandarACpu, pcbs
<1>4. ASSUME NEW cops, KernelRecibe(cops), UNCHANGED <<hilo, memoria>>,
             NEW t, tabla_segmentos' = [tabla_segmentos EXCEPT ![RUNNING] = t]
      PROVE  DeMemoria'
  <2>1. RUNNING \in PROCESOS /\ hilo[RUNNING].fase = "no"
    BY <1>4, PasoGuardar
  <2>2. \A p \in PROCESOS : hilo[p].fase # "no" =>
          tabla_segmentos'[p] = tabla_segmentos[p]
    BY <1>4, <2>1 DEF Inductivo, Datos
  <2> QED BY <1>4, <2>2, PasoSinHilos
<1>5. CASE KernelYield
  BY <1>5, PasoSinHilos DEF KernelYield, KernelRecibe
<1>6. ASSUME NEW cops, Terminar(cops) PROVE DeMemoria'
  <2>1. PICK t : t = TablaInicial
    OBVIOUS
  <2>2. /\ KernelRecibe(cops) /\ UNCHANGED <<hilo, memoria>>
        /\ tabla_segmentos' = [tabla_segmentos EXCEPT ![RUNNING] = t]
    BY <1>6, <2>1 DEF Terminar, KernelRecibe
  <2> QED BY <1>4, <2>2
<1>7. CASE KernelTermina \/ KernelSinMemoria
  BY <1>6, <1>7 DEF KernelTermina, KernelSinMemoria
<1>8. CASE KernelCrea
  <2>1. KernelRecibe({"CREATE_SEGMENT"}) /\ UNCHANGED <<hilo, memoria>>
    BY <1>8 DEF KernelCrea, KernelRecibe
  <2>2. PICK id, d : tabla_segmentos' = [tabla_segmentos EXCEPT ![RUNNING][id] = d]
    BY <1>8 DEF KernelCrea
  <2>3. PICK t : t = [tabla_segmentos[RUNNING] EXCEPT ![id] = d]
    OBVIOUS
  <2>4. tabla_segmentos' = [tabla_segmentos EXCEPT ![RUNNING] = t]
    BY <2>2, <2>3
  <2>5. PICK cops : cops = {"CREATE_SEGMENT"}
    OBVIOUS
  <2> QED BY <1>4, <2>1, <2>4, <2>5
<1>9. CASE KernelBorra
  <2>1. KernelRecibe({"DELETE_SEGMENT"}) /\ UNCHANGED <<hilo, memoria>>
    BY <1>9 DEF KernelBorra, KernelRecibe
  <2>2. PICK id, d : tabla_segmentos' = [tabla_segmentos EXCEPT ![RUNNING][id] = d]
    BY <1>9 DEF KernelBorra
  <2>3. PICK t : t = [tabla_segmentos[RUNNING] EXCEPT ![id] = d]
    OBVIOUS
  <2>4. tabla_segmentos' = [tabla_segmentos EXCEPT ![RUNNING] = t]
    BY <2>2, <2>3
  <2>5. PICK cops : cops = {"DELETE_SEGMENT"}
    OBVIOUS
  <2> QED BY <1>4, <2>1, <2>4, <2>5
<1>10. CASE KernelArchivo
  BY <1>10, PasoNace
<1>11. \A p \in PROCESOS : hilo[p] \in {SinHilo} \union Hilo
  BY DEF Inductivo, Datos
<1>12. ASSUME NEW p \in PROCESOS, HiloToma(p) PROVE DeMemoria'
  <2>1. /\ hilo[p].fase = "nace" /\ hilo' = [hilo EXCEPT ![p].fase = "toma"]
        /\ UNCHANGED <<memoria, tabla_segmentos>>
    BY <1>12 DEF HiloToma, pcbs
  <2>2. hilo[p] \in Hilo
    BY <1>11, <2>1 DEF SinHilo
  <2>3. /\ hilo'[p].fase = "toma" /\ hilo'[p].logica = hilo[p].logica
        /\ hilo'[p].cant = hilo[p].cant /\ hilo'[p].dir = hilo[p].dir
        /\ \A q \in PROCESOS \ {p} : hilo'[q] = hilo[q]
    BY <2>1, <2>2 DEF Hilo, Inductivo, Datos
  <2>4. \A q \in PROCESOS : hilo'[q].fase # "no" =>
          /\ hilo[q].fase # "no"
          /\ hilo'[q].logica = hilo[q].logica /\ hilo'[q].cant = hilo[q].cant
          /\ hilo'[q].dir = hilo[q].dir
          /\ \A s \in IDS : tabla_segmentos'[q][s].tam = tabla_segmentos[q][s].tam
    BY <2>1, <2>3
  <2>5. \A q \in PROCESOS : hilo[q].fase = "toma" => hilo'[q].fase = "toma"
    BY <2>3
  <2> QED BY <2>1, <2>4, <2>5, PasoTransferencias
<1>13. ASSUME NEW p \in PROCESOS, HiloOpera(p) PROVE DeMemoria'
  <2>1. /\ hilo' = [hilo EXCEPT ![p] = SinHilo] /\ memoria = "atiende"
        /\ UNCHANGED <<memoria, tabla_segmentos>>
    BY <1>13 DEF HiloOpera, Atiende, pcbs
  <2>2. hilo'[p].fase = "no" /\ \A q \in PROCESOS \ {p} : hilo'[q] = hilo[q]
    BY <2>1 DEF Inductivo, Datos, SinHilo
  <2>3. \A q \in PROCESOS : hilo'[q].fase # "no" =>
          /\ hilo[q].fase # "no"
          /\ hilo'[q].logica = hilo[q].logica /\ hilo'[q].cant = hilo[q].cant
          /\ hilo'[q].dir = hilo[q].dir
          /\ \A s \in IDS : tabla_segmentos'[q][s].tam = tabla_segmentos[q][s].tam
    BY <2>1, <2>2
  <2> QED BY <2>1, <2>3, PasoTransferencias
<1>14. ASSUME NEW p \in PROCESOS, MemoriaCae(p) PROVE DeMemoria'
  <2>1. /\ hilo[p].fase = "toma" /\ ~DentroDeMemoria(p) /\ memoria' = "caida"
        /\ UNCHANGED <<hilo, tabla_segmentos>>
    BY <1>14 DEF MemoriaCae, pcbs
  <2>2. NoCabe(p)
    BY <2>1 DEF DeMemoria
  <2>3. ASSUME NEW q \in PROCESOS
        PROVE  /\ NoCabe(q)' <=> NoCabe(q)
               /\ DentroDeMemoria(q)' <=> DentroDeMemoria(q)
    BY <2>1 DEF NoCabe, DentroDeMemoria, SegmentoDe, Desplazamiento
  <2>4. \A q \in PROCESOS : hilo'[q].fase # "no" =>
          /\ SegmentoDe(hilo'[q].logica) \in IDS
          /\ NoCabe(q)' \/ DentroDeMemoria(q)'
    BY <2>1, <2>3 DEF DeMemoria
  <2>5. hilo'[p].fase = "toma" /\ NoCabe(p)'
    BY <2>1, <2>2, <2>3
  <2> QED BY <2>1, <2>4, <2>5 DEF DeMemoria, SegmentoDe
<1>15. CASE Compactar
  <2>1. /\ tabla_segmentos' = [p \in PROCESOS |-> [s \in IDS |->
             LET d == tabla_segmentos[p][s]
             IN  IF <<p, s>> \in Activos THEN [d EXCEPT !.base = NuevaBase(d)] ELSE d]]
        /\ hilo' = [p \in PROCESOS |->
             IF hilo[p].fase = "nace" THEN [hilo[p] EXCEPT !.vieja = TRUE] ELSE hilo[p]]
        /\ NadieOpera /\ UNCHANGED memoria
    BY <1>15 DEF Compactar
  <2>2. ASSUME NEW q \in PROCESOS, NEW s \in IDS
        PROVE  tabla_segmentos'[q][s].tam = tabla_segmentos[q][s].tam
    <3>1. PICK d : d = tabla_segmentos[q][s]
      OBVIOUS
    <3>2. d \in [base : Nat, tam : Nat, activo : BOOLEAN]
      BY <3>1 DEF Inductivo, Datos, Tabla
    <3>3. PICK b : b = NuevaBase(d)
      OBVIOUS
    <3>4. tabla_segmentos'[q][s] = d \/ tabla_segmentos'[q][s] = [d EXCEPT !.base = b]
      BY <2>1, <3>1, <3>3
    <3> QED BY <3>1, <3>2, <3>4
  <2>3. ASSUME NEW q \in PROCESOS, hilo'[q].fase # "no"
        PROVE  /\ hilo[q].fase # "no"
               /\ hilo'[q].logica = hilo[q].logica /\ hilo'[q].cant = hilo[q].cant
               /\ hilo'[q].dir = hilo[q].dir
    <3>1. CASE hilo[q].fase = "nace"
      <4>1. hilo[q] \in Hilo /\ hilo'[q] = [hilo[q] EXCEPT !.vieja = TRUE]
        BY <1>11, <2>1, <3>1 DEF SinHilo
      <4> QED BY <3>1, <4>1 DEF Hilo
    <3>2. CASE hilo[q].fase # "nace"
      BY <2>1, <2>3, <3>2
    <3> QED BY <3>1, <3>2
  <2>4. \A q \in PROCESOS : hilo[q].fase # "toma"
    BY <2>1 DEF NadieOpera
  <2> QED BY <2>1, <2>2, <2>3, <2>4, PasoTransferencias
<1> QED
  BY <1>1, <1>2, <1>3, <1>5, <1>7, <1>8, <1>9, <1>10, <1>12, <1>13, <1>14, <1>15
     DEF Next

(* core.c:555-660 of the kernel and comunicacion.c:106 of the CPU: every   *)
(* transfer that reaches memoria is inside its memory unless the mmu had   *)
(* refused it, and only one of those makes it fall.                        *)
THEOREM InvarianteMemoria == Spec => []DeMemoria
<1>1. Init => DeMemoria
  <2>1. Init => memoria = "atiende" /\ \A p \in PROCESOS : hilo[p].fase = "no"
    BY DEF Init, SinHilo
  <2> QED BY <2>1 DEF DeMemoria
<1>2. Inductivo /\ Inductivo' /\ DeMemoria /\ [Next]_vars => DeMemoria'
  BY PasoDeMemoria
<1> QED
  BY <1>1, <1>2, InvarianteCpu, PTL DEF Spec

(* comunicacion.c:106 of the CPU sends what the mmu said: memoria falls    *)
(* only for a process that reads or writes a file past its own segment,    *)
(* however many compactions made the address of another one old.           *)
THEOREM MemoriaCaePorLaSuya == Spec => []MemoriaCaidaExplicada
<1>1. Inductivo /\ DeMemoria => MemoriaCaidaExplicada
  <2> SUFFICES ASSUME Datos, DeMemoria, memoria = "caida"
               PROVE  \E p \in PROCESOS :
                        /\ hilo[p].fase = "toma"
                        /\ MMU(tabla_segmentos[p], hilo[p].logica,
                               hilo[p].cant) = FUERA
    BY DEF MemoriaCaidaExplicada, Inductivo
  <2>1. PICK p \in PROCESOS : hilo[p].fase = "toma" /\ NoCabe(p)
    BY DEF DeMemoria
  <2>2. SegmentoDe(hilo[p].logica) \in IDS
    BY <2>1 DEF DeMemoria
  <2>3. MMU(tabla_segmentos[p], hilo[p].logica, hilo[p].cant) = FUERA
    BY <2>1, <2>2, NoCabeEs
  <2> QED BY <2>1, <2>3
<1> QED
  BY <1>1, InvarianteCpu, InvarianteMemoria, PTL

(* utils.c of the CPU and of memoria: every register has its width, every  *)
(* cell a value, every program counter is inside its program.              *)
THEOREM TipoCorrectoCpu == Spec => []TypeOK
<1>1. Inductivo /\ DeMemoria => TypeOK
  <2> SUFFICES ASSUME Inductivo, DeMemoria PROVE TypeOK
    OBVIOUS
  <2>1. Datos
    BY DEF Inductivo
  <2>2. ASSUME NEW p \in PROCESOS
        PROVE  program_counter[p] \in 0..Len(programa[p]) /\ DeSuAncho(registros_cpu[p])
    <3>1. program_counter[p] <= Len(programa[p])
      BY <2>1 DEF Datos
    <3>2. /\ program_counter[p] \in Nat /\ Len(programa[p]) \in Nat
          /\ Registros(registros_cpu[p])
      BY <2>1, ProgramaDe
    <3> QED BY <3>1, <3>2 DEF Registros
  <2>3. /\ contexto.pc \in 0..Len(contexto.instrucciones)
        /\ DeSuAncho(contexto.registros)
    <3>1. contexto \in Contextos /\ contexto.pc <= Len(contexto.instrucciones)
      BY <2>1 DEF Datos
    <3>2. /\ contexto.pc \in Nat /\ contexto.instrucciones \in Seq(INSTRUCCIONES)
          /\ Registros(contexto.registros)
      BY <3>1 DEF Contextos
    <3>3. Len(contexto.instrucciones) \in Nat
      BY <3>2
    <3> QED BY <3>1, <3>2, <3>3 DEF Registros
  <2>4. \A p \in PROCESOS : hilo[p].fase \in {"no", "nace", "toma"}
    BY <2>1 DEF Datos, SinHilo, Hilo
  <2> QED BY <2>1, <2>2, <2>3, <2>4 DEF Datos, DeMemoria, TypeOK
<1> QED
  BY <1>1, InvarianteCpu, InvarianteMemoria, PTL

(* core.c:562, 612: the address a thread of a file has is still that of    *)
(* its program, unless there was a compaction before it had the mutex.     *)
THEOREM DireccionesVigentes == Spec => []DireccionVigente
<1>1. Inductivo => DireccionVigente
  BY DEF Inductivo
<1> QED
  BY <1>1, InvarianteCpu, PTL

(* utils.c:426, 488 of the CPU: it runs past the end of a program only     *)
(* after a last call that is not an EXIT.                                  *)
THEOREM CaidasExplicadas == Spec => []CaidaExplicada
<1>1. Inductivo => CaidaExplicada
  <2> SUFFICES ASSUME Inductivo, cpu = "caida",
                      ~(HayInstruccion /\ SinEntrada(Instruccion))
               PROVE  /\ contexto.pc = Len(contexto.instrucciones)
                      /\ Decode(contexto.instrucciones[contexto.pc]) \in Llamadas
    BY DEF CaidaExplicada
  <2>1. Datos /\ Turno
    BY DEF Inductivo
  <2>2. /\ contexto.pc \in Nat /\ contexto.pc <= Len(contexto.instrucciones)
        /\ Len(contexto.instrucciones) \in Nat
    BY <2>1, EnEjecucion
  <2>3. Sigue(contexto.instrucciones, contexto.pc)
    BY <2>1 DEF Turno
  <2>4. ~(contexto.pc < Len(contexto.instrucciones))
    BY <2>1 DEF HayInstruccion, Turno
  <2> QED BY <2>2, <2>3, <2>4 DEF Sigue
<1> QED
  BY <1>1, InvarianteCpu, PTL
=============================================================================
