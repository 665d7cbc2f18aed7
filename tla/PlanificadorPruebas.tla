------------------------ MODULE PlanificadorPruebas -------------------------
(***************************************************************************)
(* Theorems about the kernel's schedulers, for any set of processes, any   *)
(* degree of multiprogramming and both algorithms: their invariants, and   *)
(* that they implement the life cycle of a process, each step of a thread  *)
(* being a transition of one process or of none.                           *)
(***************************************************************************)
EXTENDS PlanificadorCiclo, SecuenciasPruebas

(* The processes a console has put in NEW and not yet posted.              *)
Pendientes == {p \in PROCESOS : consola[p] \in {"memoria", "post"}}

(* While r_pcb is being attended it is a process; until it leaves the CPU  *)
(* it is the one in RUNNING, with mutex_RUNNING free.                      *)
Atendido ==
  /\ corto \in {"cpu", "yield_desalojar", "yield_encolar", "io", "fs", "fin",
                "fin_grado", "fin_desalojar", "fin_memoria", "fin_resultado"}
       => r_pcb \in PROCESOS
  /\ corto \in {"cpu", "yield_desalojar", "io", "fs", "fin", "fin_grado",
                "fin_desalojar"} => RUNNING = r_pcb
  /\ corto = "despacho" => RUNNING \in PROCESOS

(* EXIT holds a process only while terminar_proceso is attending it.       *)
ColaExit ==
  cola_EXIT = IF corto \in {"fin_grado", "fin_desalojar", "fin_memoria",
                            "fin_resultado"}
                THEN <<r_pcb>> ELSE <<>>

(* Every process of NEW has been posted, or its console is about to, or    *)
(* the long-term thread has the token and is on its way to take it.        *)
FichaNEW == Uno(largo \in {"lock_NEW", "lock_mp", "sem_mp", "guardia"})

TokensNEW ==
  /\ IsFiniteSet(Pendientes)
  /\ semaforo_NEW + FichaNEW + Cardinality(Pendientes) = Len(cola_NEW)

(* The room left and the degree add up to the maximum.                     *)
TokensMp ==
  semaforo_mp + GRADO_ACTUAL_MPROG + Uno(largo = "guardia")
    = GRADO_MAX_MULTIPROGRAMACION

EnTransito == largo = "encolar" => new_pcb \in PROCESOS

(* The inductive invariant.                                                *)
Inductivo ==
  /\ TypeOK
  /\ EnTransito
  /\ Atendido
  /\ ColaExit
  /\ TraspasoIO
  /\ TokensREADY
  /\ TokensNEW
  /\ TokensMp

-----------------------------------------------------------------------------
(* list_remove takes one element out of a list of processes, and leaves    *)
(* the others.                                                             *)
LEMMA SinElementoTipo ==
  ASSUME NEW S, NEW s \in Seq(S), NEW i \in DOMAIN s
  PROVE  /\ SinElemento(s, i) \in Seq(S)
         /\ Len(SinElemento(s, i)) = Len(s) - 1
<1> DEFINE a == SubSeq(s, 1, i - 1)
           b == SubSeq(s, i + 1, Len(s))
<1>1. i \in 1..Len(s) /\ Len(s) \in Nat
  OBVIOUS
<1>2. a \in Seq(S) /\ Len(a) = i - 1
  BY <1>1
<1>3. b \in Seq(S) /\ Len(b) = Len(s) - i
  BY <1>1
<1> HIDE DEF a, b
<1>4. a \o b \in Seq(S) /\ Len(a \o b) = Len(a) + Len(b)
  BY <1>2, <1>3, ConcatProperties
<1> QED
  <2>1. SinElemento(s, i) = a \o b
    BY DEF SinElemento, a, b
  <2> QED
    BY <1>1, <1>2, <1>3, <1>4, <2>1

(* The test at core.c:75 always holds: the thread has a token of           *)
(* semaforo_NEW, so NEW has a process, and one of semaforo_mp, so there is *)
(* room.                                                                   *)
LEMMA GuardaSegura == Inductivo => GuardaRedundante
<1> SUFFICES ASSUME Inductivo, largo = "guardia"
             PROVE  HayLugar
  BY DEF GuardaRedundante
<1>1. Cardinality(Pendientes) \in Nat
  BY FS_CardinalityType DEF Inductivo, TokensNEW
<1>2. Len(cola_NEW) > 0
  BY <1>1 DEF Inductivo, TokensNEW, FichaNEW, TypeOK, Uno
<1>3. GRADO_ACTUAL_MPROG < GRADO_MAX_MULTIPROGRAMACION
  BY SupuestoGrado DEF Inductivo, TokensMp, TypeOK, Uno
<1> QED
  BY <1>2, <1>3 DEF HayLugar

(* Init satisfies the inductive invariant.                                 *)
LEMMA InicioInductivo == Init => Inductivo
<1> SUFFICES ASSUME Init PROVE Inductivo
  OBVIOUS
<1>1. Pendientes = {}
  BY DEF Init, Pendientes
<1>2. TokensNEW
  BY <1>1, FS_EmptySet DEF Init, TokensNEW, FichaNEW, Uno
<1>3. TypeOK
  BY SupuestoGrado
     DEF Init, TypeOK, LugaresLargo, LugaresCorto, LugaresConsola
<1>4. EnTransito /\ Atendido /\ ColaExit /\ TraspasoIO
  BY DEF Init, EnTransito, Atendido, ColaExit, TraspasoIO
<1>5. TokensREADY /\ TokensMp
  BY SupuestoGrado DEF Init, TokensREADY, TokensMp, Uno
<1> QED
  BY <1>2, <1>3, <1>4, <1>5 DEF Inductivo

(* Every step keeps the types.                                             *)
LEMMA PasoTipo ==
  ASSUME Inductivo, [Next]_vars
  PROVE  TypeOK'
<1> USE DEF Inductivo, TypeOK, colas, cuentas, cerrojos, hilos, EnTransito,
            Atendido, ColaExit, LugaresLargo, LugaresCorto, LugaresConsola
<1>1. CASE LargoSemNEW
  BY <1>1 DEF LargoSemNEW
<1>2. CASE LargoLockNEW
  BY <1>2 DEF LargoLockNEW
<1>3. CASE LargoLockMp
  BY <1>3 DEF LargoLockMp
<1>4. CASE LargoSemMp
  BY <1>4 DEF LargoSemMp
<1>5. CASE LargoGuardia
  <2>1. Len(cola_NEW) > 0 /\ HayLugar
    BY <1>5, GuardaSegura DEF LargoGuardia, GuardaRedundante, HayLugar
  <2>2. Head(cola_NEW) \in PROCESOS /\ Tail(cola_NEW) \in Seq(PROCESOS)
    BY <2>1
  <2>3. /\ GRADO_ACTUAL_MPROG' = GRADO_ACTUAL_MPROG + 1
        /\ new_pcb' = Head(cola_NEW)
        /\ cola_NEW' = Tail(cola_NEW)
        /\ largo' = "encolar"
    BY <1>5, <2>1 DEF LargoGuardia
  <2> QED
    BY <1>5, <2>2, <2>3 DEF LargoGuardia
<1>6. CASE LargoEncola
  BY <1>6 DEF LargoEncola, EncolarREADY
<1>7. CASE CortoInicio
  BY <1>7 DEF CortoInicio
<1>8. CASE CortoSemREADY
  BY <1>8 DEF CortoSemREADY
<1>9. CASE CortoElige
  <2>1. PICK i \in DOMAIN cola_READY :
          /\ RUNNING' = cola_READY[i]
          /\ r_pcb' = cola_READY[i]
          /\ cola_READY' = SinElemento(cola_READY, i)
    BY <1>9 DEF CortoElige, Elegibles
  <2>2. cola_READY[i] \in PROCESOS
    BY <2>1
  <2>3. /\ cola_READY' \in Seq(PROCESOS)
        /\ Len(cola_READY') = Len(cola_READY) - 1
    BY <2>1, SinElementoTipo
  <2> QED
    BY <1>9, <2>1, <2>2, <2>3 DEF CortoElige
<1>10. CASE CortoDespacha
  BY <1>10 DEF CortoDespacha
<1>11. CASE CpuLlamada
  BY <1>11 DEF CpuLlamada
<1>12. CASE CpuFin
  BY <1>12 DEF CpuFin
<1>13. CASE YieldDesaloja
  BY <1>13 DEF YieldDesaloja
<1>14. CASE YieldEncola
  BY <1>14 DEF YieldEncola, EncolarREADY
<1>15. CASE CortoIO
  BY <1>15 DEF CortoIO
<1>16. CASE CortoFS
  BY <1>16 DEF CortoFS
<1>17. CASE FinExit
  BY <1>17 DEF FinExit
<1>18. CASE FinGrado
  BY <1>18 DEF FinGrado
<1>19. CASE FinDesaloja
  BY <1>19 DEF FinDesaloja
<1>20. CASE FinMemoria
  BY <1>20 DEF FinMemoria
<1>21. CASE FinResultado
  BY <1>21 DEF FinResultado
<1>22. ASSUME NEW p \in PROCESOS, ConsolaNEW(p)
       PROVE  TypeOK'
  BY <1>22 DEF ConsolaNEW
<1>23. ASSUME NEW p \in PROCESOS, ConsolaMemoria(p)
       PROVE  TypeOK'
  BY <1>23 DEF ConsolaMemoria
<1>24. ASSUME NEW p \in PROCESOS, ConsolaPost(p)
       PROVE  TypeOK'
  BY <1>24 DEF ConsolaPost
<1>25. ASSUME NEW p \in PROCESOS, HiloToma(p)
       PROVE  TypeOK'
  BY <1>25 DEF HiloToma
<1>26. ASSUME NEW p \in PROCESOS, HiloEncola(p)
       PROVE  TypeOK'
  BY <1>26 DEF HiloEncola, EncolarREADY
<1>27. CASE UNCHANGED vars
  BY <1>27 DEF vars
<1> QED
  BY <1>1, <1>2, <1>3, <1>4, <1>5, <1>6, <1>7, <1>8, <1>9, <1>10, <1>11,
     <1>12, <1>13, <1>14, <1>15, <1>16, <1>17, <1>18, <1>19, <1>20, <1>21,
     <1>22, <1>23, <1>24, <1>25, <1>26, <1>27
     DEF Next, Largo, Corto, Consola, Hilo

(* What every step keeps of the processes in the threads' hands and of the *)
(* counters.                                                               *)
Manos == EnTransito /\ Atendido /\ ColaExit /\ TraspasoIO
Tokens == TokensREADY /\ TokensMp

(* Every step keeps a process in the hands of its thread.                  *)
LEMMA PasoManos ==
  ASSUME Inductivo, [Next]_vars
  PROVE  Manos'
<1> USE DEF Inductivo, TypeOK, colas, cuentas, cerrojos, hilos, Manos,
            EnTransito, Atendido, ColaExit, TraspasoIO
<1>1. CASE LargoSemNEW
  BY <1>1 DEF LargoSemNEW
<1>2. CASE LargoLockNEW
  BY <1>2 DEF LargoLockNEW
<1>3. CASE LargoLockMp
  BY <1>3 DEF LargoLockMp
<1>4. CASE LargoSemMp
  BY <1>4 DEF LargoSemMp
<1>5. CASE LargoGuardia
  <2>1. Len(cola_NEW) > 0 /\ HayLugar
    BY <1>5, GuardaSegura DEF LargoGuardia, GuardaRedundante, HayLugar
  <2>2. Head(cola_NEW) \in PROCESOS /\ Tail(cola_NEW) \in Seq(PROCESOS)
    BY <2>1
  <2>3. /\ GRADO_ACTUAL_MPROG' = GRADO_ACTUAL_MPROG + 1
        /\ new_pcb' = Head(cola_NEW)
        /\ cola_NEW' = Tail(cola_NEW)
        /\ largo' = "encolar"
    BY <1>5, <2>1 DEF LargoGuardia
  <2> QED
    BY <1>5, <2>2, <2>3 DEF LargoGuardia
<1>6. CASE LargoEncola
  BY <1>6 DEF LargoEncola, EncolarREADY
<1>7. CASE CortoInicio
  BY <1>7 DEF CortoInicio
<1>8. CASE CortoSemREADY
  BY <1>8 DEF CortoSemREADY
<1>9. CASE CortoElige
  <2>1. PICK i \in DOMAIN cola_READY :
          /\ RUNNING' = cola_READY[i]
          /\ r_pcb' = cola_READY[i]
          /\ cola_READY' = SinElemento(cola_READY, i)
    BY <1>9 DEF CortoElige, Elegibles
  <2>2. cola_READY[i] \in PROCESOS
    BY <2>1
  <2>3. /\ cola_READY' \in Seq(PROCESOS)
        /\ Len(cola_READY') = Len(cola_READY) - 1
    BY <2>1, SinElementoTipo
  <2> QED
    BY <1>9, <2>1, <2>2, <2>3 DEF CortoElige
<1>10. CASE CortoDespacha
  BY <1>10 DEF CortoDespacha
<1>11. CASE CpuLlamada
  BY <1>11 DEF CpuLlamada
<1>12. CASE CpuFin
  BY <1>12 DEF CpuFin
<1>13. CASE YieldDesaloja
  BY <1>13 DEF YieldDesaloja
<1>14. CASE YieldEncola
  BY <1>14 DEF YieldEncola, EncolarREADY
<1>15. CASE CortoIO
  BY <1>15 DEF CortoIO
<1>16. CASE CortoFS
  BY <1>16 DEF CortoFS
<1>17. CASE FinExit
  BY <1>17 DEF FinExit
<1>18. CASE FinGrado
  BY <1>18 DEF FinGrado
<1>19. CASE FinDesaloja
  BY <1>19 DEF FinDesaloja
<1>20. CASE FinMemoria
  BY <1>20 DEF FinMemoria
<1>21. CASE FinResultado
  BY <1>21 DEF FinResultado
<1>22. ASSUME NEW p \in PROCESOS, ConsolaNEW(p)
       PROVE  Manos'
  BY <1>22 DEF ConsolaNEW
<1>23. ASSUME NEW p \in PROCESOS, ConsolaMemoria(p)
       PROVE  Manos'
  BY <1>23 DEF ConsolaMemoria
<1>24. ASSUME NEW p \in PROCESOS, ConsolaPost(p)
       PROVE  Manos'
  BY <1>24 DEF ConsolaPost
<1>25. ASSUME NEW p \in PROCESOS, HiloToma(p)
       PROVE  Manos'
  BY <1>25 DEF HiloToma
<1>26. ASSUME NEW p \in PROCESOS, HiloEncola(p)
       PROVE  Manos'
  BY <1>26 DEF HiloEncola, EncolarREADY
<1>27. CASE UNCHANGED vars
  BY <1>27 DEF vars
<1> QED
  BY <1>1, <1>2, <1>3, <1>4, <1>5, <1>6, <1>7, <1>8, <1>9, <1>10, <1>11,
     <1>12, <1>13, <1>14, <1>15, <1>16, <1>17, <1>18, <1>19, <1>20, <1>21,
     <1>22, <1>23, <1>24, <1>25, <1>26, <1>27
     DEF Next, Largo, Corto, Consola, Hilo

(* Every step keeps the counts of READY and of the degree.                 *)
LEMMA PasoTokens ==
  ASSUME Inductivo, [Next]_vars
  PROVE  Tokens'
<1> USE DEF Inductivo, TypeOK, colas, cuentas, cerrojos, hilos, Tokens,
            TokensREADY, TokensMp, Uno
<1>1. CASE LargoSemNEW
  BY <1>1 DEF LargoSemNEW
<1>2. CASE LargoLockNEW
  BY <1>2 DEF LargoLockNEW
<1>3. CASE LargoLockMp
  BY <1>3 DEF LargoLockMp
<1>4. CASE LargoSemMp
  BY <1>4 DEF LargoSemMp
<1>5. CASE LargoGuardia
  <2>1. Len(cola_NEW) > 0 /\ HayLugar
    BY <1>5, GuardaSegura DEF LargoGuardia, GuardaRedundante, HayLugar
  <2>2. Head(cola_NEW) \in PROCESOS /\ Tail(cola_NEW) \in Seq(PROCESOS)
    BY <2>1
  <2>3. /\ GRADO_ACTUAL_MPROG' = GRADO_ACTUAL_MPROG + 1
        /\ new_pcb' = Head(cola_NEW)
        /\ cola_NEW' = Tail(cola_NEW)
        /\ largo' = "encolar" /\ largo = "guardia"
        /\ corto' = corto /\ cola_READY' = cola_READY
        /\ semaforo_READY' = semaforo_READY /\ semaforo_mp' = semaforo_mp
    BY <1>5, <2>1 DEF LargoGuardia
  <2>4. /\ semaforo_READY + Uno(corto = "elegir") = Len(cola_READY)
        /\ semaforo_mp + GRADO_ACTUAL_MPROG + 1 = GRADO_MAX_MULTIPROGRAMACION
        /\ semaforo_mp \in Int /\ GRADO_ACTUAL_MPROG \in Int
    BY <2>3
  <2> QED
    BY ONLY <2>3, <2>4
<1>6. CASE LargoEncola
  <2>1. new_pcb \in PROCESOS
    BY <1>6 DEF LargoEncola, EnTransito
  <2>2. /\ cola_READY' = Append(cola_READY, new_pcb)
        /\ semaforo_READY' = semaforo_READY + 1 /\ corto' = corto
        /\ largo = "encolar" /\ largo' = "sem_NEW" /\ semaforo_mp' = semaforo_mp
        /\ GRADO_ACTUAL_MPROG' = GRADO_ACTUAL_MPROG
    BY <1>6 DEF LargoEncola, EncolarREADY
  <2>3. Len(cola_READY') = Len(cola_READY) + 1 /\ Len(cola_READY) \in Nat
    BY <2>1, <2>2
  <2> QED
    BY <2>2, <2>3
<1>7. CASE CortoInicio
  BY <1>7 DEF CortoInicio
<1>8. CASE CortoSemREADY
  BY <1>8 DEF CortoSemREADY
<1>9. CASE CortoElige
  <2>1. PICK i \in DOMAIN cola_READY :
          /\ RUNNING' = cola_READY[i]
          /\ r_pcb' = cola_READY[i]
          /\ cola_READY' = SinElemento(cola_READY, i)
    BY <1>9 DEF CortoElige, Elegibles
  <2>2. cola_READY[i] \in PROCESOS
    BY <2>1
  <2>3. /\ cola_READY' \in Seq(PROCESOS)
        /\ Len(cola_READY') = Len(cola_READY) - 1
    BY <2>1, SinElementoTipo
  <2> QED
    BY <1>9, <2>1, <2>2, <2>3 DEF CortoElige
<1>10. CASE CortoDespacha
  BY <1>10 DEF CortoDespacha
<1>11. CASE CpuLlamada
  BY <1>11 DEF CpuLlamada
<1>12. CASE CpuFin
  BY <1>12 DEF CpuFin
<1>13. CASE YieldDesaloja
  BY <1>13 DEF YieldDesaloja
<1>14. CASE YieldEncola
  BY <1>14 DEF YieldEncola, EncolarREADY
<1>15. CASE CortoIO
  BY <1>15 DEF CortoIO
<1>16. CASE CortoFS
  BY <1>16 DEF CortoFS
<1>17. CASE FinExit
  BY <1>17 DEF FinExit
<1>18. CASE FinGrado
  BY <1>18 DEF FinGrado
<1>19. CASE FinDesaloja
  BY <1>19 DEF FinDesaloja
<1>20. CASE FinMemoria
  BY <1>20 DEF FinMemoria
<1>21. CASE FinResultado
  BY <1>21 DEF FinResultado
<1>22. ASSUME NEW p \in PROCESOS, ConsolaNEW(p)
       PROVE  Tokens'
  BY <1>22 DEF ConsolaNEW
<1>23. ASSUME NEW p \in PROCESOS, ConsolaMemoria(p)
       PROVE  Tokens'
  BY <1>23 DEF ConsolaMemoria
<1>24. ASSUME NEW p \in PROCESOS, ConsolaPost(p)
       PROVE  Tokens'
  BY <1>24 DEF ConsolaPost
<1>25. ASSUME NEW p \in PROCESOS, HiloToma(p)
       PROVE  Tokens'
  BY <1>25 DEF HiloToma
<1>26. ASSUME NEW p \in PROCESOS, HiloEncola(p)
       PROVE  Tokens'
  BY <1>26 DEF HiloEncola, EncolarREADY
<1>27. CASE UNCHANGED vars
  BY <1>27 DEF vars
<1> QED
  BY <1>1, <1>2, <1>3, <1>4, <1>5, <1>6, <1>7, <1>8, <1>9, <1>10, <1>11,
     <1>12, <1>13, <1>14, <1>15, <1>16, <1>17, <1>18, <1>19, <1>20, <1>21,
     <1>22, <1>23, <1>24, <1>25, <1>26, <1>27
     DEF Next, Largo, Corto, Consola, Hilo

(* Every step keeps the count of NEW: a console counts twice until it has  *)
(* posted, once in NEW and once in Pendientes.                             *)
LEMMA PasoTokensNEW ==
  ASSUME Inductivo, [Next]_vars
  PROVE  TokensNEW'
<1>0. TypeOK /\ TokensNEW
  BY DEF Inductivo
<1>1. /\ Cardinality(Pendientes) \in Nat
      /\ Len(cola_NEW) \in Nat
      /\ FichaNEW \in Nat
      /\ semaforo_NEW \in Nat
  BY <1>0, FS_CardinalityType DEF TypeOK, TokensNEW, FichaNEW, Uno
<1> USE <1>0 DEF colas, cuentas, cerrojos, hilos
<1>2. CASE Largo
  <2>1. Pendientes' = Pendientes
    BY <1>2 DEF Pendientes, Largo, LargoSemNEW, LargoLockNEW, LargoLockMp,
                LargoSemMp, LargoGuardia, LargoEncola
  <2>2. CASE LargoGuardia
    <3>1. Len(cola_NEW) > 0 /\ HayLugar
      BY <2>2, GuardaSegura DEF LargoGuardia, GuardaRedundante, HayLugar
    <3>2. /\ Len(cola_NEW') = Len(cola_NEW) - 1
          /\ UNCHANGED semaforo_NEW
      BY <2>2, <3>1 DEF LargoGuardia, TypeOK
    <3>3. FichaNEW = 1 /\ FichaNEW' = 0
      BY <2>2, <3>1 DEF LargoGuardia, FichaNEW, Uno
    <3> QED
      BY <1>1, <2>1, <3>2, <3>3 DEF TokensNEW
  <2>3. CASE LargoSemNEW
    <3>1. /\ semaforo_NEW' = semaforo_NEW - 1
          /\ FichaNEW = 0 /\ FichaNEW' = 1
          /\ UNCHANGED cola_NEW
      BY <2>3 DEF LargoSemNEW, FichaNEW, Uno
    <3> QED
      BY <1>1, <2>1, <3>1 DEF TokensNEW
  <2>4. CASE LargoLockNEW \/ LargoLockMp \/ LargoSemMp \/ LargoEncola
    <3>1. UNCHANGED <<semaforo_NEW, FichaNEW, cola_NEW>>
      BY <2>4 DEF LargoLockNEW, LargoLockMp, LargoSemMp, LargoEncola,
                  FichaNEW, Uno
    <3> QED
      BY <2>1, <3>1 DEF TokensNEW
  <2> QED
    BY <1>2, <2>2, <2>3, <2>4 DEF Largo
<1>3. CASE \/ Corto
           \/ UNCHANGED vars
           \/ \E p \in PROCESOS : Hilo(p)
  <2>1. UNCHANGED <<cola_NEW, semaforo_NEW, largo, consola>>
    BY <1>3 DEF vars, Corto, CortoInicio, CortoSemREADY, CortoElige,
                CortoDespacha, CpuLlamada, CpuFin, YieldDesaloja, YieldEncola,
                CortoIO, CortoFS, FinExit, FinGrado, FinDesaloja, FinMemoria,
                FinResultado, EncolarREADY, Hilo, HiloToma, HiloEncola
  <2> QED
    BY <2>1 DEF TokensNEW, Pendientes, FichaNEW
<1>4. ASSUME NEW p \in PROCESOS, ConsolaNEW(p)
      PROVE  TokensNEW'
  <2>1. Pendientes' = Pendientes \union {p} /\ p \notin Pendientes
    BY <1>4 DEF Pendientes, ConsolaNEW, LugaresConsola, TypeOK
  <2>2. /\ IsFiniteSet(Pendientes')
        /\ Cardinality(Pendientes') = Cardinality(Pendientes) + 1
    BY <2>1, FS_AddElement DEF TokensNEW
  <2>3. /\ Len(cola_NEW') = Len(cola_NEW) + 1
        /\ UNCHANGED <<semaforo_NEW, FichaNEW>>
    BY <1>4 DEF ConsolaNEW, FichaNEW, TypeOK
  <2> QED
    BY <1>1, <2>2, <2>3 DEF TokensNEW
<1>5. ASSUME NEW p \in PROCESOS, ConsolaMemoria(p)
      PROVE  TokensNEW'
  <2>1. /\ Pendientes' = Pendientes
        /\ UNCHANGED <<cola_NEW, semaforo_NEW, FichaNEW>>
    BY <1>5 DEF Pendientes, ConsolaMemoria, LugaresConsola, TypeOK, FichaNEW
  <2> QED
    BY <2>1 DEF TokensNEW
<1>6. ASSUME NEW p \in PROCESOS, ConsolaPost(p)
      PROVE  TokensNEW'
  <2>1. Pendientes' = Pendientes \ {p} /\ p \in Pendientes
    BY <1>6 DEF Pendientes, ConsolaPost, LugaresConsola, TypeOK
  <2>2. /\ IsFiniteSet(Pendientes')
        /\ Cardinality(Pendientes') = Cardinality(Pendientes) - 1
    BY <2>1, FS_RemoveElement DEF TokensNEW
  <2>3. /\ semaforo_NEW' = semaforo_NEW + 1
        /\ UNCHANGED <<cola_NEW, FichaNEW>>
    BY <1>6 DEF ConsolaPost, FichaNEW
  <2> QED
    BY <1>1, <2>2, <2>3 DEF TokensNEW
<1> QED
  BY <1>2, <1>3, <1>4, <1>5, <1>6 DEF Next, Consola

-----------------------------------------------------------------------------
(* The inductive invariant holds in every reachable state.                 *)
THEOREM Invariante == Spec => []Inductivo
<1>1. Init => Inductivo
  BY InicioInductivo
<1>2. Inductivo /\ [Next]_vars => Inductivo'
  BY PasoTipo, PasoManos, PasoTokens, PasoTokensNEW
     DEF Inductivo, Manos, Tokens
<1> QED
  BY <1>1, <1>2, PTL DEF Spec

(* The kernel's lists, counters and threads keep their types.              *)
THEOREM TipoCorrecto == Spec => []TypeOK
<1>1. Inductivo => TypeOK
  BY DEF Inductivo
<1> QED
  BY <1>1, Invariante, PTL

(* The claim of the comment at core.c:75, for any number of consoles and   *)
(* any degree: after the two semaphores the test never fails.              *)
THEOREM GuardaNoHaceFalta == Spec => []GuardaRedundante
  BY GuardaSegura, Invariante, PTL

(* The short-term thread never takes from an empty READY.                  *)
THEOREM ReadyCuentaExacta == Spec => []TokensREADY
<1>1. Inductivo => TokensREADY
  BY DEF Inductivo
<1> QED
  BY <1>1, Invariante, PTL

(* The I/O thread always finds its own process in RUNNING.                 *)
THEOREM TraspasoSeguro == Spec => []TraspasoIO
<1>1. Inductivo => TraspasoIO
  BY DEF Inductivo
<1> QED
  BY <1>1, Invariante, PTL
-----------------------------------------------------------------------------
(***************************************************************************)
(* Where each process is: in one place at a time, and as many admitted as  *)
(* GRADO_ACTUAL_MPROG says.                                                *)
(***************************************************************************)

(* What p counts in the hands of each thread, and what it must add up to.  *)
EnLargo(p) == Uno(largo = "encolar" /\ new_pcb = p)
EnYield(p) == Uno(corto = "yield_encolar" /\ r_pcb = p)
EnCuenta(p) == Uno(EnCpu(p))
Bloqueado(p) == Uno(hilo[p] = "bloqueado")
Vivo(p) == Uno(consola[p] # "conecta" /\ p \notin finalizados)

(* UnSoloLugar with the two threads' hands counted apart.                  *)
UnLugar ==
  \A p \in PROCESOS :
    Veces(cola_NEW, p) + Veces(cola_READY, p) + EnCuenta(p) + EnLargo(p)
      + EnYield(p) + Bloqueado(p) = Vivo(p)

(* The CPU is empty while the short-term thread chooses, and once the      *)
(* process that ends or yields has left it.                                *)
CpuVacia ==
  corto \in {"sem_READY", "elegir", "yield_encolar", "fin_memoria",
             "fin_resultado"} => RUNNING = NULO

(* A process ends after it has arrived.                                    *)
Llegados == \A p \in finalizados : consola[p] # "conecta"

Lugares == UnLugar /\ CpuVacia /\ Llegados

-----------------------------------------------------------------------------
(* A list of processes has each of them a number of times.                 *)
LEMMA VecesFinito ==
  ASSUME NEW S, NEW s \in Seq(S), NEW p
  PROVE  /\ Veces(s, p) \in Nat
         /\ Veces(s, p) = 0 <=> p \notin Cola(s)
<1>1. Veces(s, p) = CuantasVeces(s, p)
  BY DEF Veces, CuantasVeces, Apariciones
<1>2. p \notin Cola(s) <=> \A i \in DOMAIN s : s[i] # p
  BY DEF Cola
<1> QED
  BY <1>1, <1>2, AparicionesFinitas

(* list_add adds one occurrence.                                           *)
LEMMA VecesAgregar ==
  ASSUME NEW S, NEW s \in Seq(S), NEW x \in S, NEW p
  PROVE  Veces(Append(s, x), p) = Veces(s, p) + Uno(x = p)
<1>1. CuantasVeces(Append(s, x), p) = CuantasVeces(s, p) + Uno(x = p)
  BY VecesAppend DEF Uno
<1> QED
  BY <1>1 DEF Veces, CuantasVeces, Apariciones

(* list_remove takes one occurrence away.                                  *)
LEMMA VecesQuitar ==
  ASSUME NEW S, NEW s \in Seq(S), NEW i \in DOMAIN s, NEW p
  PROVE  Veces(SinElemento(s, i), p) = Veces(s, p) - Uno(s[i] = p)
<1>1. SinElemento(s, i) = RemoveAt(s, i)
  BY DEF SinElemento, RemoveAt
<1>2. CuantasVeces(RemoveAt(s, i), p) = CuantasVeces(s, p) - Uno(s[i] = p)
  BY VecesRemoveAt DEF Uno
<1>3. CuantasVeces(SinElemento(s, i), p) = CuantasVeces(s, p) - Uno(s[i] = p)
  BY <1>1, <1>2
<1> QED
  BY <1>3 DEF Veces, CuantasVeces, Apariciones

(* Taking the head of a list takes one occurrence of it away.              *)
LEMMA VecesCabeza ==
  ASSUME NEW S, NEW s \in Seq(S), s # <<>>, NEW p
  PROVE  Veces(Tail(s), p) = Veces(s, p) - Uno(Head(s) = p)
<1>1. CuantasVeces(Tail(s), p) = CuantasVeces(s, p) - Uno(Head(s) = p)
  BY VecesTail DEF Uno
<1> QED
  BY <1>1 DEF Veces, CuantasVeces, Apariciones

-----------------------------------------------------------------------------
(* Init satisfies the invariant: nobody has arrived.                       *)
LEMMA InicioLugares == Init => Lugares
<1> SUFFICES ASSUME Init PROVE Lugares
  OBVIOUS
<1>1. CpuVacia /\ Llegados
  BY DEF Init, CpuVacia, Llegados
<1>2. ASSUME NEW q \in PROCESOS
      PROVE  Veces(<<>>, q) = 0
  <2>1. <<>> \in Seq(PROCESOS) /\ q \notin Cola(<<>>)
    BY DEF Cola
  <2> QED
    BY <2>1, VecesFinito
<1>3. ASSUME NEW q \in PROCESOS
      PROVE  /\ EnCuenta(q) = 0 /\ EnLargo(q) = 0 /\ EnYield(q) = 0
             /\ Bloqueado(q) = 0 /\ Vivo(q) = 0
  BY SupuestoNulo DEF Init, EnCuenta, EnCpu, EnLargo, EnYield, Bloqueado, Vivo,
                      Cola, Uno
<1>4. UnLugar
  BY <1>2, <1>3 DEF Init, UnLugar
<1> QED
  BY <1>1, <1>4 DEF Lugares

(* Every step keeps the CPU empty where nobody is on it: only CortoElige   *)
(* puts a process there, and it leaves the places where nobody is.         *)
LEMMA PasoCpuVacia ==
  ASSUME Inductivo, Lugares, [Next]_vars
  PROVE  CpuVacia'
<1> USE DEF Inductivo, TypeOK, CpuVacia, Lugares, colas, cuentas, cerrojos,
            hilos
<1>1. CASE Largo
  BY <1>1 DEF Largo, LargoSemNEW, LargoLockNEW, LargoLockMp, LargoSemMp,
              LargoGuardia, LargoEncola
<1>2. CASE CortoInicio \/ CortoSemREADY \/ CortoElige \/ CortoDespacha
  BY <1>2 DEF CortoInicio, CortoSemREADY, CortoElige, CortoDespacha
<1>3. CASE CpuLlamada \/ CpuFin \/ YieldDesaloja \/ YieldEncola
  BY <1>3 DEF CpuLlamada, CpuFin, YieldDesaloja, YieldEncola
<1>4. CASE CortoIO \/ CortoFS
  BY <1>4 DEF CortoIO, CortoFS
<1>5. CASE FinExit \/ FinGrado \/ FinDesaloja \/ FinMemoria \/ FinResultado
  BY <1>5 DEF FinExit, FinGrado, FinDesaloja, FinMemoria, FinResultado
<1>6. ASSUME NEW p \in PROCESOS, Consola(p) \/ Hilo(p)
      PROVE  CpuVacia'
  BY <1>6 DEF Consola, ConsolaNEW, ConsolaMemoria, ConsolaPost, Hilo,
              HiloToma, HiloEncola
<1>7. CASE UNCHANGED vars
  BY <1>7 DEF vars
<1> QED
  BY <1>1, <1>2, <1>3, <1>4, <1>5, <1>6, <1>7 DEF Next, Corto

(* Every step keeps a process in one place: what it takes from one it      *)
(* gives to another.                                                       *)
LEMMA PasoUnLugar ==
  ASSUME Inductivo, Lugares, [Next]_vars, NEW q \in PROCESOS
  PROVE  /\ Veces(cola_NEW', q) + Veces(cola_READY', q) + EnCuenta(q)'
              + EnLargo(q)' + EnYield(q)' + Bloqueado(q)' = Vivo(q)'
         /\ q \in finalizados' => consola'[q] # "conecta"
<1> DEFINE Sitio == Veces(cola_NEW, q) + Veces(cola_READY, q) + EnCuenta(q)
                      + EnLargo(q) + EnYield(q) + Bloqueado(q)
           Llegado == q \in finalizados => consola[q] # "conecta"
<1> SUFFICES Sitio' = Vivo(q)' /\ Llegado'
  OBVIOUS
<1>1. /\ TypeOK /\ EnTransito /\ Atendido /\ ColaExit /\ TraspasoIO
      /\ CpuVacia /\ Llegado /\ Sitio = Vivo(q)
  BY DEF Inductivo, Lugares, UnLugar, Llegados
<1>2. /\ Veces(cola_NEW, q) \in Nat /\ Veces(cola_READY, q) \in Nat
      /\ EnCuenta(q) \in {0, 1} /\ EnLargo(q) \in {0, 1}
      /\ EnYield(q) \in {0, 1} /\ Bloqueado(q) \in {0, 1}
      /\ Vivo(q) \in {0, 1}
  BY <1>1, VecesFinito
     DEF TypeOK, EnCuenta, EnLargo, EnYield, Bloqueado, Vivo, Uno
<1> DEFINE Sin == UNCHANGED <<EnCuenta(q), EnLargo(q), EnYield(q),
                              Bloqueado(q), Vivo(q)>>
           SinColas == UNCHANGED <<cola_NEW, cola_READY>>
<1>3. ASSUME SinColas, Sin, UNCHANGED <<consola, finalizados>>
      PROVE  Sitio' = Vivo(q)' /\ Llegado'
  BY <1>1, <1>3
<1> USE DEF colas, cuentas, cerrojos, hilos, Uno
<1> HIDE DEF Sitio
<1>4. CASE LargoSemNEW \/ LargoLockNEW \/ LargoLockMp \/ LargoSemMp
  <2>1. SinColas /\ Sin /\ UNCHANGED <<consola, finalizados>>
    BY <1>4 DEF LargoSemNEW, LargoLockNEW, LargoLockMp, LargoSemMp, EnCuenta,
                EnCpu, EnLargo, EnYield, Bloqueado, Vivo, Cola
  <2> QED
    BY <1>3, <2>1
<1>5. CASE \/ CortoInicio \/ CortoSemREADY \/ CortoDespacha \/ CpuLlamada
           \/ CpuFin \/ FinGrado \/ FinMemoria
  <2>1. SinColas /\ Sin /\ UNCHANGED <<consola, finalizados>>
    BY <1>5 DEF CortoInicio, CortoSemREADY, CortoDespacha, CpuLlamada, CpuFin,
                FinGrado, FinMemoria, EnCuenta, EnCpu, EnLargo, EnYield,
                Bloqueado, Vivo, Cola
  <2> QED
    BY <1>3, <2>1
<1>6. CASE UNCHANGED vars
  <2>1. SinColas /\ Sin /\ UNCHANGED <<consola, finalizados>>
    BY <1>6 DEF vars, EnCuenta, EnCpu, EnLargo, EnYield, Bloqueado, Vivo, Cola
  <2> QED
    BY <1>3, <2>1
<1> DEFINE Quietos(e, l, y, b, v) ==
             /\ (e => EnCuenta(q)' = EnCuenta(q))
             /\ (l => EnLargo(q)' = EnLargo(q))
             /\ (y => EnYield(q)' = EnYield(q))
             /\ (b => Bloqueado(q)' = Bloqueado(q))
             /\ (v => UNCHANGED <<consola, finalizados, Vivo(q)>>)
<1>7. CASE LargoGuardia
  <2>1. HayLugar /\ cola_NEW # <<>>
    BY <1>1, <1>7, GuardaSegura
       DEF LargoGuardia, GuardaRedundante, HayLugar, TypeOK
  <2>2. /\ cola_NEW' = Tail(cola_NEW) /\ UNCHANGED cola_READY
        /\ EnLargo(q) = 0 /\ EnLargo(q)' = Uno(Head(cola_NEW) = q)
    BY <1>7, <2>1 DEF LargoGuardia, EnLargo
  <2>3. Quietos(TRUE, FALSE, TRUE, TRUE, TRUE)
    BY <1>7 DEF LargoGuardia, EnCuenta, EnCpu, EnYield, Bloqueado, Vivo
  <2>4. Veces(cola_NEW', q) = Veces(cola_NEW, q) - Uno(Head(cola_NEW) = q)
    BY <1>1, <2>1, <2>2, VecesCabeza DEF TypeOK
  <2> QED
    BY <1>1, <1>2, <2>2, <2>3, <2>4 DEF Sitio
<1>8. CASE LargoEncola
  <2>1. /\ cola_READY' = Append(cola_READY, new_pcb) /\ UNCHANGED cola_NEW
        /\ EnLargo(q) = Uno(new_pcb = q) /\ EnLargo(q)' = 0
    BY <1>8 DEF LargoEncola, EncolarREADY, EnLargo
  <2>2. Quietos(TRUE, FALSE, TRUE, TRUE, TRUE)
    BY <1>8 DEF LargoEncola, EnCuenta, EnCpu, EnYield, Bloqueado, Vivo
  <2>3. Veces(cola_READY', q) = Veces(cola_READY, q) + Uno(new_pcb = q)
    BY <1>1, <1>8, <2>1, VecesAgregar DEF TypeOK, EnTransito, LargoEncola
  <2> QED
    BY <1>1, <1>2, <2>1, <2>2, <2>3 DEF Sitio
<1>9. CASE CortoElige
  <2>1. PICK i \in DOMAIN cola_READY :
          /\ RUNNING' = cola_READY[i]
          /\ cola_READY' = SinElemento(cola_READY, i)
    BY <1>9 DEF CortoElige, Elegibles
  <2>2. /\ UNCHANGED cola_NEW
        /\ EnCuenta(q) = 0 /\ EnCuenta(q)' = Uno(cola_READY[i] = q)
    BY <1>1, <1>9, <2>1, SupuestoNulo
       DEF CortoElige, EnCuenta, EnCpu, CpuVacia, ColaExit, Cola
  <2>3. Quietos(FALSE, TRUE, TRUE, TRUE, TRUE)
    BY <1>9 DEF CortoElige, EnLargo, EnYield, Bloqueado, Vivo
  <2>4. Veces(cola_READY', q) = Veces(cola_READY, q) - Uno(cola_READY[i] = q)
    BY <1>1, <2>1, VecesQuitar DEF TypeOK
  <2> QED
    BY <1>1, <1>2, <2>2, <2>3, <2>4 DEF Sitio
<1>10. CASE YieldDesaloja
  <2>1. /\ SinColas
        /\ EnCuenta(q) = Uno(r_pcb = q) /\ EnCuenta(q)' = 0
        /\ EnYield(q) = 0 /\ EnYield(q)' = Uno(r_pcb = q)
    BY <1>1, <1>10, SupuestoNulo
       DEF YieldDesaloja, EnCuenta, EnCpu, EnYield, ColaExit, Cola, Atendido
  <2>2. Quietos(FALSE, TRUE, FALSE, TRUE, TRUE)
    BY <1>10 DEF YieldDesaloja, EnLargo, Bloqueado, Vivo
  <2> QED
    BY <1>1, <1>2, <2>1, <2>2 DEF Sitio
<1>11. CASE YieldEncola
  <2>1. /\ cola_READY' = Append(cola_READY, r_pcb) /\ UNCHANGED cola_NEW
        /\ EnYield(q) = Uno(r_pcb = q) /\ EnYield(q)' = 0
    BY <1>11 DEF YieldEncola, EncolarREADY, EnYield
  <2>2. Quietos(TRUE, TRUE, FALSE, TRUE, TRUE)
    BY <1>11 DEF YieldEncola, EnCuenta, EnCpu, EnLargo, Bloqueado, Vivo
  <2>3. Veces(cola_READY', q) = Veces(cola_READY, q) + Uno(r_pcb = q)
    BY <1>1, <1>11, <2>1, VecesAgregar DEF TypeOK, Atendido, YieldEncola
  <2> QED
    BY <1>1, <1>2, <2>1, <2>2, <2>3 DEF Sitio
<1>12. CASE CortoIO
  <2>1. EnCuenta(q) = Uno(r_pcb = q)
    BY <1>1, <1>12 DEF CortoIO, EnCuenta, EnCpu, ColaExit, Cola, Atendido
  <2>2. r_pcb = q => Bloqueado(q) = 0
    BY <1>1, <1>2, <2>1 DEF Sitio
  <2>3. SinColas /\ Quietos(TRUE, TRUE, TRUE, TRUE, TRUE)
    BY <1>1, <1>12, <2>2 DEF CortoIO, EnCuenta, EnCpu, EnLargo, EnYield,
                             Bloqueado, Vivo, TypeOK
  <2> QED
    BY <1>3, <2>3
<1>13. CASE CortoFS
  <2>1. EnCuenta(q) = Uno(r_pcb = q) /\ EnCuenta(q)' = 0
    BY <1>1, <1>13, SupuestoNulo
       DEF CortoFS, EnCuenta, EnCpu, ColaExit, Cola, Atendido
  <2>2. r_pcb = q => Bloqueado(q) = 0
    BY <1>1, <1>2, <2>1 DEF Sitio
  <2>3. Bloqueado(q)' = Bloqueado(q) + Uno(r_pcb = q)
    BY <1>1, <1>13, <2>2 DEF CortoFS, Bloqueado, TypeOK
  <2>4. SinColas /\ Quietos(FALSE, TRUE, TRUE, FALSE, TRUE)
    BY <1>13 DEF CortoFS, EnLargo, EnYield, Vivo
  <2> QED
    BY <1>1, <1>2, <2>1, <2>3, <2>4 DEF Sitio
<1>14. CASE FinExit
  <2>1. EnCuenta(q) = Uno(r_pcb = q) /\ EnCuenta(q)' = Uno(r_pcb = q)
    BY <1>1, <1>14 DEF FinExit, EnCuenta, EnCpu, ColaExit, Cola, Atendido
  <2>2. SinColas /\ Quietos(TRUE, TRUE, TRUE, TRUE, TRUE)
    BY <1>14, <2>1 DEF FinExit, EnLargo, EnYield, Bloqueado, Vivo
  <2> QED
    BY <1>3, <2>2
<1>15. CASE FinDesaloja
  <2>1. EnCuenta(q) = Uno(r_pcb = q) /\ EnCuenta(q)' = Uno(r_pcb = q)
    BY <1>1, <1>15, SupuestoNulo
       DEF FinDesaloja, EnCuenta, EnCpu, ColaExit, Cola, Atendido
  <2>2. SinColas /\ Quietos(TRUE, TRUE, TRUE, TRUE, TRUE)
    BY <1>15, <2>1 DEF FinDesaloja, EnLargo, EnYield, Bloqueado, Vivo
  <2> QED
    BY <1>3, <2>2
<1>16. CASE FinResultado
  <2>1. EnCuenta(q) = Uno(r_pcb = q) /\ EnCuenta(q)' = 0
    BY <1>1, <1>16, SupuestoNulo
       DEF FinResultado, EnCuenta, EnCpu, ColaExit, Cola, CpuVacia
  <2>2. r_pcb = q => Vivo(q) = 1
    BY <1>1, <1>2, <2>1 DEF Sitio
  <2>3. Vivo(q)' = Vivo(q) - Uno(r_pcb = q) /\ Llegado'
    BY <1>1, <1>16, <2>2 DEF FinResultado, Vivo
  <2>4. SinColas /\ Quietos(FALSE, TRUE, TRUE, TRUE, FALSE)
    BY <1>16 DEF FinResultado, EnLargo, EnYield, Bloqueado
  <2> QED
    BY <1>1, <1>2, <2>1, <2>3, <2>4 DEF Sitio
<1>17. ASSUME NEW p \in PROCESOS, ConsolaNEW(p)
       PROVE  Sitio' = Vivo(q)' /\ Llegado'
  <2>1. /\ cola_NEW' = Append(cola_NEW, p) /\ UNCHANGED cola_READY
        /\ Vivo(q)' = Vivo(q) + Uno(p = q)
        /\ Llegado'
    BY <1>1, <1>17 DEF ConsolaNEW, Vivo, TypeOK, LugaresConsola
  <2>2. Quietos(TRUE, TRUE, TRUE, TRUE, FALSE)
    BY <1>17 DEF ConsolaNEW, EnCuenta, EnCpu, EnLargo, EnYield, Bloqueado
  <2>3. Veces(cola_NEW', q) = Veces(cola_NEW, q) + Uno(p = q)
    BY <1>1, <2>1, VecesAgregar DEF TypeOK
  <2> QED
    BY <1>1, <1>2, <2>1, <2>2, <2>3 DEF Sitio
<1>18. ASSUME NEW p \in PROCESOS, ConsolaMemoria(p) \/ ConsolaPost(p)
       PROVE  Sitio' = Vivo(q)' /\ Llegado'
  <2>1. SinColas /\ Quietos(TRUE, TRUE, TRUE, TRUE, FALSE)
    BY <1>18 DEF ConsolaMemoria, ConsolaPost, EnCuenta, EnCpu, EnLargo,
                 EnYield, Bloqueado
  <2>2. Vivo(q)' = Vivo(q) /\ Llegado'
    BY <1>1, <1>18 DEF ConsolaMemoria, ConsolaPost, Vivo, TypeOK,
                       LugaresConsola
  <2> QED
    BY <1>1, <2>1, <2>2 DEF Sitio
<1>19. ASSUME NEW p \in PROCESOS, HiloToma(p)
       PROVE  Sitio' = Vivo(q)' /\ Llegado'
  <2>1. /\ EnCuenta(q) = Uno(p = q) /\ EnCuenta(q)' = 0
        /\ Bloqueado(q)' = Bloqueado(q) + Uno(p = q)
    BY <1>1, <1>19, SupuestoNulo
       DEF HiloToma, EnCuenta, EnCpu, ColaExit, Cola, TraspasoIO, Bloqueado,
           TypeOK
  <2>2. SinColas /\ Quietos(FALSE, TRUE, TRUE, FALSE, TRUE)
    BY <1>19 DEF HiloToma, EnLargo, EnYield, Vivo
  <2> QED
    BY <1>1, <1>2, <2>1, <2>2 DEF Sitio
<1>20. ASSUME NEW p \in PROCESOS, HiloEncola(p)
       PROVE  Sitio' = Vivo(q)' /\ Llegado'
  <2>1. /\ cola_READY' = Append(cola_READY, p) /\ UNCHANGED cola_NEW
        /\ Bloqueado(q)' = Bloqueado(q) - Uno(p = q)
    BY <1>1, <1>20 DEF HiloEncola, EncolarREADY, Bloqueado, TypeOK
  <2>2. Quietos(TRUE, TRUE, TRUE, FALSE, TRUE)
    BY <1>20 DEF HiloEncola, EnCuenta, EnCpu, EnLargo, EnYield, Vivo
  <2>3. Veces(cola_READY', q) = Veces(cola_READY, q) + Uno(p = q)
    BY <1>1, <2>1, VecesAgregar DEF TypeOK
  <2> QED
    BY <1>1, <1>2, <2>1, <2>2, <2>3 DEF Sitio
<1> QED
  BY <1>4, <1>5, <1>6, <1>7, <1>8, <1>9, <1>10, <1>11, <1>12, <1>13, <1>14,
     <1>15, <1>16, <1>17, <1>18, <1>19, <1>20
     DEF Next, Largo, Corto, Consola, Hilo

(* Every step keeps the whole invariant of places.                         *)
LEMMA PasoLugares ==
  ASSUME Inductivo, Lugares, [Next]_vars
  PROVE  Lugares'
<1>1. CpuVacia'
  BY PasoCpuVacia
<1>2. UnLugar'
  BY PasoUnLugar DEF UnLugar
<1>3. \A p \in PROCESOS : p \in finalizados' => consola'[p] # "conecta"
  BY PasoUnLugar
<1>4. finalizados' \subseteq PROCESOS
  BY PasoTipo DEF TypeOK
<1> QED
  BY <1>1, <1>2, <1>3, <1>4 DEF Lugares, Llegados

(* What the theorems about places hold of every reachable state.           *)
THEOREM InvarianteLugares == Spec => [](Inductivo /\ Lugares)
<1>1. Init => Lugares
  BY InicioLugares
<1>2. Inductivo /\ Lugares /\ [Next]_vars => Lugares'
  BY PasoLugares
<1> QED
  BY <1>1, <1>2, Invariante, PTL DEF Spec

(* A process that has arrived and not ended is in one list, once, or on    *)
(* the CPU, or in the hands of one thread, or blocked: encolar_proceso and *)
(* desalojar never duplicate it nor lose it.                               *)
THEOREM LugarUnico == Spec => []UnSoloLugar
<1>1. Inductivo /\ Lugares => UnSoloLugar
  <2> SUFFICES ASSUME Inductivo, Lugares, NEW p \in PROCESOS
               PROVE  Veces(cola_NEW, p) + Veces(cola_READY, p) + Uno(EnCpu(p))
                        + Uno(EnManos(p)) + Uno(hilo[p] = "bloqueado")
                      = Uno(consola[p] # "conecta" /\ p \notin finalizados)
    BY DEF UnSoloLugar
  <2>1. /\ Veces(cola_NEW, p) \in Nat /\ Veces(cola_READY, p) \in Nat
        /\ EnCuenta(p) \in {0, 1} /\ EnLargo(p) \in {0, 1}
        /\ EnYield(p) \in {0, 1} /\ Bloqueado(p) \in {0, 1}
        /\ Vivo(p) \in {0, 1}
    BY VecesFinito DEF Inductivo, TypeOK, EnCuenta, EnLargo, EnYield,
                       Bloqueado, Vivo, Uno
  <2>2. EnLargo(p) + EnYield(p) \in {0, 1}
    BY <2>1 DEF Lugares, UnLugar
  <2>3. Uno(EnManos(p)) = EnLargo(p) + EnYield(p)
    BY <2>1, <2>2 DEF EnManos, EnLargo, EnYield, Uno
  <2>4. /\ Uno(EnCpu(p)) = EnCuenta(p)
        /\ Uno(hilo[p] = "bloqueado") = Bloqueado(p)
        /\ Uno(consola[p] # "conecta" /\ p \notin finalizados) = Vivo(p)
    BY DEF EnCuenta, Bloqueado, Vivo
  <2>5. Veces(cola_NEW, p) + Veces(cola_READY, p) + EnCuenta(p) + EnLargo(p)
          + EnYield(p) + Bloqueado(p) = Vivo(p)
    BY DEF Lugares, UnLugar
  <2> QED
    BY <2>1, <2>3, <2>4, <2>5
<1> QED
  BY <1>1, InvarianteLugares, PTL

-----------------------------------------------------------------------------
(* The processes that count in the degree, written out: admitted, not      *)
(* ended, and not the one terminar_proceso has already discounted.         *)
Activos ==
  {p \in PROCESOS : /\ consola[p] # "conecta"
                    /\ p \notin Cola(cola_NEW)
                    /\ p \notin finalizados
                    /\ ~(p = r_pcb /\ corto \in {"fin_desalojar", "fin_memoria",
                                                 "fin_resultado"})}

GradoActivo == IsFiniteSet(Activos) /\ GRADO_ACTUAL_MPROG = Cardinality(Activos)

(* They are the ones GradoExacto counts.                                   *)
LEMMA ActivosSon == Activos = Admitidos \ Descontados
BY DEF Activos, Admitidos, Descontados

(* A process in a list is nowhere else, and it is alive.                   *)
LEMMA EnNuevosSolo ==
  ASSUME Inductivo, Lugares, NEW p \in PROCESOS
  PROVE  /\ EnCuenta(p) = 1 => p \notin Cola(cola_NEW) /\ Vivo(p) = 1
         /\ p \in Cola(cola_NEW) => Veces(cola_NEW, p) = 1 /\ Vivo(p) = 1
         /\ p \in Cola(cola_NEW) => EnCuenta(p) = 0
<1>1. /\ Veces(cola_NEW, p) \in Nat /\ Veces(cola_READY, p) \in Nat
      /\ Veces(cola_NEW, p) = 0 <=> p \notin Cola(cola_NEW)
      /\ EnCuenta(p) \in {0, 1} /\ EnLargo(p) \in {0, 1}
      /\ EnYield(p) \in {0, 1} /\ Bloqueado(p) \in {0, 1}
      /\ Vivo(p) \in {0, 1}
  BY VecesFinito DEF Inductivo, TypeOK, EnCuenta, EnLargo, EnYield,
                     Bloqueado, Vivo, Uno
<1>2. Veces(cola_NEW, p) + Veces(cola_READY, p) + EnCuenta(p) + EnLargo(p)
        + EnYield(p) + Bloqueado(p) = Vivo(p)
  BY DEF Lugares, UnLugar
<1> QED
  BY <1>1, <1>2

(* Every step keeps the degree exact: the head of NEW enters the count,    *)
(* the process that ends leaves it, and nobody else does either.           *)
LEMMA PasoGrado ==
  ASSUME Inductivo, Lugares, GradoActivo, [Next]_vars
  PROVE  GradoActivo'
<1>1. TypeOK /\ Atendido /\ ColaExit
  BY DEF Inductivo
<1> USE DEF colas, cuentas, cerrojos, hilos
<1>2. ASSUME UNCHANGED <<Activos, GRADO_ACTUAL_MPROG>>
      PROVE  GradoActivo'
  BY <1>2 DEF GradoActivo
<1>3. CASE \/ LargoSemNEW \/ LargoLockNEW \/ LargoLockMp \/ LargoSemMp
           \/ LargoEncola
  <2>1. UNCHANGED <<Activos, GRADO_ACTUAL_MPROG>>
    BY <1>3 DEF LargoSemNEW, LargoLockNEW, LargoLockMp, LargoSemMp,
                LargoEncola, Activos
  <2> QED
    BY <1>2, <2>1
<1>4. CASE LargoGuardia
  <2> DEFINE h == Head(cola_NEW)
  <2>1. HayLugar /\ cola_NEW # <<>>
    BY <1>1, <1>4, GuardaSegura
       DEF LargoGuardia, GuardaRedundante, HayLugar, TypeOK
  <2>2. /\ h \in PROCESOS /\ h \in Cola(cola_NEW)
        /\ Tail(cola_NEW) \in Seq(PROCESOS)
    BY <1>1, <2>1 DEF TypeOK, Cola
  <2>3. /\ cola_NEW' = Tail(cola_NEW)
        /\ GRADO_ACTUAL_MPROG' = GRADO_ACTUAL_MPROG + 1
        /\ UNCHANGED <<consola, finalizados, r_pcb, corto>>
    BY <1>4, <2>1 DEF LargoGuardia
  <2>4. \A q \in PROCESOS : q \in Cola(cola_NEW') <=>
                              q \in Cola(cola_NEW) /\ q # h
    <3> TAKE q \in PROCESOS
    <3>1. /\ q \in Cola(cola_NEW') <=> Veces(cola_NEW', q) # 0
          /\ q \in Cola(cola_NEW) <=> Veces(cola_NEW, q) # 0
          /\ Veces(cola_NEW, q) \in Nat
      BY <1>1, <2>2, <2>3, VecesFinito DEF TypeOK
    <3>2. Veces(cola_NEW', q) = Veces(cola_NEW, q) - Uno(h = q)
      BY <1>1, <2>1, <2>3, VecesCabeza DEF TypeOK
    <3>3. q = h => Veces(cola_NEW, q) = 1
      BY <2>2, EnNuevosSolo
    <3> QED
      BY <3>1, <3>2, <3>3 DEF Uno
  <2>5. EnCuenta(h) = 0 /\ Vivo(h) = 1
    BY <2>2, EnNuevosSolo
  <2>6. /\ consola[h] # "conecta" /\ h \notin finalizados
        /\ ~(h = r_pcb /\ corto \in {"fin_desalojar", "fin_memoria",
                                     "fin_resultado"})
    BY <1>1, <2>5 DEF EnCuenta, EnCpu, Vivo, Uno, ColaExit, Cola
  <2> HIDE DEF h
  <2>7. Activos' = Activos \union {h} /\ h \notin Activos
    BY <2>2, <2>3, <2>4, <2>6 DEF Activos
  <2> QED
    BY <2>3, <2>7, FS_AddElement DEF GradoActivo
<1>5. CASE \/ CortoInicio \/ CortoSemREADY \/ CortoElige \/ CortoDespacha
           \/ CpuLlamada \/ CpuFin
  <2>1. UNCHANGED <<Activos, GRADO_ACTUAL_MPROG>>
    BY <1>5 DEF CortoInicio, CortoSemREADY, CortoElige, CortoDespacha,
                CpuLlamada, CpuFin, Activos
  <2> QED
    BY <1>2, <2>1
<1>6. CASE \/ YieldDesaloja \/ YieldEncola \/ CortoIO \/ CortoFS
           \/ FinExit \/ FinDesaloja \/ FinMemoria
  <2>1. UNCHANGED <<Activos, GRADO_ACTUAL_MPROG>>
    BY <1>6 DEF YieldDesaloja, YieldEncola, EncolarREADY, CortoIO, CortoFS,
                FinExit, FinDesaloja, FinMemoria, Activos
  <2> QED
    BY <1>2, <2>1
<1>7. CASE FinGrado
  <2>1. r_pcb \in PROCESOS /\ EnCuenta(r_pcb) = 1
    BY <1>1, <1>7 DEF FinGrado, Atendido, EnCuenta, EnCpu, Uno
  <2>2. /\ r_pcb \notin Cola(cola_NEW)
        /\ consola[r_pcb] # "conecta" /\ r_pcb \notin finalizados
    BY <2>1, EnNuevosSolo DEF Vivo, Uno
  <2>3. Activos' = Activos \ {r_pcb} /\ r_pcb \in Activos
    BY <1>7, <2>1, <2>2 DEF FinGrado, Activos
  <2>4. GRADO_ACTUAL_MPROG' = GRADO_ACTUAL_MPROG - 1
    BY <1>7 DEF FinGrado
  <2> QED
    BY <2>3, <2>4, FS_RemoveElement DEF GradoActivo
<1>8. CASE FinResultado
  <2>1. UNCHANGED <<Activos, GRADO_ACTUAL_MPROG>>
    BY <1>8 DEF FinResultado, Activos
  <2> QED
    BY <1>2, <2>1
<1>9. ASSUME NEW p \in PROCESOS, ConsolaNEW(p)
      PROVE  GradoActivo'
  <2>1. \A q \in PROCESOS : q \in Cola(cola_NEW') <=>
                              q \in Cola(cola_NEW) \/ q = p
    <3>1. cola_NEW' = Append(cola_NEW, p) /\ cola_NEW \in Seq(PROCESOS)
      BY <1>1, <1>9 DEF ConsolaNEW, TypeOK
    <3> QED
      BY <3>1 DEF Cola
  <2>2. UNCHANGED <<Activos, GRADO_ACTUAL_MPROG>>
    BY <1>1, <1>9, <2>1 DEF ConsolaNEW, Activos, TypeOK, LugaresConsola
  <2> QED
    BY <1>2, <2>2
<1>10. ASSUME NEW p \in PROCESOS, ConsolaMemoria(p) \/ ConsolaPost(p)
       PROVE  GradoActivo'
  <2>1. UNCHANGED <<Activos, GRADO_ACTUAL_MPROG>>
    BY <1>1, <1>10 DEF ConsolaMemoria, ConsolaPost, Activos, TypeOK,
                       LugaresConsola
  <2> QED
    BY <1>2, <2>1
<1>11. ASSUME NEW p \in PROCESOS, Hilo(p)
       PROVE  GradoActivo'
  <2>1. UNCHANGED <<Activos, GRADO_ACTUAL_MPROG>>
    BY <1>11 DEF Hilo, HiloToma, HiloEncola, EncolarREADY, Activos
  <2> QED
    BY <1>2, <2>1
<1>12. CASE UNCHANGED vars
  BY <1>2, <1>12 DEF vars, Activos
<1> QED
  BY <1>3, <1>4, <1>5, <1>6, <1>7, <1>8, <1>9, <1>10, <1>11, <1>12
     DEF Next, Largo, Corto, Consola

(* The count of the degree holds in every reachable state.                 *)
THEOREM InvarianteGrado == Spec => []GradoActivo
<1>1. Init => GradoActivo
  <2> SUFFICES ASSUME Init PROVE GradoActivo
    OBVIOUS
  <2>1. Activos = {} /\ GRADO_ACTUAL_MPROG = 0
    BY DEF Init, Activos
  <2> QED
    BY <2>1, FS_EmptySet DEF GradoActivo
<1>2. Inductivo /\ Lugares /\ GradoActivo /\ [Next]_vars => GradoActivo'
  BY PasoGrado
<1> QED
  BY <1>1, <1>2, InvarianteLugares, PTL DEF Spec

(* GRADO_ACTUAL_MPROG is always the number of processes admitted and not   *)
(* yet discounted by terminar_proceso, so the unsigned integer never goes  *)
(* below zero nor above the maximum, and semaforo_mp is the room left.     *)
THEOREM GradoCuentaActivos == Spec => []GradoExacto
<1>1. Inductivo /\ GradoActivo => GradoExacto
  BY ActivosSon DEF Inductivo, TokensMp, GradoActivo, GradoExacto
<1> QED
  BY <1>1, Invariante, InvarianteGrado, PTL

-----------------------------------------------------------------------------
(* The refinement of the life cycle.                                       *)

(* The local new_pcb is only set while the thread carries the process.     *)
NuevoAca == new_pcb # NULO => largo = "encolar"

(* What the proof knows of every reachable state.                          *)
Todo == Inductivo /\ Lugares /\ GradoActivo /\ NuevoAca

(* The marks of a process that tell its state, at most one of them true    *)
(* but for the CPU and EXIT, which terminar_proceso joins for a while.     *)
EnEXIT(p) == p \in Cola(cola_EXIT)
EnREADY(p) == p \in Cola(cola_READY)
EnNEW(p) == p \in Cola(cola_NEW)
EnCola(p) == corto = "yield_encolar" /\ r_pcb = p

(* A step that leaves the marks of p as they are.                          *)
MismasMarcas(p) ==
  /\ p \in finalizados' <=> p \in finalizados
  /\ EnEXIT(p)' <=> EnEXIT(p)
  /\ RUNNING' = p <=> RUNNING = p
  /\ EnCola(p)' <=> EnCola(p)
  /\ hilo'[p] = "bloqueado" <=> hilo[p] = "bloqueado"
  /\ EnREADY(p)' <=> EnREADY(p)
  /\ EnNEW(p)' \/ new_pcb' = p <=> EnNEW(p) \/ new_pcb = p

(* Each mark excludes the others, and tells the state.                     *)
Claro(p) ==
  /\ p \in finalizados => EstadoDe(p) = "FIN"
  /\ EnEXIT(p) => EstadoDe(p) = "EXIT"
  /\ RUNNING = p /\ ~EnEXIT(p) => EstadoDe(p) = "RUNNING"
  /\ EnCola(p) => EstadoDe(p) = "RUNNING" /\ RUNNING # p
  /\ hilo[p] = "bloqueado" => EstadoDe(p) = "BLOQUEADO" /\ RUNNING # p
  /\ EnREADY(p) => EstadoDe(p) = "READY"
  /\ EnNEW(p) => EstadoDe(p) = "NEW"
  /\ new_pcb = p => EstadoDe(p) = "NEW" /\ ~EnNEW(p)
  /\ consola[p] = "conecta" => EstadoDe(p) = "ninguno"
  /\ EstadoDe(p) \in {"READY", "RUNNING", "BLOQUEADO", "EXIT", "NEW"}
       => consola[p] # "conecta" /\ p \notin finalizados

-----------------------------------------------------------------------------
(* Being in one place, a process is in one state.                          *)
LEMMA EstadoClaro == Todo => \A p \in PROCESOS : Claro(p)
<1> SUFFICES ASSUME Todo, NEW p \in PROCESOS
             PROVE  Claro(p)
  OBVIOUS
<1>1. TypeOK /\ Llegados /\ NuevoAca
  BY DEF Todo, Inductivo, Lugares
<1>2. /\ Veces(cola_NEW, p) \in Nat /\ Veces(cola_READY, p) \in Nat
      /\ Veces(cola_NEW, p) = 0 <=> ~EnNEW(p)
      /\ Veces(cola_READY, p) = 0 <=> ~EnREADY(p)
  BY <1>1, VecesFinito DEF TypeOK, EnNEW, EnREADY
<1>3. /\ EnCuenta(p) = IF RUNNING = p \/ EnEXIT(p) THEN 1 ELSE 0
      /\ EnLargo(p) = IF new_pcb = p THEN 1 ELSE 0
      /\ EnYield(p) = IF EnCola(p) THEN 1 ELSE 0
      /\ Bloqueado(p) = IF hilo[p] = "bloqueado" THEN 1 ELSE 0
      /\ Vivo(p) = IF consola[p] # "conecta" /\ p \notin finalizados
                     THEN 1 ELSE 0
  BY <1>1, SupuestoNulo
     DEF EnCuenta, EnCpu, EnEXIT, EnLargo, NuevoAca, EnYield, EnCola,
         Bloqueado, Vivo, Uno
<1>4. Veces(cola_NEW, p) + Veces(cola_READY, p) + EnCuenta(p) + EnLargo(p)
        + EnYield(p) + Bloqueado(p) = Vivo(p)
  BY DEF Todo, Lugares, UnLugar
<1>5. /\ p \in finalizados \/ consola[p] = "conecta" =>
           /\ RUNNING # p /\ ~EnEXIT(p) /\ ~EnCola(p) /\ hilo[p] # "bloqueado"
           /\ ~EnREADY(p) /\ ~EnNEW(p) /\ new_pcb # p
      /\ p \in finalizados => consola[p] # "conecta"
      /\ RUNNING = p \/ EnEXIT(p) =>
           /\ ~EnCola(p) /\ hilo[p] # "bloqueado"
           /\ ~EnREADY(p) /\ ~EnNEW(p) /\ new_pcb # p
      /\ EnCola(p) =>
           /\ hilo[p] # "bloqueado"
           /\ ~EnREADY(p) /\ ~EnNEW(p) /\ new_pcb # p
      /\ hilo[p] = "bloqueado" => ~EnREADY(p) /\ ~EnNEW(p) /\ new_pcb # p
      /\ EnREADY(p) => ~EnNEW(p) /\ new_pcb # p
      /\ EnNEW(p) => new_pcb # p
  BY <1>1, <1>2, <1>3, <1>4 DEF Llegados
<1>6. \/ p \in finalizados
      \/ EnEXIT(p)
      \/ RUNNING = p /\ ~EnEXIT(p)
      \/ EnCola(p)
      \/ hilo[p] = "bloqueado"
      \/ EnREADY(p)
      \/ EnNEW(p) \/ new_pcb = p
      \/ /\ p \notin finalizados /\ ~EnEXIT(p) /\ RUNNING # p /\ ~EnCola(p)
         /\ hilo[p] # "bloqueado" /\ ~EnREADY(p) /\ ~EnNEW(p) /\ new_pcb # p
  OBVIOUS
<1> USE <1>5 DEF EstadoDe, Claro, EnEXIT, EnREADY, EnNEW, EnCola
<1>7. CASE p \in finalizados
  BY <1>7
<1>8. CASE EnEXIT(p)
  BY <1>8
<1>9. CASE RUNNING = p /\ ~EnEXIT(p)
  BY <1>9
<1>10. CASE EnCola(p)
  BY <1>10
<1>11. CASE hilo[p] = "bloqueado"
  BY <1>11
<1>12. CASE EnREADY(p)
  BY <1>12
<1>13. CASE EnNEW(p) \/ new_pcb = p
  BY <1>13
<1>14. CASE /\ p \notin finalizados /\ ~EnEXIT(p) /\ RUNNING # p /\ ~EnCola(p)
            /\ hilo[p] # "bloqueado" /\ ~EnREADY(p) /\ ~EnNEW(p)
            /\ new_pcb # p
  BY <1>14
<1> QED
  BY <1>6, <1>7, <1>8, <1>9, <1>10, <1>11, <1>12, <1>13, <1>14

(* Who keeps its marks keeps its state.                                    *)
LEMMA MismoEstado ==
  ASSUME NEW p \in PROCESOS, MismasMarcas(p)
  PROVE  EstadoDe(p)' = EstadoDe(p)
BY DEF MismasMarcas, EstadoDe, EnEXIT, EnCola, EnREADY, EnNEW

(* list_add adds one process to those of the list.                         *)
LEMMA ColaAgregar ==
  ASSUME NEW s \in Seq(PROCESOS), NEW x \in PROCESOS
  PROVE  Cola(Append(s, x)) = Cola(s) \union {x}
<1> DEFINE t == Append(s, x)
<1>1. /\ DOMAIN s = 1..Len(s) /\ Len(s) \in Nat
      /\ DOMAIN t = 1..(Len(s) + 1)
      /\ \A i \in 1..Len(s) : t[i] = s[i]
      /\ t[Len(s) + 1] = x
  OBVIOUS
<1>2. \A i \in 1..(Len(s) + 1) : i \in 1..Len(s) \/ i = Len(s) + 1
  BY <1>1
<1> HIDE DEF t
<1>3. Cola(t) \subseteq Cola(s) \union {x}
  BY <1>1, <1>2 DEF Cola
<1>4. Cola(s) \union {x} \subseteq Cola(t)
  BY <1>1 DEF Cola
<1>5. Cola(t) = Cola(s) \union {x}
  BY <1>3, <1>4
<1> QED
  BY <1>5 DEF t

(* list_remove keeps in the list those it does not remove.                 *)
LEMMA ColaQuitar ==
  ASSUME NEW s \in Seq(PROCESOS), NEW i \in DOMAIN s, NEW q \in PROCESOS,
         q # s[i]
  PROVE  q \in Cola(SinElemento(s, i)) <=> q \in Cola(s)
<1>1. Veces(SinElemento(s, i), q) = Veces(s, q)
  BY VecesQuitar, VecesFinito DEF Uno
<1>2. SinElemento(s, i) \in Seq(PROCESOS)
  BY SinElementoTipo
<1> QED
  BY <1>1, <1>2, VecesFinito

(* Those of a list are its head and those of the rest.                     *)
LEMMA ColaCabeza ==
  ASSUME NEW s \in Seq(PROCESOS), s # <<>>
  PROVE  Cola(s) = {Head(s)} \union Cola(Tail(s))
<1>1. /\ DOMAIN s = 1..Len(s) /\ Len(s) \in Nat /\ Len(s) > 0
      /\ Head(s) = s[1]
      /\ DOMAIN Tail(s) = 1..(Len(s) - 1)
      /\ \A i \in 1..(Len(s) - 1) : Tail(s)[i] = s[i + 1]
  OBVIOUS
<1>2. ASSUME NEW i \in 1..Len(s)
      PROVE  s[i] \in {Head(s)} \union Cola(Tail(s))
  <2>1. CASE i = 1
    BY <1>1, <2>1
  <2>2. CASE i # 1
    <3>1. i - 1 \in 1..(Len(s) - 1) /\ (i - 1) + 1 = i
      BY <1>1, <2>2
    <3>2. Tail(s)[i - 1] = s[i]
      BY <1>1, <3>1
    <3> QED
      BY <1>1, <3>1, <3>2 DEF Cola
  <2> QED
    BY <2>1, <2>2
<1>3. ASSUME NEW i \in 1..(Len(s) - 1)
      PROVE  Tail(s)[i] \in Cola(s)
  <2>1. i + 1 \in 1..Len(s)
    BY <1>1
  <2> QED
    BY <1>1, <2>1 DEF Cola
<1>4. Head(s) \in Cola(s)
  BY <1>1 DEF Cola
<1>5. Cola(s) \subseteq {Head(s)} \union Cola(Tail(s))
  BY <1>1, <1>2 DEF Cola
<1>6. Cola(Tail(s)) \subseteq Cola(s)
  BY <1>1, <1>3 DEF Cola
<1> QED
  BY <1>4, <1>5, <1>6

(* One process changes its state and the others keep theirs.               *)
LEMMA Transicion ==
  ASSUME NEW p \in PROCESOS, NEW de, NEW a,
         EstadoDe(p) = de, EstadoDe(p)' = a,
         \A q \in PROCESOS : q # p => EstadoDe(q)' = EstadoDe(q)
  PROVE  Ciclo!Pasa(p, de, a)
BY DEF Ciclo!Pasa

(* Every step keeps the invariant.                                         *)
LEMMA PasoTodo == Todo /\ [Next]_vars => Todo'
<1> SUFFICES ASSUME Todo, [Next]_vars PROVE Todo'
  OBVIOUS
<1>1. Inductivo'
  BY PasoTipo, PasoManos, PasoTokens, PasoTokensNEW
     DEF Todo, Inductivo, Manos, Tokens
<1>2. Lugares'
  BY PasoLugares DEF Todo
<1>3. GradoActivo'
  BY PasoGrado DEF Todo
<1>4. NuevoAca'
  <2> USE DEF NuevoAca, Todo, colas, cuentas, cerrojos, hilos
  <2>1. CASE Largo
    BY <2>1 DEF Largo, LargoSemNEW, LargoLockNEW, LargoLockMp, LargoSemMp,
                LargoGuardia, LargoEncola
  <2>2. CASE Corto
    <3>1. UNCHANGED <<largo, new_pcb>>
      BY <2>2 DEF Corto, CortoInicio, CortoSemREADY, CortoElige,
                  CortoDespacha, CpuLlamada, CpuFin, YieldDesaloja,
                  YieldEncola, CortoIO, CortoFS, FinExit, FinGrado,
                  FinDesaloja, FinMemoria, FinResultado
    <3> QED
      BY <3>1
  <2>3. ASSUME NEW p \in PROCESOS, Consola(p) \/ Hilo(p)
        PROVE  NuevoAca'
    BY <2>3 DEF Consola, ConsolaNEW, ConsolaMemoria, ConsolaPost, Hilo,
                HiloToma, HiloEncola
  <2>4. CASE UNCHANGED vars
    BY <2>4 DEF vars
  <2> QED
    BY <2>1, <2>2, <2>3, <2>4 DEF Next
<1> QED
  BY <1>1, <1>2, <1>3, <1>4 DEF Todo

(* In the next state too each process is in one state.                     *)
LEMMA EstadoClaroLuego == Todo /\ [Next]_vars => (\A p \in PROCESOS : Claro(p))'
BY EstadoClaro, PasoTodo, PTL

(* A step of the abstract life cycle.                                      *)
Avanza == [Ciclo!Next]_([p \in PROCESOS |-> EstadoDe(p)])

(* No process changes its state: the life cycle stutters.                  *)
LEMMA Tartamudeo ==
  ASSUME \A p \in PROCESOS : EstadoDe(p)' = EstadoDe(p)
  PROVE  Avanza
BY DEF Avanza

(* The steps that move no process.                                         *)
LEMMA CicloQuieto ==
  ASSUME Todo,
         \/ LargoSemNEW \/ LargoLockNEW \/ LargoLockMp \/ LargoSemMp
         \/ CortoInicio \/ CortoSemREADY \/ CortoDespacha \/ CpuLlamada
         \/ CpuFin \/ FinGrado \/ FinMemoria
         \/ \E p \in PROCESOS : ConsolaMemoria(p) \/ ConsolaPost(p)
         \/ UNCHANGED vars
  PROVE  Avanza
<1> SUFFICES ASSUME NEW q \in PROCESOS
             PROVE  MismasMarcas(q)
  BY MismoEstado, Tartamudeo
<1>1. /\ UNCHANGED <<finalizados, cola_EXIT, RUNNING, hilo, cola_READY,
                     cola_NEW, new_pcb>>
      /\ EnCola(q)' <=> EnCola(q)
  BY DEF colas, cuentas, cerrojos, hilos, vars, EnCola,
         LargoSemNEW, LargoLockNEW, LargoLockMp, LargoSemMp, CortoInicio,
         CortoSemREADY, CortoDespacha, CpuLlamada, CpuFin, FinGrado,
         FinMemoria, ConsolaMemoria, ConsolaPost
<1> QED
  BY <1>1 DEF MismasMarcas, EnEXIT, EnREADY, EnNEW

(* A process that arrives is created.                                      *)
LEMMA CicloConsola ==
  ASSUME Todo, [Next]_vars, NEW p \in PROCESOS, ConsolaNEW(p)
  PROVE  Avanza
<1>1. \A q \in PROCESOS : Claro(q) /\ Claro(q)'
  BY EstadoClaro, EstadoClaroLuego
<1>2. /\ UNCHANGED <<finalizados, cola_EXIT, RUNNING, hilo, cola_READY,
                     new_pcb, corto, r_pcb>>
      /\ Cola(cola_NEW') = Cola(cola_NEW) \union {p}
      /\ consola[p] = "conecta"
  BY ColaAgregar DEF ConsolaNEW, Todo, Inductivo, TypeOK
<1>3. \A q \in PROCESOS : q # p => EstadoDe(q)' = EstadoDe(q)
  BY <1>2, MismoEstado DEF MismasMarcas, EnEXIT, EnREADY, EnNEW, EnCola
<1>4. EstadoDe(p) = "ninguno" /\ EstadoDe(p)' = "NEW"
  BY <1>1, <1>2 DEF Claro, EnNEW
<1>5. Ciclo!Crear(p)
  BY <1>3, <1>4, Transicion DEF Ciclo!Crear
<1> QED
  BY <1>5 DEF Avanza, Ciclo!Next

(* A process that the long-term thread takes from NEW is still in that     *)
(* state until it is in READY.                                             *)
LEMMA CicloGuardia ==
  ASSUME Todo, [Next]_vars, LargoGuardia
  PROVE  Avanza
<1>1. HayLugar /\ cola_NEW # <<>>
  BY GuardaSegura DEF LargoGuardia, GuardaRedundante, HayLugar, Todo,
                      Inductivo, TypeOK
<1>2. /\ UNCHANGED <<finalizados, cola_EXIT, RUNNING, hilo, cola_READY,
                     corto, r_pcb>>
      /\ new_pcb = NULO /\ new_pcb' = Head(cola_NEW)
      /\ cola_NEW' = Tail(cola_NEW)
  BY <1>1 DEF LargoGuardia, Todo, NuevoAca
<1>3. Cola(cola_NEW) = {new_pcb'} \union Cola(cola_NEW')
  BY <1>1, <1>2, ColaCabeza DEF Todo, Inductivo, TypeOK
<1>4. \A q \in PROCESOS : EstadoDe(q)' = EstadoDe(q)
  BY <1>2, <1>3, MismoEstado, SupuestoNulo
     DEF MismasMarcas, EnEXIT, EnREADY, EnNEW, EnCola
<1> QED
  BY <1>4, Tartamudeo

(* A process that is ready, on the CPU or blocked counts in the degree.    *)
LEMMA CuentanEnElGrado ==
  ASSUME Todo
  PROVE  Ciclo!En("READY") \union Ciclo!En("RUNNING") \union
           Ciclo!En("BLOQUEADO") \subseteq Activos
<1> SUFFICES ASSUME NEW q \in PROCESOS,
                    EstadoDe(q) \in {"READY", "RUNNING", "BLOQUEADO"}
             PROVE  q \in Activos
  BY DEF Ciclo!En
<1>1. Claro(q)
  BY EstadoClaro
<1>2. consola[q] # "conecta" /\ q \notin finalizados
  BY <1>1 DEF Claro
<1>3. q \notin Cola(cola_NEW)
  BY <1>1 DEF Claro, EnNEW
<1>4. ~(q = r_pcb /\ corto \in {"fin_desalojar", "fin_memoria",
                                "fin_resultado"})
  BY <1>1 DEF Claro, EnEXIT, Todo, Inductivo, ColaExit, Cola
<1> QED
  BY <1>2, <1>3, <1>4 DEF Activos

(* The admission: there is room for the process that enters READY, because *)
(* the degree counts it already.                                           *)
LEMMA CicloEncola ==
  ASSUME Todo, [Next]_vars, LargoEncola
  PROVE  Avanza
<1> DEFINE Dentro == Ciclo!En("READY") \union Ciclo!En("RUNNING") \union
                       Ciclo!En("BLOQUEADO")
<1>0. PICK p \in PROCESOS : p = new_pcb
  BY DEF LargoEncola, Todo, Inductivo, EnTransito
<1>1. \A q \in PROCESOS : Claro(q) /\ Claro(q)'
  BY EstadoClaro, EstadoClaroLuego
<1>2. /\ new_pcb' = NULO
      /\ UNCHANGED <<finalizados, cola_EXIT, RUNNING, hilo, cola_NEW, corto,
                     r_pcb>>
      /\ Cola(cola_READY') = Cola(cola_READY) \union {p}
  BY <1>0, ColaAgregar DEF LargoEncola, EncolarREADY, Todo, Inductivo, TypeOK,
                     EnTransito
<1>3. \A q \in PROCESOS : q # p => EstadoDe(q)' = EstadoDe(q)
  BY <1>0, <1>2, MismoEstado, SupuestoNulo
     DEF MismasMarcas, EnEXIT, EnREADY, EnNEW, EnCola
<1>4. EstadoDe(p) = "NEW" /\ EstadoDe(p)' = "READY"
  BY <1>0, <1>1, <1>2 DEF Claro, EnREADY
<1>5. p \in Activos
  <2>1. /\ consola[p] # "conecta" /\ p \notin finalizados
        /\ p \notin Cola(cola_NEW) /\ ~EnEXIT(p)
    BY <1>0, <1>1, <1>4 DEF Claro, EnNEW
  <2> QED
    BY <2>1 DEF Activos, EnEXIT, Todo, Inductivo, ColaExit, Cola
<1>6. p \notin Dentro
  BY <1>4 DEF Ciclo!En
<1>7. /\ IsFiniteSet(Activos) /\ GRADO_ACTUAL_MPROG = Cardinality(Activos)
      /\ GRADO_ACTUAL_MPROG <= GRADO_MAX_MULTIPROGRAMACION
  BY SupuestoGrado
     DEF Todo, GradoActivo, Inductivo, TokensMp, TypeOK, Uno, LargoEncola
<1>8. Cardinality(Dentro) < GRADO_MAX_MULTIPROGRAMACION
  <2>1. Dentro \union {p} \subseteq Activos /\ Dentro \subseteq Activos
    BY <1>5, CuentanEnElGrado
  <2> HIDE DEF Dentro
  <2>2. /\ IsFiniteSet(Dentro)
        /\ Cardinality(Dentro \union {p}) <= Cardinality(Activos)
    BY <1>7, <2>1, FS_Subset
  <2>3. Cardinality(Dentro \union {p}) = Cardinality(Dentro) + 1
    BY <1>6, <2>2, FS_AddElement
  <2> QED
    BY <1>7, <2>2, <2>3, SupuestoGrado, FS_CardinalityType
<1>9. Ciclo!Pasa(p, "NEW", "READY")
  BY <1>3, <1>4, Transicion
<1>10. Ciclo!Cardinality(Dentro) = Cardinality(Dentro)
  BY DEF Ciclo!Cardinality, Cardinality
<1>11. Ciclo!Admitir(p)
  BY <1>8, <1>9, <1>10 DEF Ciclo!Admitir
<1> QED
  BY <1>11 DEF Avanza, Ciclo!Next

(* The dispatch: the CPU is empty, and who is chosen was in READY.         *)
LEMMA CicloElige ==
  ASSUME Todo, [Next]_vars, CortoElige
  PROVE  Avanza
<1>1. \A q \in PROCESOS : Claro(q) /\ Claro(q)'
  BY EstadoClaro, EstadoClaroLuego
<1>2. PICK i \in DOMAIN cola_READY :
        /\ RUNNING' = cola_READY[i]
        /\ cola_READY' = SinElemento(cola_READY, i)
  BY DEF CortoElige, Elegibles
<1>3. PICK p \in PROCESOS : p = cola_READY[i]
  BY <1>2 DEF Todo, Inductivo, TypeOK
<1>4. /\ RUNNING = NULO /\ EnREADY(p)
      /\ corto = "elegir" /\ corto' = "despacho"
      /\ Cola(cola_EXIT) = {} /\ Cola(cola_EXIT') = {}
      /\ UNCHANGED <<finalizados, hilo, cola_NEW, new_pcb>>
  BY <1>3 DEF CortoElige, Todo, Inductivo, Lugares, CpuVacia, ColaExit, Cola,
              EnREADY
<1>5. \A q \in PROCESOS : q # p => EstadoDe(q)' = EstadoDe(q)
  <2> SUFFICES ASSUME NEW q \in PROCESOS, q # p
               PROVE  MismasMarcas(q)
    BY MismoEstado
  <2>1. EnREADY(q)' <=> EnREADY(q)
    BY <1>2, <1>3, ColaQuitar DEF EnREADY, Todo, Inductivo, TypeOK
  <2> QED
    BY <1>2, <1>3, <1>4, <2>1, SupuestoNulo
       DEF MismasMarcas, EnEXIT, EnNEW, EnCola
<1>6. EstadoDe(p) = "READY"
  BY <1>1, <1>4 DEF Claro
<1>7. EstadoDe(p)' = "RUNNING"
  BY <1>1, <1>2, <1>3, <1>4 DEF Claro, EnEXIT
<1>8. Ciclo!En("RUNNING") = {}
  <2> SUFFICES ASSUME NEW q \in PROCESOS, EstadoDe(q) = "RUNNING"
               PROVE  FALSE
    BY DEF Ciclo!En
  <2> QED
    BY <1>1, <1>4, SupuestoNulo DEF Claro, EnEXIT, EnCola, EnREADY, EnNEW,
                                    EstadoDe
<1>9. Ciclo!Despachar(p)
  BY <1>5, <1>6, <1>7, <1>8, Transicion DEF Ciclo!Despachar
<1> QED
  BY <1>9 DEF Avanza, Ciclo!Next

(* YIELD: the process stays RUNNING until encolar_proceso puts it in READY.*)
LEMMA CicloYield ==
  ASSUME Todo, [Next]_vars, YieldDesaloja \/ YieldEncola
  PROVE  Avanza
<1>1. \A q \in PROCESOS : Claro(q) /\ Claro(q)'
  BY EstadoClaro, EstadoClaroLuego
<1>2. PICK p \in PROCESOS : p = r_pcb
  BY DEF YieldDesaloja, YieldEncola, Todo, Inductivo, Atendido
<1>3. /\ Cola(cola_EXIT) = {} /\ Cola(cola_EXIT') = {} /\ r_pcb' = p
      /\ UNCHANGED <<finalizados, hilo, cola_NEW, new_pcb>>
  BY <1>2 DEF YieldDesaloja, YieldEncola, EncolarREADY, Todo, Inductivo,
              ColaExit, Cola, hilos
<1>4. CASE YieldDesaloja
  <2>1. /\ RUNNING = p /\ RUNNING' = NULO /\ UNCHANGED cola_READY
        /\ corto = "yield_desalojar" /\ corto' = "yield_encolar"
    BY <1>2, <1>4 DEF YieldDesaloja, Todo, Inductivo, Atendido
  <2>2. EstadoDe(p) = "RUNNING" /\ EstadoDe(p)' = "RUNNING"
    BY <1>1, <1>2, <1>3, <2>1 DEF Claro, EnEXIT, EnCola
  <2>3. \A q \in PROCESOS : q # p => EstadoDe(q)' = EstadoDe(q)
    BY <1>2, <1>3, <2>1, MismoEstado, SupuestoNulo
       DEF MismasMarcas, EnEXIT, EnREADY, EnNEW, EnCola
  <2> QED
    BY <2>2, <2>3, Tartamudeo
<1>5. CASE YieldEncola
  <2>1. /\ UNCHANGED RUNNING /\ Cola(cola_READY') = Cola(cola_READY) \union {p}
        /\ corto = "yield_encolar" /\ corto' = "inicio"
    BY <1>2, <1>5, ColaAgregar
       DEF YieldEncola, EncolarREADY, Todo, Inductivo, TypeOK
  <2>2. EstadoDe(p) = "RUNNING" /\ EstadoDe(p)' = "READY"
    BY <1>1, <1>2, <1>3, <2>1 DEF Claro, EnREADY, EnCola
  <2>3. \A q \in PROCESOS : q # p => EstadoDe(q)' = EstadoDe(q)
    BY <1>2, <1>3, <2>1, MismoEstado
       DEF MismasMarcas, EnEXIT, EnREADY, EnNEW, EnCola
  <2>4. Ciclo!Desalojar(p)
    BY <2>2, <2>3, Transicion DEF Ciclo!Desalojar
  <2> QED
    BY <2>4 DEF Avanza, Ciclo!Next
<1> QED
  BY <1>4, <1>5

(* A call that blocks: with a file operation the process is BLOQUEADO at   *)
(* once, with an I/O when its thread takes it from RUNNING.                *)
LEMMA CicloBloquea ==
  ASSUME Todo, [Next]_vars, CortoIO \/ CortoFS
  PROVE  Avanza
<1>1. \A q \in PROCESOS : Claro(q) /\ Claro(q)'
  BY EstadoClaro, EstadoClaroLuego
<1>2. PICK p \in PROCESOS : p = r_pcb
  BY DEF CortoIO, CortoFS, Todo, Inductivo, Atendido
<1>3. /\ Cola(cola_EXIT) = {} /\ Cola(cola_EXIT') = {} /\ RUNNING = p
      /\ UNCHANGED <<finalizados, cola_NEW, cola_READY, new_pcb>>
      /\ corto # "yield_encolar" /\ corto' # "yield_encolar"
      /\ hilo \in [PROCESOS -> {"no", "io_toma", "bloqueado"}]
  BY <1>2 DEF CortoIO, CortoFS, Todo, Inductivo, TypeOK, ColaExit, Cola,
              Atendido, colas
<1>4. EstadoDe(p) = "RUNNING" /\ hilo[p] # "bloqueado"
  BY <1>1, <1>3 DEF Claro, EnEXIT
<1>5. CASE CortoIO
  <2>1. UNCHANGED RUNNING /\ hilo' = [hilo EXCEPT ![p] = "io_toma"]
    BY <1>2, <1>5 DEF CortoIO, colas
  <2>2. \A q \in PROCESOS : EstadoDe(q)' = EstadoDe(q)
    BY <1>3, <1>4, <2>1, MismoEstado
       DEF MismasMarcas, EnEXIT, EnREADY, EnNEW, EnCola
  <2> QED
    BY <2>2, Tartamudeo
<1>6. CASE CortoFS
  <2>1. RUNNING' = NULO /\ hilo' = [hilo EXCEPT ![p] = "bloqueado"]
    BY <1>2, <1>6 DEF CortoFS
  <2>2. EstadoDe(p)' = "BLOQUEADO"
    BY <1>1, <1>3, <2>1 DEF Claro
  <2>3. \A q \in PROCESOS : q # p => EstadoDe(q)' = EstadoDe(q)
    BY <1>3, <2>1, MismoEstado, SupuestoNulo
       DEF MismasMarcas, EnEXIT, EnREADY, EnNEW, EnCola
  <2>4. Ciclo!Bloquear(p)
    BY <1>4, <2>2, <2>3, Transicion DEF Ciclo!Bloquear
  <2> QED
    BY <2>4 DEF Avanza, Ciclo!Next
<1> QED
  BY <1>5, <1>6

(* The thread of an I/O takes the process from RUNNING, and at the end of  *)
(* the operation puts it in READY.                                         *)
LEMMA CicloHilo ==
  ASSUME Todo, [Next]_vars, NEW p \in PROCESOS, HiloToma(p) \/ HiloEncola(p)
  PROVE  Avanza
<1>1. \A q \in PROCESOS : Claro(q) /\ Claro(q)'
  BY EstadoClaro, EstadoClaroLuego
<1>2. /\ UNCHANGED <<finalizados, cola_EXIT, cola_NEW, new_pcb, corto, r_pcb>>
      /\ hilo \in [PROCESOS -> {"no", "io_toma", "bloqueado"}]
  BY DEF HiloToma, HiloEncola, EncolarREADY, Todo, Inductivo, TypeOK
<1>3. CASE HiloToma(p)
  <2>1. /\ RUNNING = p /\ RUNNING' = NULO /\ UNCHANGED cola_READY
        /\ hilo'[p] = "bloqueado"
        /\ \A q \in PROCESOS : q # p => hilo'[q] = hilo[q]
        /\ Cola(cola_EXIT) = {}
    BY <1>2, <1>3 DEF HiloToma, Todo, Inductivo, TraspasoIO, ColaExit, Cola
  <2>2. EstadoDe(p) = "RUNNING" /\ EstadoDe(p)' = "BLOQUEADO"
    BY <1>1, <2>1 DEF Claro, EnEXIT
  <2>3. \A q \in PROCESOS : q # p => EstadoDe(q)' = EstadoDe(q)
    BY <1>2, <2>1, MismoEstado, SupuestoNulo
       DEF MismasMarcas, EnEXIT, EnREADY, EnNEW, EnCola
  <2>4. Ciclo!Bloquear(p)
    BY <2>2, <2>3, Transicion DEF Ciclo!Bloquear
  <2> QED
    BY <2>4 DEF Avanza, Ciclo!Next
<1>4. CASE HiloEncola(p)
  <2>1. /\ UNCHANGED RUNNING /\ Cola(cola_READY') = Cola(cola_READY) \union {p}
        /\ hilo[p] = "bloqueado" /\ hilo'[p] = "no"
        /\ \A q \in PROCESOS : q # p => hilo'[q] = hilo[q]
    BY <1>2, <1>4, ColaAgregar
       DEF HiloEncola, EncolarREADY, Todo, Inductivo, TypeOK
  <2>2. EstadoDe(p) = "BLOQUEADO" /\ EstadoDe(p)' = "READY"
    BY <1>1, <2>1 DEF Claro, EnREADY
  <2>3. \A q \in PROCESOS : q # p => EstadoDe(q)' = EstadoDe(q)
    BY <1>2, <2>1, MismoEstado
       DEF MismasMarcas, EnEXIT, EnREADY, EnNEW, EnCola
  <2>4. Ciclo!Desbloquear(p)
    BY <2>2, <2>3, Transicion DEF Ciclo!Desbloquear
  <2> QED
    BY <2>4 DEF Avanza, Ciclo!Next
<1> QED
  BY <1>3, <1>4

(* terminar_proceso: EXIT as soon as it is in that list, though it is      *)
(* still on the CPU, and the end when the console has the result.          *)
LEMMA CicloFin ==
  ASSUME Todo, [Next]_vars, FinExit \/ FinDesaloja \/ FinResultado
  PROVE  Avanza
<1>1. \A q \in PROCESOS : Claro(q) /\ Claro(q)'
  BY EstadoClaro, EstadoClaroLuego
<1>2. PICK p \in PROCESOS : p = r_pcb
  BY DEF FinExit, FinDesaloja, FinResultado, Todo, Inductivo, Atendido
<1>3. /\ UNCHANGED <<cola_NEW, cola_READY, hilo, new_pcb>>
      /\ corto # "yield_encolar" /\ corto' # "yield_encolar"
  BY DEF FinExit, FinDesaloja, FinResultado, colas
<1>4. CASE FinExit
  <2>1. /\ Cola(cola_EXIT) = {} /\ Cola(cola_EXIT') = {p} /\ RUNNING = p
        /\ UNCHANGED <<finalizados, RUNNING>>
    BY <1>2, <1>4, PasoTodo
       DEF FinExit, Todo, Inductivo, Atendido, ColaExit, Cola
  <2>2. EstadoDe(p) = "RUNNING" /\ EstadoDe(p)' = "EXIT"
    BY <1>1, <2>1 DEF Claro, EnEXIT
  <2>3. \A q \in PROCESOS : q # p => EstadoDe(q)' = EstadoDe(q)
    BY <1>3, <2>1, MismoEstado
       DEF MismasMarcas, EnEXIT, EnREADY, EnNEW, EnCola
  <2>4. Ciclo!Salir(p)
    BY <2>2, <2>3, Transicion DEF Ciclo!Salir
  <2> QED
    BY <2>4 DEF Avanza, Ciclo!Next
<1>5. CASE FinDesaloja
  <2>1. /\ UNCHANGED <<finalizados, cola_EXIT>> /\ Cola(cola_EXIT) = {p}
        /\ RUNNING = p /\ RUNNING' = NULO
    BY <1>2, <1>5 DEF FinDesaloja, Todo, Inductivo, Atendido, ColaExit, Cola
  <2>2. EstadoDe(p) = "EXIT" /\ EstadoDe(p)' = "EXIT"
    BY <1>1, <2>1 DEF Claro, EnEXIT
  <2>3. \A q \in PROCESOS : q # p => EstadoDe(q)' = EstadoDe(q)
    BY <1>3, <2>1, MismoEstado, SupuestoNulo
       DEF MismasMarcas, EnEXIT, EnREADY, EnNEW, EnCola
  <2> QED
    BY <2>2, <2>3, Tartamudeo
<1>6. CASE FinResultado
  <2>1. /\ finalizados' = finalizados \union {p} /\ UNCHANGED RUNNING
        /\ Cola(cola_EXIT) = {p} /\ Cola(cola_EXIT') = {}
    BY <1>2, <1>6 DEF FinResultado, Todo, Inductivo, ColaExit, Cola
  <2>2. EstadoDe(p) = "EXIT" /\ EstadoDe(p)' = "FIN"
    BY <1>1, <2>1 DEF Claro, EnEXIT
  <2>3. \A q \in PROCESOS : q # p => EstadoDe(q)' = EstadoDe(q)
    BY <1>3, <2>1, MismoEstado
       DEF MismasMarcas, EnEXIT, EnREADY, EnNEW, EnCola
  <2>4. Ciclo!Finalizar(p)
    BY <2>2, <2>3, Transicion DEF Ciclo!Finalizar
  <2> QED
    BY <2>4 DEF Avanza, Ciclo!Next
<1> QED
  BY <1>4, <1>5, <1>6

-----------------------------------------------------------------------------
(* The kernel's threads implement the life cycle: the state a process has  *)
(* in the lists changes only as loggear_cambio_estado may report, with one *)
(* process on the CPU and no admission above the degree, whatever the      *)
(* order of the consoles, the two schedulers and the blocking operations.  *)
THEOREM ImplementaCiclo == Spec => CumpleCiclo
<1>1. Init => Ciclo!Init
  BY SupuestoNulo DEF Init, Ciclo!Init, EstadoDe, Cola
<1>2. Todo /\ [Next]_vars => Avanza
  <2> SUFFICES ASSUME Todo, [Next]_vars PROVE Avanza
    OBVIOUS
  <2> QED
    BY CicloQuieto, CicloConsola, CicloGuardia, CicloEncola, CicloElige,
       CicloYield, CicloBloquea, CicloHilo, CicloFin
       DEF Next, Largo, Corto, Consola, Hilo
<1>3. Spec => []Todo
  <2>1. Init => Todo
    <3> SUFFICES ASSUME Init PROVE Todo
      OBVIOUS
    <3>1. Activos = {} /\ GRADO_ACTUAL_MPROG = 0
      BY DEF Init, Activos
    <3> QED
      BY <3>1, InicioInductivo, InicioLugares, FS_EmptySet
         DEF Init, Todo, GradoActivo, NuevoAca
  <2> QED
    BY <2>1, PasoTodo, PTL DEF Spec
<1> QED
  BY <1>1, <1>2, <1>3, PTL DEF Spec, Avanza, CumpleCiclo, Ciclo!Spec
=============================================================================
