-------------------------- MODULE ArchivosEnTurno --------------------------
(***************************************************************************)
(* What opening and closing files promises: each file is a lock granted in *)
(* the order it was asked for, with one position that belongs to whoever   *)
(* has the lock and starts at 0 for each of them.  A process that ends     *)
(* with the lock takes it with it.                                         *)
(***************************************************************************)
EXTENDS Naturals, Sequences, SequencesExt

CONSTANTS PROCESOS, ARCHIVOS,
          NADIE,         \* the file is not open
          ENDED,         \* its owner ended without closing it
          POSICIONES     \* bound: the positions of F_SEEK

VARIABLES duenio, turnos, posicion

vars == <<duenio, turnos, posicion>>

Init ==
  /\ duenio = [f \in ARCHIVOS |-> NADIE]
  /\ turnos = [f \in ARCHIVOS |-> <<>>]
  /\ posicion = [f \in ARCHIVOS |-> 0]

Esperando(p) == \E f \in ARCHIVOS : Contains(turnos[f], p)

Tomar(p, f) ==
  /\ duenio[f] = NADIE /\ ~Esperando(p)
  /\ duenio' = [duenio EXCEPT ![f] = p]
  /\ UNCHANGED <<turnos, posicion>>

(* Also the owner waits, for itself, if it asks again.                     *)
Esperar(p, f) ==
  /\ duenio[f] # NADIE /\ ~Esperando(p)
  /\ turnos' = [turnos EXCEPT ![f] = Append(@, p)]
  /\ UNCHANGED <<duenio, posicion>>

Mover(p, f) ==
  /\ duenio[f] = p /\ ~Esperando(p)
  /\ \E n \in POSICIONES : posicion' = [posicion EXCEPT ![f] = n]
  /\ UNCHANGED <<duenio, turnos>>

Soltar(p, f) ==
  /\ duenio[f] = p /\ ~Esperando(p)
  /\ duenio' = [duenio EXCEPT ![f] =
                  IF turnos[f] = <<>> THEN NADIE ELSE Head(turnos[f])]
  /\ turnos' = [turnos EXCEPT ![f] = IF @ = <<>> THEN @ ELSE Tail(@)]
  /\ posicion' = [posicion EXCEPT ![f] = 0]

Abandonar(p) ==
  /\ ~Esperando(p)
  /\ duenio' = [f \in ARCHIVOS |-> IF duenio[f] = p THEN ENDED ELSE duenio[f]]
  /\ posicion' = [f \in ARCHIVOS |-> IF duenio[f] = p THEN 0 ELSE posicion[f]]
  /\ UNCHANGED turnos

Next ==
  \E p \in PROCESOS :
    \/ Abandonar(p)
    \/ \E f \in ARCHIVOS :
         Tomar(p, f) \/ Esperar(p, f) \/ Mover(p, f) \/ Soltar(p, f)

Spec == Init /\ [][Next]_vars
=============================================================================
