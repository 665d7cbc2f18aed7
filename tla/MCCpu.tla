-------------------------------- MODULE MCCpu --------------------------------
(***************************************************************************)
(* A small instance of Cpu: three processes, segments of up to four cells, *)
(* a register of one cell and one of two.                                  *)
(***************************************************************************)
EXTENDS Cpu, TLC

Simetria == Permutations(PROCESOS)
Anchos == "AX" :> 1 @@ "EAX" :> 2
Registros == <<"AX", "EAX">>

Set(r, v) == [op |-> "SET", reg |-> r, val |-> v]
MovIn(r, d) == [op |-> "MOV_IN", reg |-> r, dir |-> d]
MovOut(d, r) == [op |-> "MOV_OUT", reg |-> r, dir |-> d]
Crear(s, n) == [op |-> "CREATE_SEGMENT", id |-> s, tam |-> n]
Borrar(s) == [op |-> "DELETE_SEGMENT", id |-> s]
FRead(d, n) == [op |-> "F_READ", dir |-> d, cant |-> n]
FWrite(d, n) == [op |-> "F_WRITE", dir |-> d, cant |-> n]
Yield == [op |-> "YIELD"]
Exit == [op |-> "EXIT"]
Mal == [op |-> "MOVE"]

(* Segment 1 begins at 4, segment 2 at 8; a segment 3 would at 12.         *)
Programas ==
  { << Crear(1, 2), Set("AX", <<"a">>), MovOut(4, "AX"), Yield,
       MovIn("EAX", 4), Mal >>,
    << Crear(1, 2), Crear(2, 2), Borrar(1), Set("EAX", <<"a", "b">>),
       MovOut(8, "EAX"), Crear(1, 3), MovIn("AX", 9), MovIn("EAX", 4) >>,
    << Crear(1, 2), FRead(4, 2), Set("AX", <<"a", "b">>), MovOut(0, "AX"),
       MovIn("EAX", 5), Exit >>,
    << MovIn("AX", 0), Crear(2, 1), FRead(8, 2), Yield >>,
    << Crear(2, 1), FWrite(8, 1), Borrar(2), MovOut(8, "AX"), Exit >>,
    << Crear(1, 1), Set("AX", <<>>), MovIn("AX", 12), Exit >> }
=============================================================================
