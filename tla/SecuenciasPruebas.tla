-------------------------- MODULE SecuenciasPruebas --------------------------
(***************************************************************************)
(* Facts about the commons lists of the kernel and of memoria (list_add,   *)
(* list_remove, list_add_in_index and the searches by name) and about the  *)
(* loops along them, which the proofs about several components rest on.    *)
(***************************************************************************)
EXTENDS Integers, SequencesExt, SequenceTheorems, FiniteSetTheorems,
        FunctionTheorems, WellFoundedInduction, TLAPS

(* The positions of e in a list, and how many they are.                    *)
Apariciones(s, e) == {i \in DOMAIN s : s[i] = e}
CuantasVeces(s, e) == Cardinality(Apariciones(s, e))

(* A search by name in a list of structures, 0 for -1 or NULL.             *)
PorNombre(s, n) == SelectInSeq(s, LAMBDA a : a.nombre = n)

-----------------------------------------------------------------------------
(* list_remove takes one element out of a list, and the ones after it move *)
(* one place.                                                              *)
LEMMA QuitarTipo ==
  ASSUME NEW S, NEW s \in Seq(S), NEW i \in DOMAIN s
  PROVE  /\ RemoveAt(s, i) \in Seq(S)
         /\ Len(RemoveAt(s, i)) = Len(s) - 1
         /\ DOMAIN RemoveAt(s, i) = 1..(Len(s) - 1)
         /\ \A j \in 1..(Len(s) - 1) :
              RemoveAt(s, i)[j] = IF j < i THEN s[j] ELSE s[j + 1]
<1> DEFINE a == SubSeq(s, 1, i - 1)
           b == SubSeq(s, i + 1, Len(s))
           t == RemoveAt(s, i)
<1>1. i \in 1..Len(s) /\ Len(s) \in Nat
  OBVIOUS
<1>2. /\ a \in Seq(S) /\ Len(a) = i - 1
      /\ \A j \in 1..(i - 1) : a[j] = s[j]
  BY <1>1
<1>3. /\ b \in Seq(S) /\ Len(b) = Len(s) - i
      /\ \A j \in 1..(Len(s) - i) : b[j] = s[i + j]
  BY <1>1
<1>4. t = a \o b
  BY DEF RemoveAt
<1> HIDE DEF a, b, t
<1>5. /\ t \in Seq(S) /\ Len(t) = Len(a) + Len(b)
      /\ \A j \in 1..(Len(a) + Len(b)) :
           t[j] = IF j <= Len(a) THEN a[j] ELSE b[j - Len(a)]
  BY <1>2, <1>3, <1>4, ConcatProperties
<1>6. Len(t) = Len(s) - 1
  BY <1>1, <1>2, <1>3, <1>5
<1>7. DOMAIN t = 1..(Len(s) - 1)
  BY <1>5, <1>6
<1>8. ASSUME NEW j \in 1..(Len(s) - 1)
      PROVE  t[j] = IF j < i THEN s[j] ELSE s[j + 1]
  <2>1. t[j] = IF j <= i - 1 THEN a[j] ELSE b[j - (i - 1)]
    <3>1. j \in 1..(Len(a) + Len(b)) /\ Len(a) = i - 1
      BY <1>1, <1>2, <1>3
    <3> QED BY ONLY <1>5, <3>1
  <2>2. CASE j < i
    BY <1>1, <1>2, <2>1, <2>2
  <2>3. CASE j >= i
    <3>1. j - (i - 1) \in 1..(Len(s) - i) /\ i + (j - (i - 1)) = j + 1
      BY <1>1, <2>3
    <3> QED
      BY <1>1, <1>3, <2>1, <2>3, <3>1
  <2> QED
    BY <1>1, <2>2, <2>3
<1> QED
  BY <1>5, <1>6, <1>7, <1>8 DEF t

(* Taking the head of a list is taking its first element away.             *)
LEMMA ColaEsQuitar ==
  ASSUME NEW S, NEW s \in Seq(S), s # <<>>
  PROVE  1 \in DOMAIN s /\ Head(s) = s[1] /\ RemoveAt(s, 1) = Tail(s)
<1>1. 1 \in DOMAIN s /\ Head(s) = s[1]
  OBVIOUS
<1>2. SubSeq(s, 1, 1 - 1) = <<>>
  OBVIOUS
<1>3. SubSeq(s, 1 + 1, Len(s)) = Tail(s)
  OBVIOUS
<1>4. Tail(s) \in Seq(S)
  OBVIOUS
<1>5. <<>> \o Tail(s) = Tail(s)
  BY <1>4, ConcatEmptySeq
<1> QED
  BY <1>1, <1>2, <1>3, <1>5 DEF RemoveAt

(* The positions of an element in a list are finitely many.                *)
LEMMA AparicionesFinitas ==
  ASSUME NEW S, NEW s \in Seq(S), NEW e
  PROVE  /\ IsFiniteSet(Apariciones(s, e))
         /\ CuantasVeces(s, e) \in Nat
         /\ CuantasVeces(s, e) = 0 <=> \A i \in DOMAIN s : s[i] # e
<1>1. DOMAIN s = 1..Len(s) /\ Len(s) \in Nat
  OBVIOUS
<1>2. IsFiniteSet(1..Len(s))
  BY <1>1, FS_Interval
<1>3. Apariciones(s, e) \subseteq 1..Len(s)
  BY <1>1 DEF Apariciones
<1>4. IsFiniteSet(Apariciones(s, e))
  BY <1>2, <1>3, FS_Subset
<1>5. Cardinality(Apariciones(s, e)) = 0 <=> Apariciones(s, e) = {}
  BY <1>4, FS_EmptySet
<1>6. Apariciones(s, e) = {} <=> \A i \in DOMAIN s : s[i] # e
  BY DEF Apariciones
<1> QED
  BY <1>4, <1>5, <1>6, FS_CardinalityType DEF CuantasVeces

(* list_add adds one occurrence of its element and none of the others.     *)
LEMMA VecesAppend ==
  ASSUME NEW S, NEW s \in Seq(S), NEW x \in S, NEW e
  PROVE  CuantasVeces(Append(s, x), e) =
           CuantasVeces(s, e) + IF x = e THEN 1 ELSE 0
<1> DEFINE t == Append(s, x)
<1>1. t \in Seq(S) /\ Len(t) = Len(s) + 1 /\ Len(s) \in Nat
  OBVIOUS
<1>2. /\ \A i \in 1..Len(s) : t[i] = s[i]
      /\ t[Len(s) + 1] = x
      /\ DOMAIN s = 1..Len(s)
      /\ DOMAIN t = 1..(Len(s) + 1)
  BY <1>1
<1> HIDE DEF t
<1>3. CuantasVeces(s, e) \in Nat /\ IsFiniteSet(Apariciones(s, e))
  BY AparicionesFinitas
<1>4. CASE x = e
  <2>1. Apariciones(t, e) = Apariciones(s, e) \union {Len(s) + 1}
    BY <1>1, <1>2, <1>4 DEF Apariciones
  <2>2. Len(s) + 1 \notin Apariciones(s, e)
    BY <1>1, <1>2 DEF Apariciones
  <2>3. CuantasVeces(t, e) = CuantasVeces(s, e) + 1
    BY <1>3, <2>1, <2>2, FS_AddElement DEF CuantasVeces
  <2> QED
    BY <1>4, <2>3 DEF t
<1>5. CASE x # e
  <2>1. Apariciones(t, e) = Apariciones(s, e)
    BY <1>1, <1>2, <1>5 DEF Apariciones
  <2> QED
    BY <1>3, <1>5, <2>1 DEF CuantasVeces, t
<1> QED
  BY <1>4, <1>5

(* list_remove takes one occurrence away: the positions after it move down *)
(* by one.                                                                 *)
LEMMA VecesRemoveAt ==
  ASSUME NEW S, NEW s \in Seq(S), NEW i \in DOMAIN s, NEW e
  PROVE  CuantasVeces(RemoveAt(s, i), e) =
           CuantasVeces(s, e) - IF s[i] = e THEN 1 ELSE 0
<1> DEFINE t == RemoveAt(s, i)
           P == Apariciones(s, e) \ {i}
           Q == Apariciones(t, e)
           f == [j \in Q |-> IF j < i THEN j ELSE j + 1]
<1>1. Len(s) \in Nat /\ i \in 1..Len(s) /\ DOMAIN s = 1..Len(s)
  OBVIOUS
<1>2. /\ t \in Seq(S) /\ DOMAIN t = 1..(Len(s) - 1)
      /\ \A j \in 1..(Len(s) - 1) : t[j] = IF j < i THEN s[j] ELSE s[j + 1]
  BY QuitarTipo
<1> HIDE DEF t
<1>4. Q = {j \in 1..(Len(s) - 1) : t[j] = e}
  BY <1>2 DEF Apariciones
<1>5. P = {j \in 1..Len(s) : s[j] = e /\ j # i}
  BY <1>1 DEF Apariciones
<1> HIDE DEF P, Q
<1>6. f \in [Q -> P]
  <2> SUFFICES ASSUME NEW j \in Q
               PROVE  (IF j < i THEN j ELSE j + 1) \in P
    OBVIOUS
  <2> QED
    BY <1>1, <1>2, <1>4, <1>5
<1>7. \A j, k \in Q : f[j] = f[k] => j = k
  BY <1>1, <1>4
<1>8. \A j \in P : \E k \in Q : f[k] = j
  <2> TAKE j \in P
  <2>1. CASE j < i
    <3>1. j \in Q
      BY <1>1, <1>2, <1>4, <1>5, <2>1
    <3> QED
      BY <2>1, <3>1
  <2>2. CASE j > i
    <3>1. j - 1 \in Q /\ ~(j - 1 < i) /\ (j - 1) + 1 = j
      BY <1>1, <1>2, <1>4, <1>5, <2>2
    <3> QED
      BY <3>1
  <2> QED
    BY <1>1, <1>5, <2>1, <2>2
<1>9. ExistsBijection(Q, P)
  <2>1. f \in Bijection(Q, P)
    BY <1>6, <1>7, <1>8, Fun_IsBij
  <2> QED
    BY <2>1 DEF ExistsBijection
<1>10. IsFiniteSet(Apariciones(s, e)) /\ CuantasVeces(s, e) \in Nat
  BY AparicionesFinitas
<1>11. IsFiniteSet(Q)
  BY <1>2, AparicionesFinitas DEF Q
<1>12. Cardinality(P) = Cardinality(Q)
  BY <1>9, <1>11, FS_Bijection
<1>13. Cardinality(P) = IF i \in Apariciones(s, e) THEN Cardinality(Apariciones(s, e)) - 1
                                                   ELSE Cardinality(Apariciones(s, e))
  BY <1>10, FS_RemoveElement DEF P
<1>14. i \in Apariciones(s, e) <=> s[i] = e
  BY <1>1 DEF Apariciones
<1> QED
  BY <1>10, <1>12, <1>13, <1>14 DEF CuantasVeces, Q, t

(* The head of a list is one of its occurrences.                           *)
LEMMA VecesTail ==
  ASSUME NEW S, NEW s \in Seq(S), s # <<>>, NEW e
  PROVE  CuantasVeces(Tail(s), e) =
           CuantasVeces(s, e) - IF Head(s) = e THEN 1 ELSE 0
<1>1. 1 \in DOMAIN s /\ Head(s) = s[1] /\ RemoveAt(s, 1) = Tail(s)
  BY ColaEsQuitar
<1>2. CuantasVeces(RemoveAt(s, 1), e) =
        CuantasVeces(s, e) - IF s[1] = e THEN 1 ELSE 0
  BY <1>1, VecesRemoveAt
<1> QED
  BY <1>1, <1>2

-----------------------------------------------------------------------------
(* A search by name finds the first element that has the name, or nothing  *)
(* when no element has it.                                                 *)
LEMMA BusquedaPorNombre ==
  ASSUME NEW S, NEW s \in Seq(S), NEW n
  PROVE  LET i == PorNombre(s, n)
         IN  \/ i = 0 /\ \A j \in 1..Len(s) : s[j].nombre # n
             \/ /\ i \in 1..Len(s) /\ s[i].nombre = n
                /\ \A j \in 1..(i - 1) : s[j].nombre # n
<1> DEFINE I == {i \in 1..Len(s) : s[i].nombre = n}
<1>1. PorNombre(s, n) = IF I # {} THEN Min(I) ELSE 0
  BY DEF PorNombre, SelectInSeq
<1>2. Len(s) \in Nat
  OBVIOUS
<1>3. ASSUME I # {}
      PROVE  \E x \in I : \A y \in I : x <= y
  <2>1. I \subseteq Nat
    BY <1>2
  <2> DEFINE R == OpToRel(<, Nat)
  <2>2. IsWellFoundedOn(R, Nat)
    BY NatLessThanWellFounded
  <2>3. ASSUME NEW x \in Nat, NEW y \in Nat, <<y, x>> \notin R
        PROVE  x <= y
    BY <2>3 DEF OpToRel
  <2> HIDE DEF R, I
  <2>4. \E x \in I : \A y \in I : ~ (<<y, x>> \in R)
    BY <1>3, <2>1, <2>2, WFMin
  <2> QED
    BY <2>1, <2>3, <2>4
<1>4. ASSUME I # {}
      PROVE  Min(I) \in I /\ \A y \in I : Min(I) <= y
  BY <1>3, <1>4 DEF Min
<1>5. CASE I = {}
  BY <1>1, <1>5
<1>6. CASE I # {}
  <2> DEFINE i == Min(I)
  <2>1. i \in 1..Len(s) /\ s[i].nombre = n
    BY <1>4, <1>6
  <2>2. \A j \in 1..(i - 1) : s[j].nombre # n
    <3> SUFFICES ASSUME NEW j \in 1..(i - 1), s[j].nombre = n PROVE FALSE
      OBVIOUS
    <3>1. j \in I
      BY <1>2, <2>1
    <3> QED
      BY <1>2, <1>4, <1>6, <2>1, <3>1
  <2>3. PorNombre(s, n) = i
    BY <1>1, <1>6
  <2> HIDE DEF i, I
  <2> QED
    BY <2>1, <2>2, <2>3
<1> QED
  BY <1>5, <1>6

-----------------------------------------------------------------------------
(* Every set of naturals that is not empty has a least element.            *)
LEMMA Minimo ==
  ASSUME NEW T \in SUBSET Nat, T # {}
  PROVE  \E m \in T : \A k \in T : m <= k
<1> DEFINE R == OpToRel(<, Nat)
<1>1. IsWellFoundedOn(R, Nat)
  BY NatLessThanWellFounded
<1>2. \A x, y \in Nat : <<y, x>> \in R <=> y < x
  BY DEF OpToRel
<1> HIDE DEF R
<1>3. PICK x \in T : \A y \in T : ~ (<<y, x>> \in R)
  BY <1>1, WFMin
<1>4. \A y \in T : ~ (y < x)
  BY <1>2, <1>3
<1>5. \A y \in T : x <= y
  BY <1>4
<1> QED
  BY <1>5

(* Induction along the positions of a list, on the set of those that do.   *)
LEMMA Induccion ==
  ASSUME NEW N \in Nat, NEW S, 0 \in S,
         \A n \in 0..(N - 1) : n \in S => n + 1 \in S
  PROVE  \A n \in 0..N : n \in S
<1> SUFFICES ASSUME \E n \in 0..N : n \notin S PROVE FALSE
  OBVIOUS
<1> DEFINE T == {n \in 0..N : n \notin S}
<1>1. T \in SUBSET Nat /\ T # {}
  OBVIOUS
<1>2. PICK m \in T : \A k \in T : m <= k
  <2> HIDE DEF T
  <2> QED BY <1>1, Minimo
<1>3. m # 0 /\ m - 1 \in 0..(N - 1) /\ m - 1 \notin T
  BY <1>2
<1> QED
  BY <1>2, <1>3

(* The greatest of the positions up to n, among which n is.                *)
LEMMA MaximoEs ==
  ASSUME NEW s, NEW n \in s, s \in SUBSET Int, \A k \in s : k <= n
  PROVE  Max(s) = n
<1>1. \A x \in s : (\A y \in s : x >= y) => x = n
  OBVIOUS
<1>2. \E x \in s : \A y \in s : x >= y
  OBVIOUS
<1> QED
  BY <1>1, <1>2 DEF Max

(* The least of the positions from n on, among which n is.                *)
LEMMA MinimoEs ==
  ASSUME NEW s, NEW n \in s, s \in SUBSET Int, \A k \in s : n <= k
  PROVE  Min(s) = n
<1>1. \A x \in s : (\A y \in s : x =< y) => x = n
  OBVIOUS
<1>2. \E x \in s : \A y \in s : x =< y
  OBVIOUS
<1> QED
  BY <1>1, <1>2 DEF Min

(* Max of a set of positions is one of them.                               *)
LEMMA MaximoDe ==
  ASSUME NEW N \in Nat, NEW s \in SUBSET (1..N), s # {}
  PROVE  Max(s) \in s /\ \A k \in s : k <= Max(s)
<1> DEFINE T == {k \in 0..N : N - k \in s}
<1>1. T \in SUBSET Nat /\ T # {}
  <2>1. PICK k \in s : TRUE
    OBVIOUS
  <2>2. k \in 1..N /\ N - k \in 0..N /\ N - (N - k) = k
    OBVIOUS
  <2>3. N - k \in T
    BY <2>2
  <2> QED BY <2>3
<1>2. PICK m \in T : \A k \in T : m <= k
  <2> HIDE DEF T
  <2> QED BY <1>1, Minimo
<1>3. ASSUME NEW k \in s PROVE k <= N - m
  <2>1. k \in 1..N /\ N - k \in 0..N /\ N - (N - k) = k
    OBVIOUS
  <2>2. m \in 0..N /\ m <= N - k
    BY <1>2, <2>1
  <2> QED BY <2>1, <2>2
<1>4. N - m \in s /\ s \in SUBSET Int
  BY <1>2
<1>5. Max(s) = N - m
  BY <1>3, <1>4, MaximoEs
<1> QED
  BY <1>3, <1>4, <1>5

(* The positions up to n, as a fold takes the last of them away.           *)
LEMMA Hasta ==
  ASSUME NEW n \in Nat \ {0}
  PROVE  1..n # {} /\ Max(1..n) = n /\ (1..n) \ {n} = 1..(n - 1)
<1>1. Max(1..n) = n
  <2>1. n \in 1..n /\ 1..n \in SUBSET Int /\ \A k \in 1..n : k <= n
    OBVIOUS
  <2> QED BY <2>1, MaximoEs
<1> QED
  BY <1>1

(* The recursion of a fold over the positions of a list, from the last to  *)
(* the first, whose step keeps to the values T.                            *)
PasoDePliegue(it, s, b, paso) ==
  IF s = {} THEN b ELSE paso[<<Max(s), it[s \ {Max(s)}]>>]

SePliega(N, T, paso) == \A n \in 1..N, t \in T : paso[<<n, t>>] \in T
Pliegue(it, N, T, b, paso) ==
  /\ it \in [SUBSET (1..N) -> T]
  /\ \A s \in SUBSET (1..N) : it[s] = PasoDePliegue(it, s, b, paso)

(* There is a function that satisfies the recursion of a fold: the one its *)
(* definition chooses exists, and can be followed step by step.            *)
LEMMA PliegueExiste ==
  ASSUME NEW N \in Nat, NEW T, NEW b \in T, NEW paso, SePliega(N, T, paso)
  PROVE  \E it : Pliegue(it, N, T, b, paso)
<1> DEFINE Vale(it, n) ==
             \A s \in SUBSET (1..n) : it[s] = PasoDePliegue(it, s, b, paso)
           S == {n \in 0..N : \E it \in [SUBSET (1..n) -> T] : Vale(it, n)}
<1>1. 0 \in S
  <2> DEFINE it == [s \in SUBSET (1..0) |-> b]
  <2>1. it \in [SUBSET (1..0) -> T] /\ \A s \in SUBSET (1..0) : s = {}
    OBVIOUS
  <2>2. Vale(it, 0)
    BY <2>1 DEF PasoDePliegue
  <2> HIDE DEF it, Vale
  <2>3. \E kt \in [SUBSET (1..0) -> T] : Vale(kt, 0)
    BY <2>1, <2>2
  <2>4. 0 \in 0..N
    OBVIOUS
  <2> QED
    BY <2>3, <2>4
<1>2. ASSUME NEW n \in 0..(N - 1), n \in S
      PROVE  n + 1 \in S
  <2>1. PICK it \in [SUBSET (1..n) -> T] : Vale(it, n)
    BY <1>2
  <2> DEFINE m == n + 1
             jt == [s \in SUBSET (1..m) |->
                      IF m \in s THEN paso[<<m, it[s \ {m}]>>] ELSE it[s]]
  <2>2. m \in 1..N /\ m \in Nat
    OBVIOUS
  <2>3. \A s \in SUBSET (1..m) : s \ {m} \in SUBSET (1..n)
                               /\ (m \notin s => s \in SUBSET (1..n))
    OBVIOUS
  <2>4. jt \in [SUBSET (1..m) -> T]
    <3> SUFFICES ASSUME NEW s \in SUBSET (1..m) PROVE jt[s] \in T
      OBVIOUS
    <3>1. s \ {m} \in SUBSET (1..n) /\ (m \notin s => s \in SUBSET (1..n))
      BY <2>3
    <3>2. CASE m \in s
      <4>1. it[s \ {m}] \in T
        BY <3>1
      <4> QED BY <2>2, <3>2, <4>1 DEF SePliega
    <3>3. CASE m \notin s
      BY <3>1, <3>3
    <3> QED BY <3>2, <3>3
  <2>5. ASSUME NEW s \in SUBSET (1..m)
        PROVE  jt[s] = PasoDePliegue(jt, s, b, paso)
    <3>1. s \ {m} \in SUBSET (1..n) /\ (m \notin s => s \in SUBSET (1..n))
      BY <2>3
    <3>2. CASE m \in s
      <4>1. Max(s) = m
        <5>1. s \in SUBSET Int /\ \A k \in s : k <= m
          OBVIOUS
        <5> QED BY <3>2, <5>1, MaximoEs
      <4>2. s # {} /\ s \ {m} \in SUBSET (1..m) /\ m \notin s \ {m}
        BY <3>2
      <4>3. jt[s \ {m}] = it[s \ {m}]
        BY <4>2
      <4> QED
        BY <3>2, <4>1, <4>2, <4>3 DEF PasoDePliegue
    <3>3. CASE m \notin s
      <4>1. jt[s] = it[s] /\ it[s] = PasoDePliegue(it, s, b, paso)
        BY <2>1, <3>1, <3>3
      <4>2. ASSUME s # {}
            PROVE  jt[s \ {Max(s)}] = it[s \ {Max(s)}]
        <5>1. s \ {Max(s)} \in SUBSET (1..m) /\ m \notin s \ {Max(s)}
          BY <3>3
        <5> QED BY <5>1
      <4> QED
        BY <4>1, <4>2 DEF PasoDePliegue
    <3> QED BY <3>2, <3>3
  <2>6. Vale(jt, m)
    BY <2>5
  <2> HIDE DEF jt, Vale
  <2>7. \E kt \in [SUBSET (1..m) -> T] : Vale(kt, m)
    BY <2>4, <2>6
  <2>8. m \in 0..N
    BY <2>2
  <2> QED
    BY <2>7, <2>8
<1> HIDE DEF S
<1>3. \A n \in 0..N : n \in S
  BY <1>1, <1>2, Induccion
<1>4. N \in S
  BY <1>3
<1> QED
  BY <1>4 DEF S, Pliegue

(* list_add at a place of a list moves what follows one place up.          *)
LEMMA InsertarTipo ==
  ASSUME NEW S, NEW s \in Seq(S), NEW i \in 1..(Len(s) + 1), NEW x \in S
  PROVE  /\ InsertAt(s, i, x) \in Seq(S)
         /\ Len(InsertAt(s, i, x)) = Len(s) + 1
         /\ DOMAIN InsertAt(s, i, x) = 1..(Len(s) + 1)
         /\ \A j \in 1..(i - 1) : InsertAt(s, i, x)[j] = s[j]
         /\ InsertAt(s, i, x)[i] = x
         /\ \A j \in i..Len(s) : InsertAt(s, i, x)[j + 1] = s[j]
<1> DEFINE a == SubSeq(s, 1, i - 1)
           b == SubSeq(s, i, Len(s))
           t == InsertAt(s, i, x)
<1>1. Len(s) \in Nat /\ DOMAIN s = 1..Len(s)
  OBVIOUS
<1>2. /\ a \in Seq(S) /\ Len(a) = i - 1
      /\ \A j \in 1..(i - 1) : a[j] = s[j]
  BY <1>1
<1>3. /\ b \in Seq(S) /\ Len(b) = Len(s) - i + 1
      /\ \A j \in 1..(Len(s) - i + 1) : b[j] = s[i + j - 1]
  BY <1>1
<1>4. t = a \o <<x>> \o b
  BY DEF InsertAt
<1> HIDE DEF a, b, t
<1>5. PICK u : u = a \o <<x>>
  OBVIOUS
<1>6. /\ u \in Seq(S) /\ Len(u) = i
      /\ \A j \in 1..(i - 1) : u[j] = s[j]
      /\ u[i] = x
  <2>1. <<x>> \in Seq(S) /\ Len(<<x>>) = 1 /\ <<x>>[1] = x
    OBVIOUS
  <2>2. /\ u \in Seq(S) /\ Len(u) = Len(a) + 1
        /\ \A j \in 1..(Len(a) + 1) :
             u[j] = IF j <= Len(a) THEN a[j] ELSE <<x>>[j - Len(a)]
    BY <1>2, <1>5, <2>1, ConcatProperties
  <2>3. \A j \in 1..i : u[j] = IF j <= i - 1 THEN a[j] ELSE <<x>>[j - (i - 1)]
    BY <1>1, <1>2, <2>2
  <2>4. u[i] = x
    BY <1>1, <2>1, <2>3
  <2> QED
    BY <1>1, <1>2, <2>2, <2>3, <2>4
<1>7. t = u \o b
  BY <1>4, <1>5
<1>8. /\ t \in Seq(S) /\ Len(t) = Len(u) + Len(b)
      /\ \A j \in 1..(Len(u) + Len(b)) :
           t[j] = IF j <= Len(u) THEN u[j] ELSE b[j - Len(u)]
  BY <1>3, <1>6, <1>7, ConcatProperties
<1>9. Len(t) = Len(s) + 1 /\ DOMAIN t = 1..(Len(s) + 1)
  BY <1>1, <1>3, <1>6, <1>8
<1>10. \A j \in 1..(Len(s) + 1) : t[j] = IF j <= i THEN u[j] ELSE b[j - i]
  BY <1>1, <1>3, <1>6, <1>8
<1>11. ASSUME NEW j \in i..Len(s)
       PROVE  t[j + 1] = s[j]
  <2>1. j + 1 \in 1..(Len(s) + 1) /\ ~(j + 1 <= i) /\ j + 1 - i = j - i + 1
    BY <1>1
  <2>2. j - i + 1 \in 1..(Len(s) - i + 1) /\ i + (j - i + 1) - 1 = j
    BY <1>1
  <2>3. t[j + 1] = b[j + 1 - i]
    BY <1>10, <2>1
  <2>4. b[j - i + 1] = s[i + (j - i + 1) - 1]
    BY <1>3, <2>2
  <2> QED
    BY <2>1, <2>2, <2>3, <2>4
<1>12. \A j \in 1..(i - 1) : t[j] = s[j]
  BY <1>1, <1>6, <1>10
<1>13. t[i] = x
  BY <1>1, <1>6, <1>10
<1> QED
  BY <1>8, <1>9, <1>11, <1>12, <1>13 DEF t

-----------------------------------------------------------------------------
(* A recursion along positions: the first has b, and each of the others    *)
(* what paso makes of the one before.  The function that its definition    *)
(* chooses exists.                                                         *)
Sucesion(f, N, b, paso) ==
  f = [i \in 1..N |-> IF i = 1 THEN b ELSE paso[<<i, f[i - 1]>>]]

(* There is one, and its terms are of the type the step keeps.             *)
LEMMA SucesionExiste ==
  ASSUME NEW N \in Nat, NEW T, NEW b \in T, NEW paso,
         \A n \in 2..N, t \in T : paso[<<n, t>>] \in T
  PROVE  \E f \in [1..N -> T] : Sucesion(f, N, b, paso)
<1> DEFINE Vale(f, n) ==
             \A i \in 1..n : f[i] = IF i = 1 THEN b ELSE paso[<<i, f[i - 1]>>]
           S == {n \in 0..N : \E f \in [1..n -> T] : Vale(f, n)}
<1>1. 0 \in S
  <2> DEFINE f == [i \in 1..0 |-> b]
  <2>1. f \in [1..0 -> T] /\ Vale(f, 0)
    OBVIOUS
  <2>2. \E g \in [1..0 -> T] : Vale(g, 0)
    <3> HIDE DEF f, Vale
    <3> QED BY <2>1
  <2>3. 0 \in 0..N
    OBVIOUS
  <2> HIDE DEF Vale
  <2> QED
    BY <2>2, <2>3
<1>2. ASSUME NEW n \in 0..(N - 1), n \in S
      PROVE  n + 1 \in S
  <2>1. PICK f \in [1..n -> T] : Vale(f, n)
    BY <1>2
  <2> DEFINE m == n + 1
             e == IF m = 1 THEN b ELSE paso[<<m, f[n]>>]
             g == [i \in 1..m |-> IF i = m THEN e ELSE f[i]]
  <2>2. e \in T
    <3>1. CASE m = 1
      BY <3>1
    <3>2. CASE m # 1
      <4>1. m \in 2..N /\ n \in 1..n
        BY <3>2
      <4>2. f[n] \in T
        BY <4>1
      <4> QED BY <3>2, <4>1, <4>2
    <3> QED BY <3>1, <3>2
  <2>3. g \in [1..m -> T]
    <3> HIDE DEF e
    <3> QED BY <2>2
  <2>4. ASSUME NEW i \in 1..m
        PROVE  g[i] = IF i = 1 THEN b ELSE paso[<<i, g[i - 1]>>]
    <3>1. CASE i = m
      <4>1. g[i] = e
        BY <3>1
      <4>2. i # 1 => g[i - 1] = f[n]
        BY <3>1
      <4> QED BY <3>1, <4>1, <4>2
    <3>2. CASE i # m
      <4>1. i \in 1..n /\ g[i] = f[i]
        BY <3>2
      <4>2. i # 1 => g[i - 1] = f[i - 1]
        BY <3>2
      <4>3. f[i] = IF i = 1 THEN b ELSE paso[<<i, f[i - 1]>>]
        BY <2>1, <4>1
      <4> QED BY <4>1, <4>2, <4>3
    <3> QED BY <3>1, <3>2
  <2>5. Vale(g, m)
    BY <2>4
  <2>6. \E h \in [1..m -> T] : Vale(h, m)
    <3> HIDE DEF g, Vale
    <3> QED BY <2>3, <2>5
  <2>7. m \in 0..N
    OBVIOUS
  <2> QED
    BY <2>6, <2>7
<1> HIDE DEF S
<1>3. N \in S
  <2>1. \A n \in 0..N : n \in S
    BY <1>1, <1>2, Induccion
  <2> QED
    BY <2>1
<1>4. PICK f \in [1..N -> T] : Vale(f, N)
  BY <1>3 DEF S
<1>5. Sucesion(f, N, b, paso)
  BY <1>4 DEF Sucesion
<1> QED
  BY <1>5

-----------------------------------------------------------------------------
(* Two parts of a message one after the other, by position.                *)
LEMMA Pegadas ==
  ASSUME NEW V, NEW a \in Seq(V), NEW b \in Seq(V)
  PROVE  /\ a \o b \in Seq(V)
         /\ Len(a \o b) = Len(a) + Len(b)
         /\ \A j \in 1..Len(a) : (a \o b)[j] = a[j]
         /\ \A j \in 1..Len(b) : (a \o b)[Len(a) + j] = b[j]
<1>1. Len(a) \in Nat /\ Len(b) \in Nat
  OBVIOUS
<1>2. /\ a \o b \in Seq(V)
      /\ Len(a \o b) = Len(a) + Len(b)
      /\ \A j \in 1..(Len(a) + Len(b)) :
           (a \o b)[j] = IF j <= Len(a) THEN a[j] ELSE b[j - Len(a)]
  BY ConcatProperties
<1>3. \A j \in 1..Len(a) : (a \o b)[j] = a[j]
  BY <1>1, <1>2
<1>4. ASSUME NEW j \in 1..Len(b)
      PROVE  (a \o b)[Len(a) + j] = b[j]
  <2>1. /\ Len(a) + j \in 1..(Len(a) + Len(b))
        /\ ~(Len(a) + j <= Len(a)) /\ Len(a) + j - Len(a) = j
    BY <1>1
  <2> QED
    BY <1>2, <2>1
<1> QED
  BY <1>2, <1>3, <1>4

(* The part of a message that holds s after d slots.                       *)
EstaEn(m, d, s) ==
  d \in Nat /\ d + Len(s) <= Len(m) /\ \A j \in 1..Len(s) : m[d + j] = s[j]

(* What is appended leaves it where it was.                                *)
LEMMA SigueEstando ==
  ASSUME NEW V, NEW t \in Seq(V), NEW u \in Seq(V), Len(t) <= Len(u),
         \A j \in 1..Len(t) : u[j] = t[j], NEW s \in Seq(V), NEW d, EstaEn(t, d, s)
  PROVE  EstaEn(u, d, s)
<1>1. /\ d \in Nat /\ d + Len(s) <= Len(t) /\ Len(s) \in Nat
      /\ Len(t) \in Nat /\ Len(u) \in Nat
  BY DEF EstaEn
<1>2. ASSUME NEW j \in 1..Len(s) PROVE u[d + j] = s[j]
  <2>1. d + j \in 1..Len(t)
    BY <1>1
  <2>2. t[d + j] = s[j]
    BY DEF EstaEn
  <2> QED BY <2>1, <2>2
<1> QED BY <1>1, <1>2 DEF EstaEn

(* The part is what SubSeq cuts.                                           *)
LEMMA Tramo ==
  ASSUME NEW V, NEW m \in Seq(V), NEW s \in Seq(V), NEW d, EstaEn(m, d, s)
  PROVE  SubSeq(m, d + 1, d + Len(s)) = s
<1>1. Len(s) \in Nat /\ Len(m) \in Nat /\ d \in Nat
  BY DEF EstaEn
<1>2. PICK a \in Int, c \in Int : a = d + 1 /\ c = d + Len(s)
  BY <1>1
<1>3. PICK t : t = SubSeq(m, a, c)
  OBVIOUS
<1>4. /\ t \in Seq(V)
      /\ Len(t) = IF a <= c THEN c - a + 1 ELSE 0
      /\ \A j \in 1..(c - a + 1) : t[j] = m[a + j - 1]
  <2>1. \A j \in a..c : m[j] \in V
    BY <1>1, <1>2 DEF EstaEn
  <2> QED
    BY ONLY <1>3, <2>1, a \in Int, c \in Int, SubSeqProperties
<1>5. Len(t) = Len(s) /\ c - a + 1 = Len(s)
  BY <1>1, <1>2, <1>4
<1>6. ASSUME NEW j \in 1..Len(s) PROVE t[j] = s[j]
  <2>1. a + j - 1 = d + j
    BY <1>1, <1>2
  <2>2. m[d + j] = s[j]
    BY DEF EstaEn
  <2>3. t[j] = m[a + j - 1]
    BY <1>4, <1>5
  <2> QED
    BY <2>1, <2>2, <2>3
<1>7. t = s
  BY <1>4, <1>5, <1>6, SeqEqual
<1> QED
  BY <1>2, <1>3, <1>7

(* A part of a part is a part; what is added after leaves it where it is.  *)
LEMMA TramoDeTramo ==
  ASSUME NEW V, NEW m \in Seq(V), NEW t \in Seq(V), NEW s \in Seq(V),
         NEW d, NEW e, EstaEn(m, d, t), EstaEn(t, e, s)
  PROVE  EstaEn(m, d + e, s)
<1>1. /\ Len(s) \in Nat /\ Len(t) \in Nat /\ Len(m) \in Nat
      /\ d \in Nat /\ e \in Nat /\ e + Len(s) <= Len(t) /\ d + Len(t) <= Len(m)
      /\ \A j \in 1..Len(t) : m[d + j] = t[j]
      /\ \A j \in 1..Len(s) : t[e + j] = s[j]
  BY DEF EstaEn
<1>2. ASSUME NEW j \in 1..Len(s) PROVE m[d + e + j] = s[j]
  <2>1. e + j \in 1..Len(t) /\ d + (e + j) = d + e + j
    BY <1>1
  <2>2. m[d + (e + j)] = t[e + j]
    BY <1>1, <2>1
  <2> QED BY <1>1, <2>1, <2>2
<1>3. d + e \in Nat /\ d + e + Len(s) <= Len(m)
  BY <1>1
<1> QED
  BY <1>2, <1>3 DEF EstaEn

(* What is glued starts where the first part ends, and moves nothing.      *)
LEMMA TramoPegado ==
  ASSUME NEW V, NEW a \in Seq(V), NEW b \in Seq(V)
  PROVE  /\ a \o b \in Seq(V) /\ Len(a \o b) = Len(a) + Len(b)
         /\ EstaEn(a \o b, Len(a), b)
         /\ \A d : \A s \in Seq(V) : EstaEn(a, d, s) => EstaEn(a \o b, d, s)
<1>1. PICK m : m = a \o b
  OBVIOUS
<1>2. /\ Len(a) \in Nat /\ Len(b) \in Nat
      /\ m \in Seq(V) /\ Len(m) = Len(a) + Len(b)
      /\ \A j \in 1..Len(a) : m[j] = a[j]
      /\ \A j \in 1..Len(b) : m[Len(a) + j] = b[j]
  BY <1>1, Pegadas
<1>3. EstaEn(m, Len(a), b)
  BY <1>2 DEF EstaEn
<1>4. EstaEn(m, 0, a)
  <2>1. \A j \in 1..Len(a) : 0 + j = j
    BY <1>2
  <2> QED BY <1>2, <2>1 DEF EstaEn
<1>5. ASSUME NEW s \in Seq(V), NEW d, EstaEn(a, d, s)
      PROVE  EstaEn(m, d, s)
  <2>1. EstaEn(m, 0 + d, s)
    BY <1>2, <1>4, <1>5, TramoDeTramo
  <2>2. d \in Nat /\ 0 + d = d
    BY <1>5 DEF EstaEn
  <2> QED BY <2>1, <2>2
<1> QED
  BY <1>1, <1>2, <1>3, <1>5

(* A list of parts one after the other: part i starts after o[i] slots.    *)
LEMMA Aplanada ==
  ASSUME NEW V, NEW ss \in Seq(Seq(V)), NEW o \in [1..(Len(ss) + 1) -> Nat],
         o[1] = 0, \A i \in 1..Len(ss) : o[i + 1] = o[i] + Len(ss[i])
  PROVE  /\ FlattenSeq(ss) \in Seq(V)
         /\ Len(FlattenSeq(ss)) = o[Len(ss) + 1]
         /\ \A i \in 1..Len(ss) : EstaEn(FlattenSeq(ss), o[i], ss[i])
<1> DEFINE N == Len(ss)
<1>1. N \in Nat /\ \A i \in 1..N : ss[i] \in Seq(V) /\ Len(ss[i]) \in Nat
  OBVIOUS
<1>2. CASE N = 0
  <2>1. ss = <<>> /\ <<>> \in Seq(V) /\ Len(<<>>) = 0
    BY <1>2
  <2>2. FlattenSeq(ss) = <<>>
    BY <1>2, <2>1 DEF FlattenSeq
  <2>3. o[Len(ss) + 1] = 0 /\ 1..Len(ss) = {}
    BY <1>2
  <2> QED
    BY <2>1, <2>2, <2>3
<1>3. CASE N # 0
  <2> DEFINE G(f) == f = [i \in 1..N |-> IF i = 1 THEN ss[i]
                                         ELSE f[i - 1] \o ss[i]]
             paso == [x \in (2..N) \X Seq(V) |-> x[2] \o ss[x[1]]]
  <2>1. \E f : G(f)
    <3>1. \A n \in 2..N, t \in Seq(V) : paso[<<n, t>>] \in Seq(V)
      <4> TAKE n \in 2..N, t \in Seq(V)
      <4>1. <<n, t>> \in (2..N) \X Seq(V) /\ n \in 1..N
        BY <1>1
      <4>2. t \o ss[n] \in Seq(V)
        BY <1>1, <4>1, Pegadas
      <4>3. paso[<<n, t>>] = t \o ss[n]
        BY <4>1
      <4> QED BY <4>2, <4>3
    <3>2. ss[1] \in Seq(V)
      BY <1>1, <1>3
    <3>3. PICK f \in [1..N -> Seq(V)] : Sucesion(f, N, ss[1], paso)
      <4> HIDE DEF paso, N
      <4> QED BY <1>1, <3>1, <3>2, SucesionExiste
    <3>4. \A i \in 1..N : i # 1 => paso[<<i, f[i - 1]>>] = f[i - 1] \o ss[i]
      <4> TAKE i \in 1..N
      <4> HAVE i # 1
      <4>1. i \in 2..N /\ i - 1 \in 1..N
        OBVIOUS
      <4>2. <<i, f[i - 1]>> \in (2..N) \X Seq(V)
        BY <4>1
      <4> QED BY <4>2
    <3>5. G(f)
      <4> HIDE DEF paso, N
      <4> QED BY <3>3, <3>4 DEF Sucesion
    <3> QED BY <3>5
  <2>2. PICK f : G(f) /\ FlattenSeq(ss) = f[N]
    <3>1. G(CHOOSE f : G(f))
      <4> HIDE DEF G
      <4> QED BY <2>1
    <3>2. FlattenSeq(ss) = (CHOOSE f : G(f))[N]
      BY <1>3 DEF FlattenSeq
    <3> HIDE DEF G
    <3> QED BY <3>1, <3>2
  <2>3. \A i \in 1..N : f[i] = IF i = 1 THEN ss[i] ELSE f[i - 1] \o ss[i]
    BY <2>2
  <2> HIDE DEF G, paso
  <2> DEFINE Bien(t, i) == /\ t \in Seq(V) /\ Len(t) = o[i + 1]
                           /\ \A k \in 1..i : EstaEn(t, o[k], ss[k])
             S == {n \in 0..(N - 1) : Bien(f[n + 1], n + 1)}
  <2>4. 0 \in S
    <3>1. f[1] = ss[1] /\ 1 \in 1..N
      BY <1>1, <1>3, <2>3
    <3>2. o[2] = Len(ss[1])
      <4>1. o[1 + 1] = o[1] + Len(ss[1])
        BY <3>1
      <4> QED BY <1>1, <3>1, <4>1
    <3>3. EstaEn(ss[1], o[1], ss[1])
      <4>1. \A j \in 1..Len(ss[1]) : 0 + j = j
        BY <1>1, <3>1
      <4> QED BY <1>1, <3>1, <4>1 DEF EstaEn
    <3>4. Bien(f[1], 1)
      BY <1>1, <3>1, <3>2, <3>3
    <3> HIDE DEF Bien
    <3> QED BY <1>1, <1>3, <3>4
  <2>5. ASSUME NEW n \in 0..(N - 1 - 1), n \in S
        PROVE  n + 1 \in S
    <3> DEFINE i == n + 1
               t == f[i]
    <3>1. i \in 1..N /\ i + 1 \in 1..N /\ i + 1 # 1 /\ i + 1 - 1 = i
      BY <1>1
    <3>2. Bien(t, i)
      BY <2>5
    <3>3. f[i + 1] = t \o ss[i + 1]
      <4>1. PICK k \in 1..N : k = i + 1
        BY <3>1
      <4>2. f[k] = IF k = 1 THEN ss[k] ELSE f[k - 1] \o ss[k]
        BY <2>3
      <4>3. k # 1 /\ k - 1 = i
        BY <3>1, <4>1
      <4>4. f[k] = f[k - 1] \o ss[k]
        BY <4>2, <4>3
      <4> HIDE DEF i, N
      <4> QED BY ONLY <4>1, <4>3, <4>4
    <3>4. /\ ss[i + 1] \in Seq(V) /\ Len(ss[i + 1]) \in Nat
          /\ o[i + 1] \in Nat /\ o[i + 1 + 1] = o[i + 1] + Len(ss[i + 1])
      <4>1. i + 1 \in 1..(Len(ss) + 1)
        BY <1>1
      <4> HIDE DEF i
      <4> QED BY <1>1, <3>1, <4>1
    <3> HIDE DEF t
    <3>5. PICK u : u = t \o ss[i + 1]
      OBVIOUS
    <3>6. /\ u \in Seq(V) /\ Len(u) = Len(t) + Len(ss[i + 1])
          /\ \A j \in 1..Len(t) : u[j] = t[j]
          /\ \A j \in 1..Len(ss[i + 1]) : u[Len(t) + j] = ss[i + 1][j]
      <4>1. t \in Seq(V) /\ ss[i + 1] \in Seq(V)
        BY <3>2, <3>4
      <4> QED BY ONLY <3>5, <4>1, Pegadas
    <3>7. EstaEn(u, o[i + 1], ss[i + 1])
      BY <3>2, <3>4, <3>6 DEF EstaEn
    <3>8. ASSUME NEW k \in 1..i PROVE EstaEn(u, o[k], ss[k])
      <4>1. k \in 1..Len(ss) /\ ss[k] \in Seq(V)
        BY <1>1, <3>1
      <4>2. t \in Seq(V) /\ EstaEn(t, o[k], ss[k])
        BY <3>2
      <4>3. Len(u) >= Len(t)
        BY <3>4, <3>6, <4>2
      <4> QED BY ONLY <3>6, <4>1, <4>2, <4>3, SigueEstando
    <3>9. ASSUME NEW k \in 1..(i + 1) PROVE EstaEn(u, o[k], ss[k])
      <4>1. k = i + 1 \/ k \in 1..i
        BY <3>1
      <4> QED BY <3>7, <3>8, <4>1
    <3>10. Bien(u, i + 1)
      BY <3>2, <3>4, <3>6, <3>9
    <3>11. f[n + 1 + 1] = u /\ n + 1 \in 0..(N - 1)
      BY <3>1, <3>3, <3>5
    <3> HIDE DEF Bien
    <3> QED BY <3>10, <3>11
  <2> HIDE DEF S
  <2>6. N - 1 \in S
    <3>1. N - 1 \in Nat
      BY <1>1, <1>3
    <3>2. \A n \in 0..(N - 1) : n \in S
      <4> HIDE DEF N
      <4> QED BY <2>4, <2>5, <3>1, Induccion
    <3> QED BY <3>1, <3>2
  <2>7. Bien(f[N], N)
    <3>1. N - 1 + 1 = N
      BY <1>1
    <3>2. Bien(f[N - 1 + 1], N - 1 + 1)
      BY <2>6 DEF S
    <3> HIDE DEF Bien, N
    <3> QED BY <3>1, <3>2
  <2> QED
    BY <2>2, <2>7
<1> QED
  BY <1>2, <1>3
-----------------------------------------------------------------------------
(* Induction on the subsets of a finite set: one element less at a time.   *)
LEMMA InduccionConjuntos ==
  ASSUME NEW S, IsFiniteSet(S), NEW B \in SUBSET SUBSET S, {} \in B,
         \A s \in SUBSET S : s # {} /\ (\A x \in s : s \ {x} \in B) => s \in B
  PROVE  \A s \in SUBSET S : s \in B
<1> DEFINE N == Cardinality(S)
           T == {n \in 0..N : \A s \in SUBSET S : Cardinality(s) = n => s \in B}
<1>1. N \in Nat
  BY FS_CardinalityType
<1>2. \A s \in SUBSET S : IsFiniteSet(s) /\ Cardinality(s) \in 0..N
  <2> SUFFICES ASSUME NEW s \in SUBSET S
               PROVE  IsFiniteSet(s) /\ Cardinality(s) \in 0..N
    OBVIOUS
  <2>1. IsFiniteSet(s) /\ Cardinality(s) <= N
    BY FS_Subset
  <2>2. Cardinality(s) \in Nat
    BY <2>1, FS_CardinalityType
  <2> QED BY <1>1, <2>1, <2>2
<1>3. 0 \in T
  BY <1>1, <1>2, FS_EmptySet
<1>4. ASSUME NEW n \in 0..(N - 1), n \in T
      PROVE  n + 1 \in T
  <2>1. ASSUME NEW s \in SUBSET S, Cardinality(s) = n + 1
        PROVE  s \in B
    <3>1. s # {}
      <4>1. Cardinality(s) # 0 /\ Cardinality({}) = 0
        BY <1>1, <2>1, FS_EmptySet
      <4> QED BY <4>1
    <3>2. ASSUME NEW x \in s PROVE s \ {x} \in B
      <4>1. Cardinality(s \ {x}) = Cardinality(s) - 1
        BY <1>2, FS_RemoveElement
      <4>2. Cardinality(s \ {x}) = n /\ s \ {x} \in SUBSET S
        BY <2>1, <4>1
      <4> QED BY <1>4, <4>2
    <3> QED BY <3>1, <3>2
  <2> QED BY <1>1, <2>1
<1> HIDE DEF T
<1>5. \A n \in 0..N : n \in T
  BY <1>1, <1>3, <1>4, Induccion
<1> QED
  BY <1>2, <1>5 DEF T

(* The recursion of a sum over a finite set, whose elements ch takes one   *)
(* after another.                                                          *)
Elige(ch, S) == \A s \in SUBSET S : s # {} => ch[s] \in s
PasoDeSuma(it, s, f, ch) == IF s = {} THEN 0 ELSE f[ch[s]] + it[s \ {ch[s]}]
EsSuma(it, f, S, ch) ==
  /\ it \in [SUBSET S -> Int]
  /\ \A s \in SUBSET S : it[s] = PasoDeSuma(it, s, f, ch)

(* There is a function that satisfies that recursion.                      *)
LEMMA SumaExiste ==
  ASSUME NEW S, IsFiniteSet(S), NEW f \in [S -> Int], NEW ch, Elige(ch, S)
  PROVE  \E it : EsSuma(it, f, S, ch)
<1> DEFINE N == Cardinality(S)
           Vale(it, n) == \A s \in SUBSET S :
                            Cardinality(s) <= n => it[s] = PasoDeSuma(it, s, f, ch)
           T == {n \in 0..N : \E it \in [SUBSET S -> Int] : Vale(it, n)}
<1>1. N \in Nat
  BY FS_CardinalityType
<1>2. \A s \in SUBSET S : Cardinality(s) \in 0..N
  <2> SUFFICES ASSUME NEW s \in SUBSET S PROVE Cardinality(s) \in 0..N
    OBVIOUS
  <2>1. IsFiniteSet(s) /\ Cardinality(s) <= N
    BY FS_Subset
  <2>2. Cardinality(s) \in Nat
    BY <2>1, FS_CardinalityType
  <2> QED BY <1>1, <2>1, <2>2
<1>3. \A s \in SUBSET S : s # {} =>
        /\ ch[s] \in s /\ f[ch[s]] \in Int /\ s \ {ch[s]} \in SUBSET S
        /\ Cardinality(s \ {ch[s]}) = Cardinality(s) - 1
  <2> SUFFICES ASSUME NEW s \in SUBSET S, s # {}
               PROVE  /\ ch[s] \in s /\ f[ch[s]] \in Int
                      /\ s \ {ch[s]} \in SUBSET S
                      /\ Cardinality(s \ {ch[s]}) = Cardinality(s) - 1
    OBVIOUS
  <2>1. ch[s] \in s
    BY DEF Elige
  <2>2. IsFiniteSet(s)
    BY FS_Subset
  <2>3. Cardinality(s \ {ch[s]}) = Cardinality(s) - 1
    BY <2>1, <2>2, FS_RemoveElement
  <2> QED BY <2>1, <2>3
<1>4. 0 \in T
  <2> DEFINE it == [s \in SUBSET S |-> 0]
  <2>1. ASSUME NEW s \in SUBSET S, Cardinality(s) <= 0
        PROVE  it[s] = PasoDeSuma(it, s, f, ch)
    <3>1. IsFiniteSet(s) /\ Cardinality(s) = 0
      BY <1>1, <1>2, <2>1, FS_Subset
    <3>2. s = {}
      BY <3>1, FS_EmptySet
    <3> QED BY <3>2 DEF PasoDeSuma
  <2>2. it \in [SUBSET S -> Int] /\ Vale(it, 0)
    BY <2>1
  <2>3. 0 \in 0..N
    BY <1>1
  <2> HIDE DEF it, Vale
  <2> QED BY <2>2, <2>3
<1>5. ASSUME NEW n \in 0..(N - 1), n \in T
      PROVE  n + 1 \in T
  <2>1. PICK it \in [SUBSET S -> Int] : Vale(it, n)
    BY <1>5
  <2> DEFINE jt == [s \in SUBSET S |-> IF Cardinality(s) = n + 1
                                         THEN PasoDeSuma(it, s, f, ch) ELSE it[s]]
  <2>2. jt \in [SUBSET S -> Int]
    <3> SUFFICES ASSUME NEW s \in SUBSET S
                 PROVE  PasoDeSuma(it, s, f, ch) \in Int
      OBVIOUS
    <3>1. CASE s = {}
      BY <3>1 DEF PasoDeSuma
    <3>2. CASE s # {}
      <4>1. f[ch[s]] \in Int /\ it[s \ {ch[s]}] \in Int
        BY <1>3, <3>2
      <4> QED BY <3>2, <4>1 DEF PasoDeSuma
    <3> QED BY <3>1, <3>2
  <2>3. ASSUME NEW s \in SUBSET S, Cardinality(s) <= n + 1
        PROVE  jt[s] = PasoDeSuma(jt, s, f, ch)
    <3>1. jt[s] = PasoDeSuma(it, s, f, ch)
      <4>1. Cardinality(s) = n + 1 \/ Cardinality(s) <= n
        BY <1>1, <1>2, <2>3
      <4>2. CASE Cardinality(s) = n + 1
        BY <4>2
      <4>3. CASE Cardinality(s) <= n
        <5>1. it[s] = PasoDeSuma(it, s, f, ch) /\ Cardinality(s) # n + 1
          BY <1>2, <2>1, <4>3
        <5> QED BY <5>1
      <4> QED BY <4>1, <4>2, <4>3
    <3>2. ASSUME s # {} PROVE jt[s \ {ch[s]}] = it[s \ {ch[s]}]
      <4>1. s \ {ch[s]} \in SUBSET S /\ Cardinality(s \ {ch[s]}) # n + 1
        BY <1>1, <1>2, <1>3, <2>3, <3>2
      <4> QED BY <4>1
    <3> HIDE DEF jt
    <3> QED BY <3>1, <3>2 DEF PasoDeSuma
  <2> HIDE DEF jt
  <2>4. Vale(jt, n + 1)
    BY <2>3
  <2>5. n + 1 \in 0..N
    BY <1>1
  <2> HIDE DEF Vale
  <2> QED BY <2>2, <2>4, <2>5
<1> HIDE DEF T
<1>6. N \in T
  <2>1. \A n \in 0..N : n \in T
    <3> HIDE DEF N
    <3> QED BY <1>1, <1>4, <1>5, Induccion
  <2> QED BY <1>1, <2>1
<1>7. PICK it \in [SUBSET S -> Int] : Vale(it, N)
  BY <1>6 DEF T
<1>8. \A s \in SUBSET S : it[s] = PasoDeSuma(it, s, f, ch)
  BY <1>1, <1>2, <1>7
<1> QED
  BY <1>8 DEF EsSuma

(* Any element may be taken first.                                         *)
LEMMA SumaEs ==
  ASSUME NEW S, IsFiniteSet(S), NEW f \in [S -> Int], NEW ch, Elige(ch, S),
         NEW it, EsSuma(it, f, S, ch)
  PROVE  /\ it[{}] = 0
         /\ \A s \in SUBSET S : \A x \in s : it[s] = f[x] + it[s \ {x}]
<1> DEFINE B == {s \in SUBSET S : \A x \in s : it[s] = f[x] + it[s \ {x}]}
<1>1. {} \in B
  OBVIOUS
<1>2. ASSUME NEW s \in SUBSET S, s # {}, \A x \in s : s \ {x} \in B
      PROVE  s \in B
  <2>1. PICK c : c = ch[s]
    OBVIOUS
  <2>2. c \in s /\ it[s] = f[c] + it[s \ {c}]
    BY <1>2, <2>1 DEF Elige, EsSuma, PasoDeSuma
  <2>3. ASSUME NEW x \in s PROVE it[s] = f[x] + it[s \ {x}]
    <3>1. CASE x = c
      BY <2>2, <3>1
    <3>2. CASE x # c
      <4>1. x \in s \ {c} /\ c \in s \ {x}
        BY <2>2, <3>2
      <4>2. it[s \ {c}] = f[x] + it[(s \ {c}) \ {x}]
        BY <1>2, <2>2, <4>1
      <4>3. it[s \ {x}] = f[c] + it[(s \ {x}) \ {c}]
        BY <1>2, <4>1
      <4>4. PICK u \in SUBSET S : u = (s \ {c}) \ {x} /\ u = (s \ {x}) \ {c}
        OBVIOUS
      <4>5. f[x] \in Int /\ f[c] \in Int /\ it[u] \in Int
        BY <2>2 DEF EsSuma
      <4>6. it[s \ {c}] = f[x] + it[u] /\ it[s \ {x}] = f[c] + it[u]
        BY <4>2, <4>3, <4>4
      <4> QED BY <2>2, <4>5, <4>6
    <3> QED BY <3>1, <3>2
  <2> QED BY <2>3
<1> HIDE DEF B
<1>3. \A s \in SUBSET S : s \in B
  <2>1. B \in SUBSET SUBSET S
    BY DEF B
  <2> QED BY <1>1, <1>2, <2>1, InduccionConjuntos
<1>4. it[{}] = 0
  BY DEF EsSuma, PasoDeSuma
<1> QED
  BY <1>3, <1>4 DEF B

(* Where one function is never greater than another, neither is its sum.   *)
LEMMA SumaMenor ==
  ASSUME NEW S, IsFiniteSet(S), NEW f \in [S -> Int], NEW g \in [S -> Int],
         NEW ch, Elige(ch, S), NEW it, EsSuma(it, f, S, ch),
         NEW jt, EsSuma(jt, g, S, ch), \A x \in S : g[x] <= f[x]
  PROVE  jt[S] <= it[S]
<1> DEFINE B == {s \in SUBSET S : jt[s] <= it[s]}
<1>1. /\ it[{}] = 0 /\ jt[{}] = 0
      /\ \A s \in SUBSET S : \A x \in s : it[s] = f[x] + it[s \ {x}]
      /\ \A s \in SUBSET S : \A x \in s : jt[s] = g[x] + jt[s \ {x}]
  BY SumaEs
<1>2. {} \in B
  BY <1>1
<1>3. ASSUME NEW s \in SUBSET S, s # {}, \A x \in s : s \ {x} \in B
      PROVE  s \in B
  <2>1. PICK x \in s : TRUE
    BY <1>3
  <2>2. it[s] = f[x] + it[s \ {x}] /\ jt[s] = g[x] + jt[s \ {x}]
    BY <1>1
  <2>3. jt[s \ {x}] <= it[s \ {x}]
    BY <1>3
  <2>4. /\ f[x] \in Int /\ g[x] \in Int /\ g[x] <= f[x]
        /\ it[s \ {x}] \in Int /\ jt[s \ {x}] \in Int
    BY DEF EsSuma
  <2>5. jt[s] <= it[s]
    BY <2>2, <2>3, <2>4
  <2> QED BY <2>5
<1> HIDE DEF B
<1>4. S \in B
  <2>1. B \in SUBSET SUBSET S
    BY DEF B
  <2>2. \A s \in SUBSET S : s \in B
    BY <1>2, <1>3, <2>1, InduccionConjuntos
  <2> QED BY <2>2
<1> QED
  BY <1>4 DEF B

(* Where one function is one less than another on W alone, its sum is less *)
(* by the size of W.                                                       *)
LEMMA SumaDifiere ==
  ASSUME NEW S, IsFiniteSet(S), NEW f \in [S -> Int], NEW g \in [S -> Int],
         NEW ch, Elige(ch, S), NEW it, EsSuma(it, f, S, ch),
         NEW jt, EsSuma(jt, g, S, ch), NEW W \in SUBSET S,
         \A x \in S : g[x] = f[x] - (IF x \in W THEN 1 ELSE 0)
  PROVE  jt[S] = it[S] - Cardinality(W)
<1> DEFINE B == {s \in SUBSET S : jt[s] = it[s] - Cardinality(W \intersect s)}
<1>1. /\ it[{}] = 0 /\ jt[{}] = 0
      /\ \A s \in SUBSET S : \A x \in s : it[s] = f[x] + it[s \ {x}]
      /\ \A s \in SUBSET S : \A x \in s : jt[s] = g[x] + jt[s \ {x}]
  BY SumaEs
<1>2. {} \in B
  <2>1. W \intersect {} = {}
    OBVIOUS
  <2>2. Cardinality({}) = 0
    BY FS_EmptySet
  <2> QED BY <1>1, <2>1, <2>2
<1>3. ASSUME NEW s \in SUBSET S, s # {}, \A x \in s : s \ {x} \in B
      PROVE  s \in B
  <2>1. PICK x \in s : TRUE
    BY <1>3
  <2>2. it[s] = f[x] + it[s \ {x}] /\ jt[s] = g[x] + jt[s \ {x}]
    BY <1>1
  <2>3. jt[s \ {x}] = it[s \ {x}] - Cardinality(W \intersect (s \ {x}))
    BY <1>3
  <2>4. PICK v \in SUBSET S : v = W \intersect s
    OBVIOUS
  <2>5. IsFiniteSet(v) /\ W \intersect (s \ {x}) = v \ {x}
    BY <2>4, FS_Subset
  <2>6. /\ Cardinality(v) \in Nat
        /\ Cardinality(v \ {x}) = IF x \in v THEN Cardinality(v) - 1
                                             ELSE Cardinality(v)
    BY <2>5, FS_RemoveElement, FS_CardinalityType
  <2>7. x \in v <=> x \in W
    BY <2>4
  <2>8. /\ f[x] \in Int /\ g[x] = f[x] - (IF x \in W THEN 1 ELSE 0)
        /\ it[s \ {x}] \in Int
    BY DEF EsSuma
  <2>9. jt[s \ {x}] = it[s \ {x}] - Cardinality(v \ {x})
    BY <2>3, <2>5
  <2>10. jt[s] = it[s] - Cardinality(v)
    BY <2>2, <2>6, <2>7, <2>8, <2>9
  <2> QED BY <2>4, <2>10
<1> HIDE DEF B
<1>4. S \in B
  <2>1. B \in SUBSET SUBSET S
    BY DEF B
  <2>2. \A s \in SUBSET S : s \in B
    BY <1>2, <1>3, <2>1, InduccionConjuntos
  <2> QED BY <2>2
<1>5. W \intersect S = W
  OBVIOUS
<1> QED
  BY <1>4, <1>5 DEF B

(* One more or one less of one element changes the sum by one.             *)
LEMMA SumaDeUno ==
  ASSUME NEW S, IsFiniteSet(S), NEW f \in [S -> Int], NEW g \in [S -> Int],
         NEW ch, Elige(ch, S), NEW a \in S,
         \A x \in S : x # a => g[x] = f[x]
  PROVE  /\ g[a] = f[a] - 1 => \A it : EsSuma(it, f, S, ch) =>
              \E jt : EsSuma(jt, g, S, ch) /\ jt[S] = it[S] - 1
         /\ g[a] = f[a] + 1 => \A it : EsSuma(it, f, S, ch) =>
              \E jt : EsSuma(jt, g, S, ch) /\ jt[S] = it[S] + 1
<1>1. PICK jt : EsSuma(jt, g, S, ch)
  BY SumaExiste
<1>2. {a} \in SUBSET S /\ Cardinality({a}) = 1
  BY FS_Singleton
<1>3. \A x \in S : f[x] \in Int /\ g[x] \in Int
  OBVIOUS
<1>4. ASSUME g[a] = f[a] - 1, NEW it, EsSuma(it, f, S, ch)
      PROVE  jt[S] = it[S] - 1
  <2>1. \A x \in S : g[x] = f[x] - (IF x \in {a} THEN 1 ELSE 0)
    BY <1>3, <1>4
  <2>2. jt[S] = it[S] - Cardinality({a})
    BY <1>1, <1>2, <1>4, <2>1, SumaDifiere
  <2> QED BY <1>2, <2>2
<1>5. ASSUME g[a] = f[a] + 1, NEW it, EsSuma(it, f, S, ch)
      PROVE  jt[S] = it[S] + 1
  <2>1. \A x \in S : f[x] = g[x] - (IF x \in {a} THEN 1 ELSE 0)
    BY <1>3, <1>5
  <2>2. it[S] = jt[S] - Cardinality({a})
    BY <1>1, <1>2, <1>5, <2>1, SumaDifiere
  <2>3. it[S] \in Int /\ jt[S] \in Int
    BY <1>1, <1>5 DEF EsSuma
  <2> QED BY <1>2, <2>2, <2>3
<1> QED
  BY <1>1, <1>4, <1>5
=============================================================================
