---------------------------- MODULE RelojProofs ----------------------------
(***************************************************************************)
(* The theorems about Reloj: for any number of frames, whatever accesses   *)
(* and replacements came before, CLOCK gives a second chance and CLOCK-M   *)
(* takes the first page of the best class.                                 *)
(***************************************************************************)
EXTENDS Reloj, ReemplazoProofs

\* Whatever the accesses and the replacements, the list keeps one page per
\* frame and the pointer is one of them.
THEOREM RelojTypeCorrect == Spec => []TypeOK
<1>1. /\ MARCOS_POR_PROCESO \in Nat \ {0} /\ MARCOS_POR_PROCESO \in Nat
      /\ MARCOS_POR_PROCESO >= MARCOS_POR_PROCESO
  BY ConstantesReemplazo
<1>2. Init => TypeOK
  BY <1>1 DEF Init, TypeOK, Bits
<1>3. TypeOK /\ [Next]_varsReloj => TypeOK'
  <2> SUFFICES ASSUME TypeOK, [Next]_varsReloj PROVE TypeOK'
    OBVIOUS
  <2>1. residentes \in Listas(MARCOS_POR_PROCESO) /\ clock_pointer \in 0 .. MARCOS_POR_PROCESO - 1
    BY DEF TypeOK, Listas
  <2>2. ASSUME NEW escribe \in BOOLEAN, Reemplazar(escribe) PROVE TypeOK'
    <3> DEFINE b == ElegirVictima(ALGORITMO_REEMPLAZO, residentes, clock_pointer)
    <3>1. /\ b.lista \in Listas(MARCOS_POR_PROCESO) /\ b.victima \in 1 .. MARCOS_POR_PROCESO
          /\ b.puntero \in 0 .. MARCOS_POR_PROCESO - 1
      BY <1>1, <2>1, ElegirVictimaTipo
    <3> HIDE DEF b
    <3>2. /\ residentes' = [b.lista EXCEPT ![b.victima] = [U |-> TRUE, M |-> escribe]]
          /\ clock_pointer' = b.puntero
      BY <2>2 DEF Reemplazar, b
    <3> QED BY <3>1, <3>2 DEF TypeOK, Listas, Bits
  <2>3. ASSUME NEW escribe \in BOOLEAN, NEW i \in DOMAIN residentes,
               Acceder(i, escribe)
        PROVE  TypeOK'
    <3>1. i \in 1 .. MARCOS_POR_PROCESO /\ residentes[i].M \in BOOLEAN
      BY <2>1 DEF Listas, Bits
    <3>2. (residentes[i].M \/ escribe) \in BOOLEAN
      OBVIOUS
    <3> QED BY <2>1, <2>3, <3>1, <3>2 DEF Acceder, TypeOK, Listas, Bits
  <2>4. CASE UNCHANGED varsReloj
    BY <2>4 DEF varsReloj, TypeOK
  <2> QED BY <2>2, <2>3, <2>4 DEF Next
<1> QED BY <1>2, <1>3, PTL DEF Spec

-----------------------------------------------------------------------------
(* The textbook definitions *)

\* The least element of a set of integers.
LEMMA MinEs ==
  ASSUME NEW S \in SUBSET Int, NEW x \in S, \A y \in S : x <= y
  PROVE  Min(S) = x
<1>1. \E z \in S : \A y \in S : z <= y
  OBVIOUS
<1>2. Min(S) \in S /\ \A y \in S : Min(S) <= y
  BY <1>1 DEF Min
<1>3. Min(S) \in Int /\ x \in Int /\ Min(S) <= x /\ x <= Min(S)
  BY <1>2
<1> QED BY <1>3

\* Primera is the first page the pointer meets.
LEMMA PrimeraEs ==
  ASSUME NEW T, NEW e \in 0 .. MARCOS_POR_PROCESO - 1,
         clock_pointer \in 0 .. MARCOS_POR_PROCESO - 1,
         PrimeroEn(clock_pointer, e, T)
  PROVE  Primera(T) = Lug(clock_pointer, e)
<1> DEFINE S == {d \in 0 .. MARCOS_POR_PROCESO - 1 : Lugar(d) \in T}
<1>1. \A d : Lugar(d) = Lug(clock_pointer, d)
  BY DEF Lugar, Lug
<1>2. MARCOS_POR_PROCESO \in Nat
  BY ConstantesReemplazo
<1> HIDE DEF Lugar
<1>3. e \in S /\ \A d \in S : e <= d
  BY <1>1, <1>2 DEF PrimeroEn
<1>4. S \in SUBSET Int
  BY <1>2
<1> HIDE DEF S
<1>5. Min(S) = e
  BY <1>3, <1>4, MinEs
<1>6. Primera(T) = Lugar(Min(S))
  BY DEF Primera, S
<1> QED BY <1>1, <1>5, <1>6

\* The places from the pointer to the one e pages after it.
LEMMA Distancia ==
  ASSUME NEW p \in 0 .. MARCOS_POR_PROCESO - 1, NEW e \in 0 .. MARCOS_POR_PROCESO - 1
  PROVE  (Lug(p, e) - 1 - p) % MARCOS_POR_PROCESO = e
<1>1. MARCOS_POR_PROCESO \in Nat \ {0} /\ e \in 0 .. MARCOS_POR_PROCESO
  BY ConstantesReemplazo
<1>2. Lug(p, e) - 1 - p = e \/ Lug(p, e) - 1 - p = e - MARCOS_POR_PROCESO
  BY <1>1, UnaVuelta
<1>3. e % MARCOS_POR_PROCESO = e
  BY <1>1
<1>4. (e - MARCOS_POR_PROCESO) % MARCOS_POR_PROCESO = e
  BY <1>1
<1> QED BY <1>2, <1>3, <1>4, Zenon

\* CLOCK-M always finds a victim, the first of the best class there is.
THEOREM ClockMElMejor == Spec => []ClockMejorClase
<1>1. TypeOK => ClockMejorClase
  <2> SUFFICES ASSUME TypeOK PROVE ClockMejorClase
    OBVIOUS
  <2> DEFINE n == MARCOS_POR_PROCESO
             p == clock_pointer
             libres == {i \in 1 .. n : ~ residentes[i].U}
             limpias == {i \in 1 .. n : ~ residentes[i].M}
             clases == <<ConBits({FALSE}, {FALSE}), ConBits({FALSE}, BOOLEAN),
                         ConBits(BOOLEAN, {FALSE}), DOMAIN residentes>>
             S == {k \in 1 .. 4 : clases[k] # {}}
  <2>1. residentes \in Listas(MARCOS_POR_PROCESO) /\ p \in 0 .. n - 1
        /\ n \in Nat \ {0} /\ n \in Nat /\ n >= n
    BY ConstantesReemplazo DEF TypeOK, Listas
  <2>2. /\ ConBits({FALSE}, {FALSE}) = libres \cap limpias
        /\ ConBits({FALSE}, BOOLEAN) = libres
        /\ ConBits(BOOLEAN, {FALSE}) = limpias
        /\ DOMAIN residentes = 1 .. n
    <3>1. DOMAIN residentes = 1 .. n /\ \A i \in 1 .. n :
            residentes[i].U \in BOOLEAN /\ residentes[i].M \in BOOLEAN
      BY <2>1 DEF Listas, Bits
    <3> QED BY <3>1 DEF ConBits
  <2>0. PICK e \in 0 .. n - 1 :
          replace_with_clock_m(residentes, p).victima = Lug(p, e)
            /\ LaMejor(residentes, p, e)
    BY <2>1, ClockMForma
  <2>3. /\ replace_with_clock_m(residentes, p).victima = Lug(p, e)
        /\ \/ PrimeroEn(p, e, libres \cap limpias)
           \/ libres \cap limpias = {} /\ PrimeroEn(p, e, libres)
           \/ libres = {} /\ PrimeroEn(p, e, limpias)
           \/ libres = {} /\ limpias = {} /\ e = 0
    BY <2>0 DEF LaMejor, Libres, Limpias
  <2>4. ClockMejorClase <=>
          replace_with_clock_m(residentes, p).victima = Primera(clases[Min(S)])
    BY DEF ClockMejorClase
  <2> HIDE DEF libres, limpias, n
  <2>5. /\ clases[1] = libres \cap limpias /\ clases[2] = libres
        /\ clases[3] = limpias /\ clases[4] = 1 .. n
    BY <2>2
  <2>6. Lug(p, e) \in 1 .. n
    BY <2>1, LugaresDeUnaVuelta DEF n
  <2> HIDE DEF clases, p
  <2>7. S \in SUBSET Int
    OBVIOUS
  <2>8. ASSUME NEW k \in 1 .. 4, clases[k] # {}, \A c \in 1 .. k - 1 : clases[c] = {},
               PrimeroEn(p, e, clases[k])
        PROVE  ClockMejorClase
    <3>1. k \in S /\ \A c \in S : k <= c
      BY <2>8
    <3> HIDE DEF S
    <3>2. Min(S) = k
      BY <2>7, <3>1, MinEs
    <3>3. Primera(clases[k]) = Lug(p, e)
      BY <2>1, <2>8, PrimeraEs DEF p, n
    <3> QED BY <2>3, <2>4, <3>2, <3>3
  <2>9. CASE PrimeroEn(p, e, libres \cap limpias)
    <3>1. clases[1] # {} /\ PrimeroEn(p, e, clases[1])
      BY <2>5, <2>9 DEF PrimeroEn
    <3> QED BY <3>1, <2>8
  <2>10. CASE libres \cap limpias = {} /\ PrimeroEn(p, e, libres)
    <3>1. clases[2] # {} /\ PrimeroEn(p, e, clases[2]) /\ clases[1] = {}
      BY <2>5, <2>10 DEF PrimeroEn
    <3> QED BY <3>1, <2>8
  <2>11. CASE libres = {} /\ PrimeroEn(p, e, limpias)
    <3>1. /\ clases[3] # {} /\ PrimeroEn(p, e, clases[3])
          /\ clases[1] = {} /\ clases[2] = {}
      BY <2>5, <2>11 DEF PrimeroEn
    <3> QED BY <3>1, <2>8
  <2>12. CASE libres = {} /\ limpias = {} /\ e = 0
    <3>1. /\ clases[4] # {} /\ clases[1] = {} /\ clases[2] = {} /\ clases[3] = {}
      BY <2>1, <2>5, <2>12 DEF n
    <3>2. PrimeroEn(p, e, clases[4])
      BY <2>5, <2>6, <2>12 DEF PrimeroEn
    <3> QED BY <3>1, <3>2, <2>8
  <2> QED BY <2>3, <2>9, <2>10, <2>11, <2>12
<1>2. Spec => []TypeOK
  BY RelojTypeCorrect
<1> QED BY <1>1, <1>2, PTL

\* CLOCK replaces the first page from the pointer that is not in use, and takes
\* the use bit from those it passes and no other.
THEOREM ClockUnaVuelta == Spec => []ClockSegundaOportunidad
<1>1. TypeOK => ClockSegundaOportunidad
  <2> SUFFICES ASSUME TypeOK PROVE ClockSegundaOportunidad
    OBVIOUS
  <2> DEFINE n == MARCOS_POR_PROCESO
             p == clock_pointer
             l == residentes
             libres == ConBits({FALSE}, BOOLEAN)
             victima == IF libres = {} THEN Lugar(0) ELSE Primera(libres)
             pasadas == IF libres = {} THEN DOMAIN l
                        ELSE {Lugar(d) : d \in 0 .. ((victima - 1 - p) % n)}
             b == replace_with_clock(l, p)
  <2>1. l \in Listas(MARCOS_POR_PROCESO) /\ p \in 0 .. n - 1
        /\ n \in Nat \ {0} /\ n \in Nat /\ n >= n /\ DOMAIN l = 1 .. n
    BY ConstantesReemplazo DEF TypeOK, Listas
  <2>2. \A i \in 1 .. n : l[i] \in Bits /\ l[i].U \in BOOLEAN /\ l[i].M \in BOOLEAN
    BY <2>1 DEF Listas, Bits
  <2>3. libres = {i \in 1 .. n : ~ l[i].U}
    BY <2>1, <2>2 DEF ConBits
  <2>4. PICK e \in 0 .. n :
          (\A d \in 0 .. e - 1 : l[Lug(p, d)].U) /\ (e = n \/ ~ l[Lug(p, e)].U)
    BY <2>1, ClockHay
  <2>5. b = [lista |-> Limpia(l, p, e), puntero |-> Avanzar(Lug(p, e) - 1),
             victima |-> Lug(p, e), fin |-> TRUE]
    BY <2>1, <2>4, ClockForma
  <2>6. \A d : Lugar(d) = Lug(p, d)
    BY DEF Lugar, Lug
  <2>7. /\ \A d \in 0 .. n : Lug(p, d) \in 1 .. n
        /\ Lug(p, 0) = p + 1 /\ Lug(p, n) = p + 1
        /\ \A i \in 1 .. n : \E d \in 0 .. n - 1 : Lug(p, d) = i
    BY <2>1, LugaresDeUnaVuelta
  <2>8. ClockSegundaOportunidad <=>
          /\ b.victima = victima
          /\ b.puntero = victima % n
          /\ \A i \in DOMAIN l :
               b.lista[i] = IF i \in pasadas THEN [l[i] EXCEPT !.U = FALSE] ELSE l[i]
    BY DEF ClockSegundaOportunidad
  <2> HIDE DEF libres, Lugar, b
  <2>9. /\ victima = Lug(p, e)
        /\ \A i \in 1 .. n :
             i \in pasadas <=> (\E d \in 0 .. e - 1 : Lug(p, d) = i) \/ (e # n /\ i = Lug(p, e))
    <3>1. CASE e = n
      <4>1. libres = {}
        BY <2>3, <2>4, <2>7, <3>1
      <4> QED BY <2>1, <2>6, <2>7, <3>1, <4>1
    <3>2. CASE e # n
      <4>1. e \in 0 .. n - 1 /\ Lug(p, e) \in libres
        <5>1. Lug(p, e) \in 1 .. n
          BY <2>7
        <5>2. n \in Nat /\ e \in 0 .. n /\ e # n
          BY <2>1, <3>2
        <5>3. e \in 0 .. n - 1
          BY <5>2
        <5> QED BY <2>3, <2>4, <3>2, <5>1, <5>3
      <4>2. PrimeroEn(p, e, libres)
        BY <2>3, <2>4, <4>1 DEF PrimeroEn
      <4>3. victima = Lug(p, e)
        BY <2>1, <4>1, <4>2, PrimeraEs
      <4>4. (Lug(p, e) - 1 - p) % n = e
        BY <2>1, <4>1, Distancia
      <4>5. pasadas = {Lugar(d) : d \in 0 .. e}
        BY <4>1, <4>3, <4>4
      <4>6. \A i : i \in pasadas <=> \E d \in 0 .. e : Lug(p, d) = i
        BY <2>6, <4>5
      <4>7. \A i : (\E d \in 0 .. e : Lug(p, d) = i)
                    <=> (\E d \in 0 .. e - 1 : Lug(p, d) = i) \/ i = Lug(p, e)
        BY <4>1
      <4> HIDE DEF victima, pasadas
      <4> QED BY <3>2, <4>3, <4>6, <4>7, Zenon
    <3> QED BY <3>1, <3>2
  <2>10. Lug(p, e) \in 1 .. n
    BY <2>7
  <2>11. Avanzar(Lug(p, e) - 1) = Lug(p, e) % n
    <3>1. Lug(p, e) - 1 + 1 = Lug(p, e)
      BY <2>1, <2>10
    <3> QED BY <3>1, Zenon DEF Avanzar
  <2> HIDE DEF victima, pasadas
  <2>12. ASSUME NEW i \in 1 .. n
         PROVE  Limpia(l, p, e)[i]
                  = IF i \in pasadas THEN [l[i] EXCEPT !.U = FALSE] ELSE l[i]
    <3>1. [l[i] EXCEPT !.U = FALSE] = [U |-> FALSE, M |-> l[i].M]
      BY <2>2, QuitarUso, Zenon
    <3>2. Limpia(l, p, e)[i]
            = IF \E d \in 0 .. e - 1 : Lug(p, d) = i THEN [U |-> FALSE, M |-> l[i].M]
                                                    ELSE l[i]
      BY <2>1 DEF Limpia
    <3>3. CASE i \notin pasadas
      BY <2>9, <3>2, <3>3
    <3>4. CASE \E d \in 0 .. e - 1 : Lug(p, d) = i
      BY <2>9, <3>1, <3>2, <3>4
    <3>5. CASE e # n /\ i = Lug(p, e)
      <4>1. l[i].U = FALSE /\ l[i] = [U |-> l[i].U, M |-> l[i].M]
        BY <2>2, <2>4, <3>5, BitsEs
      <4>2. l[i] = [U |-> FALSE, M |-> l[i].M]
        BY <4>1, Zenon
      <4>3. Limpia(l, p, e)[i] = [U |-> FALSE, M |-> l[i].M]
        BY <3>2, <4>2
      <4>4. i \in pasadas
        BY <2>9, <3>5
      <4> QED BY <3>1, <4>3, <4>4, Zenon
    <3> QED BY <2>9, <3>3, <3>4, <3>5
  <2> QED BY <2>1, <2>5, <2>8, <2>9, <2>11, <2>12
<1>2. Spec => []TypeOK
  BY RelojTypeCorrect
<1> QED BY <1>1, <1>2, PTL
=============================================================================
