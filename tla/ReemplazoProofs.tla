-------------------------- MODULE ReemplazoProofs --------------------------
(***************************************************************************)
(* What CLOCK and CLOCK-M compute, for any number of frames, any bits and  *)
(* any position of the pointer.  Their loops are functions defined by      *)
(* recursion: that such a function exists, and what it returns, is proved  *)
(* by induction on the steps.                                              *)
(***************************************************************************)
EXTENDS Reemplazo, WellFoundedInduction, TLAPS

-----------------------------------------------------------------------------
(* Induction and recursion on naturals *)

\* A non-empty set of naturals has a least element.
LEMMA MenorNatural ==
  ASSUME NEW T \in SUBSET Nat, T # {}
  PROVE  \E x \in T : \A y \in T : x <= y
<1> DEFINE R == {ss \in Nat \X Nat : ss[1] < ss[2]}
<1>1. IsWellFoundedOn(R, Nat)
  BY NatLessThanWellFounded DEF OpToRel
<1> HIDE DEF R
<1>2. PICK x \in T : \A y \in T : ~ (<<y, x>> \in R)
  BY <1>1, WFMin
<1>3. \A y \in T : ~(y < x)
  BY <1>2 DEF R
<1> QED BY <1>3

\* A set of the naturals up to n that has 0 and the successors of its members
\* has them all.
LEMMA InduccionHasta ==
  ASSUME NEW n \in Nat, NEW S, 0 \in S, \A k \in 0 .. n - 1 : k \in S => k + 1 \in S
  PROVE  \A k \in 0 .. n : k \in S
<1> DEFINE T == {k \in 0 .. n : k \notin S}
<1> SUFFICES ASSUME T # {} PROVE FALSE
  OBVIOUS
<1>0. T \in SUBSET Nat
  OBVIOUS
<1> HIDE DEF T
<1>1. PICK x \in T : \A y \in T : x <= y
  BY <1>0, MenorNatural
<1>2. x - 1 \in 0 .. n - 1 /\ x - 1 \notin T
  BY <1>1 DEF T
<1> QED BY <1>1, <1>2 DEF T

\* g has the values of the function F repeated n times from a.
Itera(g, V, a, F, n) ==
  /\ g \in [0 .. n -> V]
  /\ g[0] = a
  /\ \A k \in 1 .. n : g[k] = F[g[k - 1]]

\* A function can be applied any number of times.
LEMMA Iteracion ==
  ASSUME NEW V, NEW a \in V, NEW F \in [V -> V], NEW n \in Nat
  PROVE  \E g : Itera(g, V, a, F, n)
<1> DEFINE Es(g, m) == g[0] = a /\ \A k \in 1 .. m : g[k] = F[g[k - 1]]
           S == {m \in 0 .. n : \E g \in [0 .. m -> V] : Es(g, m)}
<1>1. 0 \in S
  <2> DEFINE g0 == [k \in 0 .. 0 |-> a]
  <2>1. g0 \in [0 .. 0 -> V]
    OBVIOUS
  <2>2. Es(g0, 0)
    OBVIOUS
  <2>3. \E g \in [0 .. 0 -> V] : Es(g, 0)
    BY <2>1, <2>2
  <2> QED BY <2>3
<1>2. ASSUME NEW m \in 0 .. n - 1, m \in S
      PROVE  m + 1 \in S
  <2>1. PICK g \in [0 .. m -> V] : Es(g, m)
    BY <1>2
  <2> DEFINE h == [k \in 0 .. m + 1 |-> IF k <= m THEN g[k] ELSE F[g[m]]]
  <2>2. h \in [0 .. m + 1 -> V]
    OBVIOUS
  <2>3. h[0] = a
    BY <2>1
  <2>4. ASSUME NEW k \in 1 .. m + 1 PROVE h[k] = F[h[k - 1]]
    <3>1. CASE k <= m
      <4>1. h[k] = g[k] /\ h[k - 1] = g[k - 1] /\ k \in 1 .. m
        BY <3>1
      <4> QED BY <4>1, <2>1
    <3>2. CASE k = m + 1
      <4>1. h[k] = F[g[m]] /\ h[k - 1] = g[m]
        BY <3>2
      <4> QED BY <4>1
    <3> QED BY <3>1, <3>2
  <2>5. \E f \in [0 .. m + 1 -> V] : Es(f, m + 1)
    <3>1. Es(h, m + 1)
      BY <2>3, <2>4
    <3> QED BY <2>2, <3>1
  <2> QED BY <2>5
<1> HIDE DEF S
<1>3. n \in S
  BY <1>1, <1>2, InduccionHasta
<1> QED BY <1>3 DEF S, Itera

-----------------------------------------------------------------------------
(* Places after the pointer *)

\* The place d pages after the pointer p, from 1.
Lug(p, d) == ((p + d) % MARCOS_POR_PROCESO) + 1

\* The remainder, over at most one turn.
LEMMA Resto ==
  ASSUME NEW n \in Nat \ {0}, NEW x \in 0 .. 2 * n - 1
  PROVE  x % n = IF x < n THEN x ELSE x - n
<1>1. CASE x < n
  BY <1>1
<1>2. CASE x >= n
  <2>1. x - n \in 0 .. n - 1
    BY <1>2
  <2>2. \A y \in 0 .. n - 1 : (y + n) % n = y
    OBVIOUS
  <2>3. ((x - n) + n) % n = x - n
    BY <2>1, <2>2
  <2>4. (x - n) + n = x
    OBVIOUS
  <2> QED BY <1>2, <2>3, <2>4
<1> QED BY <1>1, <1>2

\* A turn without remainders.
LEMMA UnaVuelta ==
  ASSUME NEW p \in 0 .. MARCOS_POR_PROCESO - 1, NEW d \in 0 .. MARCOS_POR_PROCESO
  PROVE  Lug(p, d) = IF p + d < MARCOS_POR_PROCESO
                     THEN p + d + 1 ELSE p + d + 1 - MARCOS_POR_PROCESO
<1>1. MARCOS_POR_PROCESO \in Nat \ {0} /\ p + d \in 0 .. 2 * MARCOS_POR_PROCESO - 1
  BY ConstantesReemplazo
<1>2. (p + d) % MARCOS_POR_PROCESO
        = IF p + d < MARCOS_POR_PROCESO THEN p + d ELSE p + d - MARCOS_POR_PROCESO
  <2>1. PICK x \in 0 .. 2 * MARCOS_POR_PROCESO - 1 : x = p + d
    BY <1>1
  <2>2. x % MARCOS_POR_PROCESO
          = IF x < MARCOS_POR_PROCESO THEN x ELSE x - MARCOS_POR_PROCESO
    BY <1>1, Resto
  <2> QED BY <1>1, <2>1, <2>2
<1>3. CASE p + d < MARCOS_POR_PROCESO
  <2>1. (p + d) % MARCOS_POR_PROCESO = p + d
    BY <1>2, <1>3
  <2> QED BY <2>1, <1>3 DEF Lug
<1>4. CASE ~(p + d < MARCOS_POR_PROCESO)
  <2>1. (p + d) % MARCOS_POR_PROCESO = p + d - MARCOS_POR_PROCESO
    BY <1>2, <1>4
  <2>2. Lug(p, d) = p + d - MARCOS_POR_PROCESO + 1
    BY <2>1 DEF Lug
  <2> QED BY <2>2, <1>1, <1>4
<1> QED BY <1>3, <1>4

\* The pointer moves on by one place, or back to the first.
LEMMA AvanzarEs ==
  ASSUME NEW q \in 0 .. MARCOS_POR_PROCESO - 1
  PROVE  /\ Avanzar(q) = IF q + 1 < MARCOS_POR_PROCESO THEN q + 1 ELSE 0
         /\ Avanzar(q) \in 0 .. MARCOS_POR_PROCESO - 1
<1>1. MARCOS_POR_PROCESO \in Nat \ {0} /\ q + 1 \in 0 .. 2 * MARCOS_POR_PROCESO - 1
  BY ConstantesReemplazo
<1>2. (q + 1) % MARCOS_POR_PROCESO
        = IF q + 1 < MARCOS_POR_PROCESO THEN q + 1 ELSE q + 1 - MARCOS_POR_PROCESO
  <2>1. PICK x \in 0 .. 2 * MARCOS_POR_PROCESO - 1 : x = q + 1
    BY <1>1
  <2>2. x % MARCOS_POR_PROCESO
          = IF x < MARCOS_POR_PROCESO THEN x ELSE x - MARCOS_POR_PROCESO
    BY <1>1, Resto
  <2> QED BY <1>1, <2>1, <2>2
<1>3. Avanzar(q) = IF q + 1 < MARCOS_POR_PROCESO THEN q + 1 ELSE q + 1 - MARCOS_POR_PROCESO
  BY <1>2 DEF Avanzar
<1> QED BY <1>1, <1>3

\* A turn starts at the pointer, goes from a place to the next, meets each
\* place once and all of them, and ends where it started.
LEMMA LugaresDeUnaVuelta ==
  ASSUME NEW p \in 0 .. MARCOS_POR_PROCESO - 1
  PROVE  /\ Lug(p, 0) = p + 1 /\ Lug(p, MARCOS_POR_PROCESO) = p + 1
         /\ \A d \in 0 .. MARCOS_POR_PROCESO : Lug(p, d) \in 1 .. MARCOS_POR_PROCESO
         /\ \A d \in 0 .. MARCOS_POR_PROCESO - 1 :
              Avanzar(Lug(p, d) - 1) = Lug(p, d + 1) - 1
         /\ \A d, e \in 0 .. MARCOS_POR_PROCESO - 1 : Lug(p, d) = Lug(p, e) => d = e
         /\ \A i \in 1 .. MARCOS_POR_PROCESO :
              \E d \in 0 .. MARCOS_POR_PROCESO - 1 : Lug(p, d) = i
<1>1. MARCOS_POR_PROCESO \in Nat \ {0}
  BY ConstantesReemplazo
<1>2. \A d \in 0 .. MARCOS_POR_PROCESO :
        Lug(p, d) = IF p + d < MARCOS_POR_PROCESO
                    THEN p + d + 1 ELSE p + d + 1 - MARCOS_POR_PROCESO
  BY UnaVuelta
<1>3. Lug(p, 0) = p + 1 /\ Lug(p, MARCOS_POR_PROCESO) = p + 1
  BY <1>1, <1>2
<1>4. \A d \in 0 .. MARCOS_POR_PROCESO : Lug(p, d) \in 1 .. MARCOS_POR_PROCESO
  BY <1>1, <1>2
<1>5. ASSUME NEW d \in 0 .. MARCOS_POR_PROCESO - 1
      PROVE  Avanzar(Lug(p, d) - 1) = Lug(p, d + 1) - 1
  <2>1. d \in 0 .. MARCOS_POR_PROCESO /\ d + 1 \in 0 .. MARCOS_POR_PROCESO
    BY <1>1
  <2>2. Lug(p, d) - 1 \in 0 .. MARCOS_POR_PROCESO - 1
    BY <1>1, <1>4, <2>1
  <2>3. Avanzar(Lug(p, d) - 1)
          = IF Lug(p, d) - 1 + 1 < MARCOS_POR_PROCESO THEN Lug(p, d) - 1 + 1 ELSE 0
    BY <2>2, AvanzarEs
  <2> QED BY <1>1, <1>2, <2>1, <2>3
<1>6. \A d, e \in 0 .. MARCOS_POR_PROCESO - 1 : Lug(p, d) = Lug(p, e) => d = e
  BY <1>1, <1>2
<1>7. ASSUME NEW i \in 1 .. MARCOS_POR_PROCESO
      PROVE  \E d \in 0 .. MARCOS_POR_PROCESO - 1 : Lug(p, d) = i
  <2> DEFINE e == IF i - 1 >= p THEN i - 1 - p ELSE i - 1 - p + MARCOS_POR_PROCESO
  <2>1. e \in 0 .. MARCOS_POR_PROCESO - 1 /\ e \in 0 .. MARCOS_POR_PROCESO
    BY <1>1
  <2>2. Lug(p, e) = IF p + e < MARCOS_POR_PROCESO
                    THEN p + e + 1 ELSE p + e + 1 - MARCOS_POR_PROCESO
    BY <2>1, <1>2
  <2>3. Lug(p, e) = i
    BY <1>1, <2>1, <2>2
  <2> QED BY <2>1, <2>3
<1> QED BY <1>3, <1>4, <1>5, <1>6, <1>7
-----------------------------------------------------------------------------
(* CLOCK *)

\* A list has L pages, at least as many as the frames of a process.
Listas(L) == [1 .. L -> Bits]

Busquedas(L) == [lista : Listas(L), puntero : 0 .. MARCOS_POR_PROCESO - 1,
                 victima : 0 .. MARCOS_POR_PROCESO, fin : BOOLEAN]

\* The list after its first k pages from p have lost their use bit.
Limpia(l, p, k) ==
  [i \in DOMAIN l |->
     IF \E d \in 0 .. k - 1 : Lug(p, d) = i THEN [U |-> FALSE, M |-> l[i].M]
                                             ELSE l[i]]

\* A record of two bits is its two bits.
LEMMA BitsEs ==
  ASSUME NEW r \in Bits
  PROVE  r = [U |-> r.U, M |-> r.M]
  BY DEF Bits

\* Clearing the use bit leaves M.
LEMMA QuitarUso ==
  ASSUME NEW r \in Bits
  PROVE  [r EXCEPT !.U = FALSE] = [U |-> FALSE, M |-> r.M]
<1> DEFINE q == [r EXCEPT !.U = FALSE]
<1>1. q \in Bits /\ q.M = r.M
  BY DEF Bits
<1>2. q.U = FALSE
  BY DEF Bits
<1> HIDE DEF q
<1>3. q = [U |-> FALSE, M |-> r.M]
  BY <1>1, <1>2, BitsEs
<1> QED BY <1>3 DEF q

\* Only the use bit of a page is cleared.
LEMMA SinUsoEs ==
  ASSUME NEW L \in Nat, L >= MARCOS_POR_PROCESO,
         NEW l \in Listas(L), NEW i \in 1 .. MARCOS_POR_PROCESO
  PROVE  /\ SinUso(l, i) = [j \in 1 .. L |->
                              IF j = i THEN [U |-> FALSE, M |-> l[j].M] ELSE l[j]]
         /\ SinUso(l, i) \in Listas(L)
<1>1. i \in 1 .. L /\ l[i] \in Bits
  BY ConstantesReemplazo DEF Listas
<1>2. [l[i] EXCEPT !.U = FALSE] = [U |-> FALSE, M |-> l[i].M]
  BY <1>1, QuitarUso, Zenon
<1>3. SinUso(l, i) = [l EXCEPT ![i] = [U |-> FALSE, M |-> l[i].M]]
  BY <1>2, Zenon DEF SinUso
<1>4. SinUso(l, i) \in Listas(L)
  BY <1>1, <1>3 DEF Listas, Bits
<1> QED BY <1>3, <1>4 DEF Listas

\* One page more is cleared.
LEMMA LimpiaMas ==
  ASSUME NEW L \in Nat, L >= MARCOS_POR_PROCESO,
         NEW l \in Listas(L), NEW p \in 0 .. MARCOS_POR_PROCESO - 1,
         NEW k \in 0 .. MARCOS_POR_PROCESO - 1
  PROVE  /\ Limpia(l, p, k) \in Listas(L)
         /\ Limpia(l, p, k)[Lug(p, k)] = l[Lug(p, k)]
         /\ Limpia(l, p, k + 1) = SinUso(Limpia(l, p, k), Lug(p, k))
<1>1. Limpia(l, p, k) \in Listas(L)
  BY DEF Limpia, Listas, Bits
<1>2. k \in 0 .. MARCOS_POR_PROCESO /\ MARCOS_POR_PROCESO \in Nat \ {0}
  BY ConstantesReemplazo
<1>3. Lug(p, k) \in 1 .. MARCOS_POR_PROCESO /\ Lug(p, k) \in 1 .. L
  BY <1>2, LugaresDeUnaVuelta
<1>4. \A d \in 0 .. k - 1 : Lug(p, d) # Lug(p, k)
  BY <1>2, LugaresDeUnaVuelta
<1>0. DOMAIN l = 1 .. L
  BY DEF Listas
<1>5. Limpia(l, p, k)[Lug(p, k)] = l[Lug(p, k)]
  BY <1>0, <1>3, <1>4 DEF Limpia
<1>6. SinUso(Limpia(l, p, k), Lug(p, k))
        = [j \in 1 .. L |->
             IF j = Lug(p, k) THEN [U |-> FALSE, M |-> Limpia(l, p, k)[j].M]
                              ELSE Limpia(l, p, k)[j]]
  BY <1>1, <1>3, SinUsoEs
<1>7. ASSUME NEW j \in 1 .. L
      PROVE  Limpia(l, p, k + 1)[j]
               = IF j = Lug(p, k) THEN [U |-> FALSE, M |-> Limpia(l, p, k)[j].M]
                                  ELSE Limpia(l, p, k)[j]
  <2>1. Limpia(l, p, k)[j].M = l[j].M
    BY <1>0 DEF Limpia
  <2>2. (\E d \in 0 .. k + 1 - 1 : Lug(p, d) = j)
          <=> (j = Lug(p, k) \/ \E d \in 0 .. k - 1 : Lug(p, d) = j)
    BY <1>2
  <2>3. CASE j = Lug(p, k)
    BY <1>0, <2>1, <2>2, <2>3 DEF Limpia
  <2>4. CASE j # Lug(p, k)
    BY <1>0, <2>2, <2>4 DEF Limpia
  <2> QED BY <2>3, <2>4
<1>8. Limpia(l, p, k + 1)
        = [j \in 1 .. L |-> Limpia(l, p, k + 1)[j]]
  BY <1>0 DEF Limpia
<1> QED BY <1>1, <1>5, <1>6, <1>7, <1>8

\* A whole turn clears every page the pointer takes; none, no page.
LEMMA LimpiaExtremos ==
  ASSUME NEW L \in Nat, L >= MARCOS_POR_PROCESO,
         NEW l \in Listas(L), NEW p \in 0 .. MARCOS_POR_PROCESO - 1
  PROVE  /\ Limpia(l, p, 0) = l
         /\ \A i \in 1 .. MARCOS_POR_PROCESO :
              /\ ~ Limpia(l, p, MARCOS_POR_PROCESO)[i].U
              /\ Limpia(l, p, MARCOS_POR_PROCESO)[i].M = l[i].M
         /\ Limpia(l, p, MARCOS_POR_PROCESO) \in Listas(L)
<1>1. Limpia(l, p, 0) = l
  BY DEF Limpia, Listas
<1>2. \A i \in 1 .. MARCOS_POR_PROCESO :
        \E d \in 0 .. MARCOS_POR_PROCESO - 1 : Lug(p, d) = i
  BY LugaresDeUnaVuelta
<1>0. DOMAIN l = 1 .. L /\ 1 .. MARCOS_POR_PROCESO \subseteq 1 .. L
  BY ConstantesReemplazo DEF Listas
<1>3. \A i \in 1 .. MARCOS_POR_PROCESO :
        /\ ~ Limpia(l, p, MARCOS_POR_PROCESO)[i].U
        /\ Limpia(l, p, MARCOS_POR_PROCESO)[i].M = l[i].M
  BY <1>0, <1>2 DEF Limpia
<1>4. Limpia(l, p, MARCOS_POR_PROCESO) \in Listas(L)
  BY DEF Limpia, Listas, Bits
<1> QED BY <1>1, <1>3, <1>4

\* A step of CLOCK keeps the types.
LEMMA PasoClockTipo ==
  ASSUME NEW L \in Nat, L >= MARCOS_POR_PROCESO,
         NEW s \in Busquedas(L)
  PROVE  PasoClock(s) \in Busquedas(L)
<1>1. /\ s.puntero + 1 \in 1 .. MARCOS_POR_PROCESO /\ s.puntero + 1 \in 1 .. L
      /\ s.puntero + 1 \in 0 .. MARCOS_POR_PROCESO
      /\ s.puntero \in 0 .. MARCOS_POR_PROCESO - 1 /\ s.lista \in Listas(L)
      /\ 0 \in 0 .. MARCOS_POR_PROCESO
  BY ConstantesReemplazo DEF Busquedas
<1>2. Avanzar(s.puntero) \in 0 .. MARCOS_POR_PROCESO - 1
  BY <1>1, AvanzarEs
<1>3. SinUso(s.lista, s.puntero + 1) \in Listas(L)
  BY <1>1, SinUsoEs
<1>4. s.lista[s.puntero + 1].U \in BOOLEAN
  BY <1>1 DEF Listas, Bits
<1> QED BY <1>1, <1>2, <1>3, <1>4 DEF PasoClock, Busquedas

\* The loop of CLOCK is defined for every list and pointer.
LEMMA BucleClock ==
  ASSUME NEW L \in Nat, L >= MARCOS_POR_PROCESO,
         NEW l \in Listas(L), NEW p \in 0 .. MARCOS_POR_PROCESO - 1
  PROVE  \E f :
           /\ replace_with_clock(l, p) = f[MARCOS_POR_PROCESO + 1]
           /\ f[0] = Busqueda(l, p)
           /\ \A k \in 1 .. MARCOS_POR_PROCESO + 1 :
                f[k] = IF f[k - 1].fin THEN f[k - 1] ELSE PasoClock(f[k - 1])
<1> DEFINE F == [s \in Busquedas(L) |-> IF s.fin THEN s ELSE PasoClock(s)]
           a == Busqueda(l, p)
           n == MARCOS_POR_PROCESO + 1
           Tras(f) == [k \in 0 .. n |->
                         IF k = 0 THEN a
                         ELSE IF f[k - 1].fin THEN f[k - 1] ELSE PasoClock(f[k - 1])]
<1>1. n \in Nat /\ a \in Busquedas(L) /\ F \in [Busquedas(L) -> Busquedas(L)]
  BY ConstantesReemplazo, PasoClockTipo DEF Busqueda, Busquedas
<1>2. \E f : f = Tras(f)
  <2> HIDE DEF F, a, n
  <2>0. PICK g : Itera(g, Busquedas(L), a, F, n)
    BY <1>1, Iteracion, Zenon
  <2>1. /\ g \in [0 .. n -> Busquedas(L)] /\ g[0] = a
        /\ \A k \in 1 .. n : g[k] = F[g[k - 1]]
    BY <2>0 DEF Itera
  <2>2. ASSUME NEW k \in 1 .. n
        PROVE  g[k] = IF g[k - 1].fin THEN g[k - 1] ELSE PasoClock(g[k - 1])
    <3>1. k - 1 \in 0 .. n
      BY <1>1
    <3>2. g[k - 1] \in Busquedas(L) /\ g[k] = F[g[k - 1]]
      BY <2>1, <3>1
    <3> QED BY <3>2 DEF F
  <2>3. \A k \in 0 .. n :
          g[k] = IF k = 0 THEN a
                 ELSE IF g[k - 1].fin THEN g[k - 1] ELSE PasoClock(g[k - 1])
    BY <1>1, <2>1, <2>2
  <2>4. g = Tras(g)
    BY <2>1, <2>3
  <2> QED BY <2>4
<1> DEFINE tras == CHOOSE f : f = Tras(f)
<1>3. tras = Tras(tras)
  BY <1>2
<1>4. replace_with_clock(l, p) = tras[n]
  BY DEF replace_with_clock
<1> HIDE DEF tras
<1>5. tras[0] = a /\ \A k \in 1 .. n :
        tras[k] = IF tras[k - 1].fin THEN tras[k - 1] ELSE PasoClock(tras[k - 1])
  <2> HIDE DEF a, n, F
  <2>1. 0 \in 0 .. n /\ \A k \in 1 .. n : k \in 0 .. n /\ k # 0
    BY <1>1
  <2>2. ASSUME NEW k \in 0 .. n
        PROVE  tras[k] = IF k = 0 THEN a
                         ELSE IF tras[k - 1].fin THEN tras[k - 1]
                                                 ELSE PasoClock(tras[k - 1])
    <3>1. tras[k] = Tras(tras)[k]
      BY <1>3, Zenon
    <3> QED BY <3>1
  <2> QED BY <2>1, <2>2
<1> QED BY <1>4, <1>5

\* There is a first page without a property among the d < n from the pointer,
\* or all of them have it.
LEMMA Primero ==
  ASSUME NEW n \in Nat, NEW T
  PROVE  \E e \in 0 .. n : (\A d \in 0 .. e - 1 : d \notin T) /\ (e = n \/ e \in T)
<1>1. CASE \A d \in 0 .. n - 1 : d \notin T
  BY <1>1
<1>2. CASE \E d \in 0 .. n - 1 : d \in T
  <2> DEFINE R == {d \in 0 .. n - 1 : d \in T}
  <2>1. R \in SUBSET Nat /\ R # {}
    BY <1>2
  <2> HIDE DEF R
  <2>2. PICK e \in R : \A d \in R : e <= d
    BY <2>1, MenorNatural
  <2>3. e \in 0 .. n - 1 /\ e \in T
    BY <2>2 DEF R
  <2>4. ASSUME NEW d \in 0 .. e - 1, d \in T PROVE FALSE
    <3>1. d \in R
      BY <2>3, <2>4 DEF R
    <3> QED BY <2>2, <2>3, <3>1
  <2> QED BY <2>3, <2>4
<1> QED BY <1>1, <1>2

\* CLOCK passes the e pages from the pointer that are in use, up to the first
\* that is not or a whole turn, and takes the next.
LEMMA ClockForma ==
  ASSUME NEW L \in Nat, L >= MARCOS_POR_PROCESO,
         NEW l \in Listas(L), NEW p \in 0 .. MARCOS_POR_PROCESO - 1,
         NEW e \in 0 .. MARCOS_POR_PROCESO,
         \A d \in 0 .. e - 1 : l[Lug(p, d)].U,
         e = MARCOS_POR_PROCESO \/ ~ l[Lug(p, e)].U
  PROVE  replace_with_clock(l, p)
           = [lista |-> Limpia(l, p, e), puntero |-> Avanzar(Lug(p, e) - 1),
              victima |-> Lug(p, e), fin |-> TRUE]
<1> DEFINE n == MARCOS_POR_PROCESO + 1
           Andando(k) == [lista |-> Limpia(l, p, k), puntero |-> Lug(p, k) - 1,
                          victima |-> 0, fin |-> FALSE]
           Final == [lista |-> Limpia(l, p, e), puntero |-> Avanzar(Lug(p, e) - 1),
                     victima |-> Lug(p, e), fin |-> TRUE]
<1>1. MARCOS_POR_PROCESO \in Nat \ {0} /\ n \in Nat
  BY ConstantesReemplazo
<1>2. PICK f :
        /\ replace_with_clock(l, p) = f[n]
        /\ f[0] = Busqueda(l, p)
        /\ \A k \in 1 .. n :
             f[k] = IF f[k - 1].fin THEN f[k - 1] ELSE PasoClock(f[k - 1])
  BY BucleClock
<1> DEFINE S == {k \in 0 .. n : f[k] = IF k <= e THEN Andando(k) ELSE Final}
<1>3. 0 \in S
  <2>1. Limpia(l, p, 0) = l /\ Lug(p, 0) - 1 = p
    BY LimpiaExtremos, LugaresDeUnaVuelta
  <2>2. f[0] = Andando(0)
    BY <1>2, <2>1 DEF Busqueda
  <2> QED BY <2>2, <1>1
<1>4. ASSUME NEW k \in 0 .. n - 1, k \in S
      PROVE  k + 1 \in S
  <2>1. f[k + 1] = IF f[k].fin THEN f[k] ELSE PasoClock(f[k])
    BY <1>1, <1>2
  <2>2. CASE k > e
    <3>1. f[k] = Final
      BY <1>4, <2>2
    <3>2. f[k + 1] = Final
      BY <2>1, <3>1
    <3> QED BY <3>2, <2>2, <1>1
  <2>3. CASE k < e
    <3>1. f[k] = Andando(k) /\ k \in 0 .. MARCOS_POR_PROCESO - 1 /\ k \in 0 .. e - 1
      BY <1>1, <1>4, <2>3
    <3>2. /\ Limpia(l, p, k)[Lug(p, k)].U
          /\ Limpia(l, p, k + 1) = SinUso(Limpia(l, p, k), Lug(p, k))
      BY <3>1, LimpiaMas
    <3>3. Avanzar(Lug(p, k) - 1) = Lug(p, k + 1) - 1 /\ Lug(p, k) \in Nat
      <4>1. Avanzar(Lug(p, k) - 1) = Lug(p, k + 1) - 1
        BY <3>1, LugaresDeUnaVuelta, Zenon
      <4>2. k \in 0 .. MARCOS_POR_PROCESO
        BY <3>1, <1>1
      <4>3. Lug(p, k) \in 1 .. MARCOS_POR_PROCESO
        BY <4>2, LugaresDeUnaVuelta, Zenon
      <4> QED BY <4>1, <4>3
    <3>4. Lug(p, k) - 1 + 1 = Lug(p, k)
      BY <3>3
    <3>5. PasoClock(Andando(k)) = Andando(k + 1)
      BY <3>2, <3>3, <3>4 DEF PasoClock
    <3>6. f[k + 1] = Andando(k + 1)
      BY <2>1, <3>1, <3>5
    <3> QED BY <3>6, <2>3, <1>1
  <2>4. CASE k = e
    <3>1. f[k] = Andando(e)
      BY <1>4, <2>4
    <3>2. ~ Limpia(l, p, e)[Lug(p, e)].U
      <4>1. CASE e = MARCOS_POR_PROCESO
        <5>1. \A i \in 1 .. MARCOS_POR_PROCESO :
                ~ Limpia(l, p, e)[i].U
          BY <4>1, LimpiaExtremos
        <5>2. Lug(p, e) \in 1 .. MARCOS_POR_PROCESO
          BY LugaresDeUnaVuelta
        <5> QED BY <5>1, <5>2
      <4>2. CASE e # MARCOS_POR_PROCESO
        <5>1. e \in 0 .. MARCOS_POR_PROCESO - 1
          BY <4>2, <1>1
        <5> QED BY <5>1, <4>2, LimpiaMas
      <4> QED BY <4>1, <4>2
    <3>3. Lug(p, e) \in Nat
      BY <1>1, LugaresDeUnaVuelta
    <3>4. Lug(p, e) - 1 + 1 = Lug(p, e)
      BY <3>3
    <3>5. PasoClock(Andando(e)) = Final
      BY <3>2, <3>4 DEF PasoClock
    <3>6. f[k + 1] = Final
      BY <2>1, <3>1, <3>5
    <3> QED BY <3>6, <2>4, <1>1
  <2> QED BY <2>2, <2>3, <2>4, <1>1
<1> HIDE DEF S
<1>5. n \in S
  BY <1>1, <1>3, <1>4, InduccionHasta
<1> QED BY <1>1, <1>2, <1>5 DEF S

\* There is such a page, or none.
LEMMA ClockHay ==
  ASSUME NEW L \in Nat, L >= MARCOS_POR_PROCESO,
         NEW l \in Listas(L), NEW p \in 0 .. MARCOS_POR_PROCESO - 1
  PROVE  \E e \in 0 .. MARCOS_POR_PROCESO :
           /\ \A d \in 0 .. e - 1 : l[Lug(p, d)].U
           /\ e = MARCOS_POR_PROCESO \/ ~ l[Lug(p, e)].U
<1> DEFINE T == {d \in 0 .. MARCOS_POR_PROCESO : ~ l[Lug(p, d)].U}
<1>1. MARCOS_POR_PROCESO \in Nat
  BY ConstantesReemplazo
<1>2. PICK e \in 0 .. MARCOS_POR_PROCESO :
        (\A d \in 0 .. e - 1 : d \notin T) /\ (e = MARCOS_POR_PROCESO \/ e \in T)
  BY <1>1, Primero
<1> QED BY <1>1, <1>2

-----------------------------------------------------------------------------
(* CLOCK-M *)

\* A step of a turn keeps the types, and a victim already found.
LEMMA PasoClockMTipo ==
  ASSUME NEW L \in Nat, L >= MARCOS_POR_PROCESO,
         NEW s \in Busquedas(L), NEW inicio \in 0 .. MARCOS_POR_PROCESO - 1,
         NEW m \in BOOLEAN, NEW limpia \in BOOLEAN
  PROVE  /\ PasoClockM(s, inicio, m, limpia) \in Busquedas(L)
         /\ s.victima # 0 => PasoClockM(s, inicio, m, limpia).victima = s.victima
<1>1. /\ s.puntero + 1 \in 1 .. MARCOS_POR_PROCESO /\ s.puntero + 1 \in 1 .. L
      /\ s.puntero + 1 \in 0 .. MARCOS_POR_PROCESO
      /\ s.puntero \in 0 .. MARCOS_POR_PROCESO - 1 /\ s.lista \in Listas(L)
      /\ s.victima \in 0 .. MARCOS_POR_PROCESO
  BY ConstantesReemplazo DEF Busquedas
<1>2. Avanzar(s.puntero) \in 0 .. MARCOS_POR_PROCESO - 1
  BY <1>1, AvanzarEs
<1>3. SinUso(s.lista, s.puntero + 1) \in Listas(L)
  BY <1>1, SinUsoEs
<1>4. s.lista[s.puntero + 1].U \in BOOLEAN /\ s.lista[s.puntero + 1].M \in BOOLEAN
  BY <1>1 DEF Listas, Bits
<1> QED BY <1>1, <1>2, <1>3, <1>4 DEF PasoClockM, Busquedas

\* A turn starts from the search it is given, not ended.
LEMMA BusquedaReanudada ==
  ASSUME NEW L \in Nat, L >= MARCOS_POR_PROCESO,
         NEW s \in Busquedas(L)
  PROVE  /\ [s EXCEPT !.fin = FALSE] \in Busquedas(L)
         /\ [s EXCEPT !.fin = FALSE]
              = [lista |-> s.lista, puntero |-> s.puntero, victima |-> s.victima,
                 fin |-> FALSE]
<1> DEFINE q == [s EXCEPT !.fin = FALSE]
<1>1. q \in Busquedas(L)
  BY DEF Busquedas
<1>2. q.lista = s.lista /\ q.puntero = s.puntero /\ q.victima = s.victima
  BY DEF Busquedas
<1>3. q.fin = FALSE
  BY DEF Busquedas
<1> HIDE DEF q
<1>4. q = [lista |-> q.lista, puntero |-> q.puntero, victima |-> q.victima,
           fin |-> q.fin]
  BY <1>1 DEF Busquedas
<1> QED BY <1>1, <1>2, <1>3, <1>4 DEF q

\* The loop of a turn is defined for every search.
LEMMA BucleClockM ==
  ASSUME NEW L \in Nat, L >= MARCOS_POR_PROCESO,
         NEW s \in Busquedas(L), NEW inicio \in 0 .. MARCOS_POR_PROCESO - 1,
         NEW m \in BOOLEAN, NEW limpia \in BOOLEAN
  PROVE  \E f :
           /\ VueltaClockM(s, inicio, m, limpia) = f[MARCOS_POR_PROCESO]
           /\ f[0] = [s EXCEPT !.fin = FALSE]
           /\ \A k \in 1 .. MARCOS_POR_PROCESO :
                f[k] = IF f[k - 1].fin THEN f[k - 1]
                       ELSE PasoClockM(f[k - 1], inicio, m, limpia)
<1> DEFINE F == [b \in Busquedas(L) |->
                   IF b.fin THEN b ELSE PasoClockM(b, inicio, m, limpia)]
           a == [s EXCEPT !.fin = FALSE]
           n == MARCOS_POR_PROCESO
           Tras(f) == [k \in 0 .. n |->
                         IF k = 0 THEN a
                         ELSE IF f[k - 1].fin THEN f[k - 1]
                         ELSE PasoClockM(f[k - 1], inicio, m, limpia)]
<1>1. n \in Nat /\ a \in Busquedas(L) /\ F \in [Busquedas(L) -> Busquedas(L)]
  <2>1. \A b \in Busquedas(L) : PasoClockM(b, inicio, m, limpia) \in Busquedas(L)
    BY PasoClockMTipo
  <2> QED BY <2>1, ConstantesReemplazo, BusquedaReanudada
<1>2. \E f : f = Tras(f)
  <2> HIDE DEF F, a, n
  <2>0. PICK g : Itera(g, Busquedas(L), a, F, n)
    BY <1>1, Iteracion, Zenon
  <2>1. /\ g \in [0 .. n -> Busquedas(L)] /\ g[0] = a
        /\ \A k \in 1 .. n : g[k] = F[g[k - 1]]
    BY <2>0 DEF Itera
  <2>2. ASSUME NEW k \in 1 .. n
        PROVE  g[k] = IF g[k - 1].fin THEN g[k - 1]
                      ELSE PasoClockM(g[k - 1], inicio, m, limpia)
    <3>1. k - 1 \in 0 .. n
      BY <1>1
    <3>2. g[k - 1] \in Busquedas(L) /\ g[k] = F[g[k - 1]]
      BY <2>1, <3>1
    <3> QED BY <3>2 DEF F
  <2>3. \A k \in 0 .. n :
          g[k] = IF k = 0 THEN a
                 ELSE IF g[k - 1].fin THEN g[k - 1]
                 ELSE PasoClockM(g[k - 1], inicio, m, limpia)
    BY <1>1, <2>1, <2>2
  <2>4. g = Tras(g)
    BY <2>1, <2>3
  <2> QED BY <2>4
<1> DEFINE tras == CHOOSE f : f = Tras(f)
<1>3. tras = Tras(tras)
  BY <1>2
<1>4. VueltaClockM(s, inicio, m, limpia) = tras[n]
  BY DEF VueltaClockM
<1> HIDE DEF tras
<1>5. tras[0] = a /\ \A k \in 1 .. n :
        tras[k] = IF tras[k - 1].fin THEN tras[k - 1]
                  ELSE PasoClockM(tras[k - 1], inicio, m, limpia)
  <2> HIDE DEF a, n, F
  <2>1. 0 \in 0 .. n /\ \A k \in 1 .. n : k \in 0 .. n /\ k # 0
    BY <1>1
  <2>2. ASSUME NEW k \in 0 .. n
        PROVE  tras[k] = IF k = 0 THEN a
                         ELSE IF tras[k - 1].fin THEN tras[k - 1]
                         ELSE PasoClockM(tras[k - 1], inicio, m, limpia)
    <3>1. tras[k] = Tras(tras)[k]
      BY <1>3, Zenon
    <3> QED BY <3>1
  <2> QED BY <2>1, <2>2
<1> QED BY <1>4, <1>5

\* A turn gives a search again, and one that has its victim keeps it.
LEMMA VueltaConserva ==
  ASSUME NEW L \in Nat, L >= MARCOS_POR_PROCESO,
         NEW s \in Busquedas(L), NEW inicio \in 0 .. MARCOS_POR_PROCESO - 1,
         NEW m \in BOOLEAN, NEW limpia \in BOOLEAN
  PROVE  /\ VueltaClockM(s, inicio, m, limpia) \in Busquedas(L)
         /\ s.victima # 0 =>
              VueltaClockM(s, inicio, m, limpia).victima = s.victima
<1>1. MARCOS_POR_PROCESO \in Nat
  BY ConstantesReemplazo
<1>2. PICK f :
        /\ VueltaClockM(s, inicio, m, limpia) = f[MARCOS_POR_PROCESO]
        /\ f[0] = [s EXCEPT !.fin = FALSE]
        /\ \A k \in 1 .. MARCOS_POR_PROCESO :
             f[k] = IF f[k - 1].fin THEN f[k - 1]
                    ELSE PasoClockM(f[k - 1], inicio, m, limpia)
  BY BucleClockM
<1> DEFINE S == {k \in 0 .. MARCOS_POR_PROCESO :
                   f[k] \in Busquedas(L) /\ (s.victima # 0 => f[k].victima = s.victima)}
<1>3. 0 \in S
  <2>1. f[0] \in Busquedas(L)
    BY <1>2, BusquedaReanudada, ZenonT(40)
  <2>2. f[0] = [lista |-> s.lista, puntero |-> s.puntero, victima |-> s.victima,
                fin |-> FALSE]
    BY <1>2, BusquedaReanudada, ZenonT(40)
  <2> QED BY <1>1, <2>1, <2>2
<1>4. ASSUME NEW k \in 0 .. MARCOS_POR_PROCESO - 1, k \in S
      PROVE  k + 1 \in S
  <2>1. f[k + 1] = IF f[k].fin THEN f[k] ELSE PasoClockM(f[k], inicio, m, limpia)
    <3>1. k + 1 \in 1 .. MARCOS_POR_PROCESO /\ k + 1 - 1 = k
      BY <1>1
    <3> QED BY <1>2, <3>1
  <2>2. f[k] \in Busquedas(L) /\ (s.victima # 0 => f[k].victima = s.victima)
    BY <1>4
  <2>3. /\ PasoClockM(f[k], inicio, m, limpia) \in Busquedas(L)
        /\ s.victima # 0 => PasoClockM(f[k], inicio, m, limpia).victima = s.victima
    BY <2>2, PasoClockMTipo
  <2>4. f[k + 1] \in Busquedas(L) /\ (s.victima # 0 => f[k + 1].victima = s.victima)
    BY <2>1, <2>2, <2>3
  <2> QED BY <1>1, <2>4
<1> HIDE DEF S
<1>5. MARCOS_POR_PROCESO \in S
  BY <1>1, <1>3, <1>4, InduccionHasta
<1> QED BY <1>2, <1>5 DEF S

\* The first of the n pages from p that is not in use and has the modified
\* bit m is e pages after it; with e = n there is none.
PrimeroCon(l, p, m, e) ==
  /\ e \in 0 .. MARCOS_POR_PROCESO
  /\ \A d \in 0 .. e - 1 : ~(~ l[Lug(p, d)].U /\ l[Lug(p, d)].M = m)
  /\ e = MARCOS_POR_PROCESO \/ (~ l[Lug(p, e)].U /\ l[Lug(p, e)].M = m)

\* The search s has the list l and the pointer p, and no victim.
SinVictima(s, l, p) ==
  /\ \E L \in Nat :
       L >= MARCOS_POR_PROCESO /\ s \in Busquedas(L) /\ l \in Listas(L)
  /\ p \in 0 .. MARCOS_POR_PROCESO - 1
  /\ s.lista = l /\ s.puntero = p /\ s.victima = 0

TrasVuelta(l, p, limpia, e) ==
  [lista |-> IF limpia THEN Limpia(l, p, e) ELSE l,
   puntero |-> IF e = MARCOS_POR_PROCESO THEN p ELSE Avanzar(Lug(p, e) - 1),
   victima |-> IF e = MARCOS_POR_PROCESO THEN 0 ELSE Lug(p, e),
   fin |-> TRUE]

\* A turn that has no victim yet takes the first page from where it starts
\* that has the bits it looks for; if there is none it comes back to where it
\* started, with no victim.  It clears the pages before the victim, if at all.
LEMMA VueltaForma ==
  ASSUME NEW l, NEW p, NEW s, SinVictima(s, l, p),
         NEW m \in BOOLEAN, NEW limpia \in BOOLEAN,
         NEW e, PrimeroCon(l, p, m, e)
  PROVE  VueltaClockM(s, p, m, limpia) = TrasVuelta(l, p, limpia, e)
<1>b. PICK L \in Nat :
        L >= MARCOS_POR_PROCESO /\ s \in Busquedas(L) /\ l \in Listas(L)
  BY DEF SinVictima
<1>a. /\ L \in Nat /\ L >= MARCOS_POR_PROCESO
      /\ s \in Busquedas(L) /\ l \in Listas(L) /\ p \in 0 .. MARCOS_POR_PROCESO - 1
      /\ s.lista = l /\ s.puntero = p /\ s.victima = 0
      /\ e \in 0 .. MARCOS_POR_PROCESO
  BY <1>b DEF SinVictima, PrimeroCon
<1> USE <1>a DEF PrimeroCon, TrasVuelta
<1> DEFINE n == MARCOS_POR_PROCESO
           Q(k) == IF limpia THEN Limpia(l, p, k) ELSE l
           Andando(k) == [lista |-> Q(k), puntero |-> Lug(p, k) - 1,
                          victima |-> 0, fin |-> k = n]
           Final == [lista |-> Q(e), puntero |-> Avanzar(Lug(p, e) - 1),
                     victima |-> Lug(p, e), fin |-> TRUE]
<1>1. n \in Nat \ {0}
  BY ConstantesReemplazo
<1>2. PICK f :
        /\ VueltaClockM(s, p, m, limpia) = f[n]
        /\ f[0] = [s EXCEPT !.fin = FALSE]
        /\ \A k \in 1 .. n :
             f[k] = IF f[k - 1].fin THEN f[k - 1]
                    ELSE PasoClockM(f[k - 1], p, m, limpia)
  BY BucleClockM
<1> DEFINE S == {k \in 0 .. n : f[k] = IF k <= e THEN Andando(k) ELSE Final}
<1>3. 0 \in S
  <2>1. Limpia(l, p, 0) = l /\ Lug(p, 0) - 1 = p
    BY LimpiaExtremos, LugaresDeUnaVuelta
  <2>2. f[0] = [lista |-> l, puntero |-> p, victima |-> 0, fin |-> FALSE]
    BY <1>2, BusquedaReanudada
  <2>3. f[0] = Andando(0)
    BY <1>1, <2>1, <2>2
  <2> QED BY <2>3, <1>1
<1>4. ASSUME NEW k \in 0 .. n - 1, k \in S
      PROVE  k + 1 \in S
  <2>1. f[k + 1] = IF f[k].fin THEN f[k] ELSE PasoClockM(f[k], p, m, limpia)
    <3>1. k + 1 \in 1 .. n /\ k + 1 - 1 = k
      BY <1>1
    <3> QED BY <1>2, <3>1
  <2>2. CASE k > e
    <3>1. f[k] = Final
      BY <1>4, <2>2
    <3>2. f[k + 1] = Final
      BY <2>1, <3>1
    <3> QED BY <3>2, <2>2, <1>1
  <2>3. CASE k <= e
    <3>1. f[k] = Andando(k) /\ ~ Andando(k).fin
      <4>1. k # n
        BY <1>1
      <4>2. f[k] = Andando(k)
        BY <1>4, <2>3
      <4> QED BY <4>1, <4>2
    <3>2. f[k + 1] = PasoClockM(Andando(k), p, m, limpia)
      BY <2>1, <3>1
    <3>3. /\ Q(k)[Lug(p, k)] = l[Lug(p, k)]
          /\ Q(k + 1) = IF limpia THEN SinUso(Q(k), Lug(p, k)) ELSE Q(k)
      BY LimpiaMas
    <3>4. Lug(p, k) \in 1 .. n /\ Avanzar(Lug(p, k) - 1) = Lug(p, k + 1) - 1
      <4>1. k \in 0 .. n
        BY <1>1
      <4>2. Lug(p, k) \in 1 .. n
        BY <4>1, LugaresDeUnaVuelta
      <4>3. \A d \in 0 .. n - 1 : Avanzar(Lug(p, d) - 1) = Lug(p, d + 1) - 1
        BY LugaresDeUnaVuelta
      <4> QED BY <4>2, <4>3
    <3>5. Lug(p, k) - 1 + 1 = Lug(p, k)
      BY <3>4, <1>1
    <3>6. (Lug(p, k + 1) - 1 = p) <=> (k + 1 = n)
      <4>1. /\ Lug(p, 0) = p + 1 /\ Lug(p, n) = p + 1
            /\ \A d, c \in 0 .. n - 1 : Lug(p, d) = Lug(p, c) => d = c
        BY LugaresDeUnaVuelta
      <4>2. CASE k + 1 = n
        BY <4>1, <4>2
      <4>3. CASE k + 1 # n
        <5>1. k + 1 \in 0 .. n - 1 /\ 0 \in 0 .. n - 1 /\ k + 1 # 0
          BY <1>1, <4>3
        <5>2. Lug(p, k + 1) # p + 1
          BY <4>1, <5>1
        <5>3. Lug(p, k + 1) \in Int
          BY <1>1, LugaresDeUnaVuelta
        <5> QED BY <5>2, <5>3, <4>3
      <4> QED BY <4>2, <4>3
    <3> HIDE DEF Q
    <3>7. CASE k < e
      <4>1. k \in 0 .. e - 1
        BY <1>1, <3>7
      <4>2. ~(~ Q(k)[Lug(p, k)].U /\ Q(k)[Lug(p, k)].M = m)
        BY <4>1, <3>3
      <4>3. PasoClockM(Andando(k), p, m, limpia)
              = [lista |-> IF limpia THEN SinUso(Q(k), Lug(p, k)) ELSE Q(k),
                 puntero |-> Avanzar(Lug(p, k) - 1), victima |-> 0,
                 fin |-> Avanzar(Lug(p, k) - 1) = p]
        BY <4>2, <3>5 DEF PasoClockM
      <4>4. PasoClockM(Andando(k), p, m, limpia) = Andando(k + 1)
        BY <4>3, <3>3, <3>4, <3>6
      <4> QED BY <3>2, <4>4, <3>7, <1>1
    <3>8. CASE k = e
      <4>1. ~ Q(k)[Lug(p, k)].U /\ Q(k)[Lug(p, k)].M = m
        BY <1>1, <3>8, <3>3
      <4>2. PasoClockM(Andando(k), p, m, limpia) = Final
        BY <4>1, <3>5, <3>8 DEF PasoClockM
      <4> QED BY <3>2, <4>2, <3>8, <1>1
    <3> QED BY <2>3, <3>7, <3>8, <1>1
  <2> QED BY <2>2, <2>3, <1>1
<1> HIDE DEF S
<1>5. n \in S
  BY <1>1, <1>3, <1>4, InduccionHasta
<1>6. f[n] = IF n <= e THEN Andando(n) ELSE Final
  BY <1>5 DEF S
<1>7. Lug(p, n) - 1 = p
  BY LugaresDeUnaVuelta
<1>8. CASE e = n
  <2>1. f[n] = Andando(n)
    BY <1>1, <1>6, <1>8
  <2> QED BY <1>2, <2>1, <1>7, <1>8
<1>9. CASE e # n
  <2>1. f[n] = Final
    BY <1>1, <1>6, <1>9
  <2> QED BY <1>2, <2>1, <1>9
<1> QED BY <1>8, <1>9

\* The scan meets a first entry with these bits, or ends without one.
LEMMA PrimeroHay ==
  ASSUME NEW L \in Nat, L >= MARCOS_POR_PROCESO,
         NEW l \in Listas(L), NEW p \in 0 .. MARCOS_POR_PROCESO - 1, NEW m \in BOOLEAN
  PROVE  \E e \in 0 .. MARCOS_POR_PROCESO : PrimeroCon(l, p, m, e)
<1> DEFINE T == {d \in 0 .. MARCOS_POR_PROCESO :
                   ~ l[Lug(p, d)].U /\ l[Lug(p, d)].M = m}
<1>1. MARCOS_POR_PROCESO \in Nat
  BY ConstantesReemplazo
<1>2. PICK e \in 0 .. MARCOS_POR_PROCESO :
        (\A d \in 0 .. e - 1 : d \notin T) /\ (e = MARCOS_POR_PROCESO \/ e \in T)
  BY <1>1, Primero
<1> QED BY <1>1, <1>2 DEF PrimeroCon

\* The place e pages after p is the first from p that is in T.
PrimeroEn(p, e, T) ==
  Lug(p, e) \in T /\ \A d \in 0 .. e - 1 : Lug(p, d) \notin T

Libres(l) == {i \in 1 .. MARCOS_POR_PROCESO : ~ l[i].U}
Limpias(l) == {i \in 1 .. MARCOS_POR_PROCESO : ~ l[i].M}

\* The place e pages after p is the first from p of the best class there is.
LaMejor(l, p, e) ==
  \/ PrimeroEn(p, e, Libres(l) \cap Limpias(l))
  \/ Libres(l) \cap Limpias(l) = {} /\ PrimeroEn(p, e, Libres(l))
  \/ Libres(l) = {} /\ PrimeroEn(p, e, Limpias(l))
  \/ Libres(l) = {} /\ Limpias(l) = {} /\ e = 0

\* CLOCK-M takes the first page of the best class that is not empty.
LEMMA ClockMForma ==
  ASSUME NEW L \in Nat, L >= MARCOS_POR_PROCESO,
         NEW l \in Listas(L), NEW p \in 0 .. MARCOS_POR_PROCESO - 1
  PROVE  /\ replace_with_clock_m(l, p) \in Busquedas(L)
         /\ \E e \in 0 .. MARCOS_POR_PROCESO - 1 :
              replace_with_clock_m(l, p).victima = Lug(p, e) /\ LaMejor(l, p, e)
<1> DEFINE libres == Libres(l)
           limpias == Limpias(l)
<1>c. /\ libres = {i \in 1 .. MARCOS_POR_PROCESO : ~ l[i].U}
      /\ limpias = {i \in 1 .. MARCOS_POR_PROCESO : ~ l[i].M}
      /\ \A e : LaMejor(l, p, e) <=>
               \/ PrimeroEn(p, e, libres \cap limpias)
               \/ libres \cap limpias = {} /\ PrimeroEn(p, e, libres)
               \/ libres = {} /\ PrimeroEn(p, e, limpias)
               \/ libres = {} /\ limpias = {} /\ e = 0
  BY DEF Libres, Limpias, LaMejor
<1> HIDE DEF libres, limpias
<1> DEFINE n == MARCOS_POR_PROCESO
           inicial == Busqueda(l, p)
           primera == VueltaClockM(inicial, p, FALSE, FALSE)
           segunda == VueltaClockM(primera, p, TRUE, TRUE)
           tercera == VueltaClockM(segunda, p, FALSE, FALSE)
           cuarta == PasoClockM(tercera, p, TRUE, TRUE)
<1>0. TRUE \in BOOLEAN /\ FALSE \in BOOLEAN
  OBVIOUS
<1>1. n \in Nat \ {0}
  BY ConstantesReemplazo
<1>2. inicial \in Busquedas(L) /\ inicial.lista = l /\ inicial.puntero = p
        /\ inicial.victima = 0
  BY <1>1 DEF Busqueda, Busquedas
<1>3. replace_with_clock_m(l, p) = cuarta
  BY DEF replace_with_clock_m
<1>4. \A d \in 0 .. n : Lug(p, d) \in 1 .. n
  BY LugaresDeUnaVuelta
<1>5. \A i \in 1 .. n : \E d \in 0 .. n - 1 : Lug(p, d) = i
  BY LugaresDeUnaVuelta
<1>6. \A i \in 1 .. n : l[i].U \in BOOLEAN /\ l[i].M \in BOOLEAN
  BY <1>1 DEF Listas, Bits
<1> HIDE DEF n, inicial, primera, segunda, tercera, cuarta
<1>b. SinVictima(inicial, l, p)
  BY <1>2 DEF SinVictima
<1>7. primera \in Busquedas(L)
  BY <1>2, VueltaConserva DEF n, primera
<1>8. segunda \in Busquedas(L) /\ (primera.victima # 0 => segunda.victima = primera.victima)
  BY <1>7, VueltaConserva DEF n, segunda
<1>9. tercera \in Busquedas(L) /\ (segunda.victima # 0 => tercera.victima = segunda.victima)
  BY <1>8, VueltaConserva DEF n, tercera
<1>10. cuarta \in Busquedas(L) /\ (tercera.victima # 0 => cuarta.victima = tercera.victima)
  BY <1>9, PasoClockMTipo DEF n, cuarta
<1> SUFFICES \E e \in 0 .. n - 1 :
               /\ cuarta.victima = Lug(p, e)
               /\ \/ PrimeroEn(p, e, libres \cap limpias)
                  \/ libres \cap limpias = {} /\ PrimeroEn(p, e, libres)
                  \/ libres = {} /\ PrimeroEn(p, e, limpias)
                  \/ libres = {} /\ limpias = {} /\ e = 0
  BY <1>c, <1>3, <1>10 DEF n
<1>11. PICK a \in 0 .. n : PrimeroCon(l, p, FALSE, a)
  BY PrimeroHay DEF n
<1>12. primera = TrasVuelta(l, p, FALSE, a)
  <2>1. VueltaClockM(inicial, p, FALSE, FALSE) = TrasVuelta(l, p, FALSE, a)
    BY <1>0, <1>b, <1>11, VueltaForma, Zenon
  <2> QED BY <2>1 DEF primera
<1>13. CASE a # n
  <2>1. a \in 0 .. n - 1 /\ Lug(p, a) \in 1 .. n
    BY <1>1, <1>4, <1>13
  <2>2. cuarta.victima = Lug(p, a)
    BY <1>8, <1>9, <1>10, <1>12, <1>13, <2>1 DEF TrasVuelta, n
  <2>3. PrimeroEn(p, a, libres \cap limpias)
    BY <1>c, <1>11, <1>13, <2>1 DEF PrimeroCon, PrimeroEn, n
  <2> QED BY <2>1, <2>2, <2>3
<1>14. CASE a = n
  <2>1. \A i \in 1 .. n : ~ l[i].U => l[i].M
    BY <1>5, <1>6, <1>11, <1>14 DEF PrimeroCon, n
  <2>2. libres \cap limpias = {}
    BY <1>c, <2>1 DEF n
  <2>3. primera.lista = l /\ primera.puntero = p /\ primera.victima = 0
    BY <1>12, <1>14 DEF TrasVuelta, n
  <2>4. PICK b \in 0 .. n : PrimeroCon(l, p, TRUE, b)
    BY PrimeroHay DEF n
  <2>5. segunda = TrasVuelta(l, p, TRUE, b)
    <3>1. SinVictima(primera, l, p)
      BY <1>7, <2>3 DEF SinVictima
    <3>2. VueltaClockM(primera, p, TRUE, TRUE) = TrasVuelta(l, p, TRUE, b)
      BY <1>0, <3>1, <2>4, VueltaForma, ZenonT(40)
    <3> QED BY <3>2 DEF segunda
  <2>6. CASE b # n
    <3>1. b \in 0 .. n - 1 /\ Lug(p, b) \in 1 .. n
      BY <1>1, <1>4, <2>6
    <3>2. cuarta.victima = Lug(p, b)
      BY <1>9, <1>10, <2>5, <2>6, <3>1 DEF TrasVuelta, n
    <3>3. \A d \in 0 .. b - 1 : Lug(p, d) \in 1 .. n
      BY <1>1, <1>4
    <3>4. PrimeroEn(p, b, libres)
      BY <1>c, <2>1, <2>4, <2>6, <3>1, <3>3 DEF PrimeroCon, PrimeroEn, n
    <3> QED BY <2>2, <3>1, <3>2, <3>4
  <2>7. CASE b = n
    <3>1. \A i \in 1 .. n : l[i].U
      BY <1>5, <1>6, <2>1, <2>4, <2>7 DEF PrimeroCon, n
    <3>2. libres = {}
      BY <1>c, <3>1 DEF n
    <3> DEFINE q == Limpia(l, p, n)
    <3>3. /\ q \in Listas(L)
          /\ \A i \in 1 .. n : ~ q[i].U /\ q[i].M = l[i].M
      BY LimpiaExtremos DEF n
    <3>4. segunda.lista = q /\ segunda.puntero = p /\ segunda.victima = 0
      BY <2>5, <2>7 DEF TrasVuelta, n
    <3> HIDE DEF q
    <3>5. PICK c \in 0 .. n : PrimeroCon(q, p, FALSE, c)
      BY <3>3, PrimeroHay DEF n
    <3>6. tercera = TrasVuelta(q, p, FALSE, c)
      <4>1. SinVictima(segunda, q, p)
        BY <1>8, <3>3, <3>4 DEF SinVictima
      <4>2. VueltaClockM(segunda, p, FALSE, FALSE) = TrasVuelta(q, p, FALSE, c)
        BY <1>0, <4>1, <3>5, VueltaForma, Zenon
      <4> QED BY <4>2 DEF tercera
    <3>7. \A i \in 1 .. n : ~ q[i].U /\ q[i].M = l[i].M
      BY <3>3
    <3>8. CASE c # n
      <4>1. c \in 0 .. n - 1 /\ Lug(p, c) \in 1 .. n
        BY <1>1, <1>4, <3>8
      <4>2. cuarta.victima = Lug(p, c)
        BY <1>10, <3>6, <3>8, <4>1 DEF TrasVuelta, n
      <4>3. \A d \in 0 .. c - 1 : Lug(p, d) \in 1 .. n
        BY <1>1, <1>4
      <4>4. PrimeroEn(p, c, limpias)
        BY <1>c, <1>6, <3>5, <3>7, <3>8, <4>1, <4>3 DEF PrimeroCon, PrimeroEn, n
      <4> QED BY <3>2, <4>1, <4>2, <4>4
    <3>9. CASE c = n
      <4>1. \A i \in 1 .. n : q[i].M
        BY <1>5, <1>6, <3>5, <3>7, <3>9 DEF PrimeroCon, n
      <4>2. limpias = {}
        BY <1>c, <3>7, <4>1 DEF n
      <4>3. p + 1 \in 1 .. n /\ 0 \in 0 .. n - 1 /\ Lug(p, 0) = p + 1
        BY <1>1, LugaresDeUnaVuelta DEF n
      <4>4. ~ q[p + 1].U /\ q[p + 1].M = TRUE
        BY <1>6, <3>7, <4>1, <4>3
      <4>5. tercera.lista = q /\ tercera.puntero = p /\ tercera.victima = 0
        BY <3>6, <3>9 DEF TrasVuelta, n
      <4>6. cuarta.victima = p + 1
        BY <4>4, <4>5 DEF cuarta, PasoClockM
      <4> QED BY <3>2, <4>2, <4>3, <4>6
    <3> QED BY <3>8, <3>9
  <2> QED BY <2>6, <2>7
<1> QED BY <1>13, <1>14

\* What either algorithm returns can be used: a page of the list, the list with
\* its types, and a pointer within it.
LEMMA ElegirVictimaTipo ==
  ASSUME NEW algoritmo, NEW L \in Nat, L >= MARCOS_POR_PROCESO,
         NEW l \in Listas(L), NEW p \in 0 .. MARCOS_POR_PROCESO - 1
  PROVE  /\ ElegirVictima(algoritmo, l, p).lista \in Listas(L)
         /\ ElegirVictima(algoritmo, l, p).victima \in 1 .. MARCOS_POR_PROCESO
         /\ ElegirVictima(algoritmo, l, p).puntero
              \in 0 .. MARCOS_POR_PROCESO - 1
<1>1. MARCOS_POR_PROCESO \in Nat \ {0}
  BY ConstantesReemplazo
<1>2. CASE algoritmo = "CLOCK"
  <2>1. PICK e \in 0 .. MARCOS_POR_PROCESO :
          /\ \A d \in 0 .. e - 1 : l[Lug(p, d)].U
          /\ e = MARCOS_POR_PROCESO \/ ~ l[Lug(p, e)].U
    BY ClockHay
  <2>2. Lug(p, e) \in 1 .. MARCOS_POR_PROCESO
    BY LugaresDeUnaVuelta
  <2>3. Lug(p, e) - 1 \in 0 .. MARCOS_POR_PROCESO - 1
    BY <1>1, <2>2
  <2>4. Avanzar(Lug(p, e) - 1) \in 0 .. MARCOS_POR_PROCESO - 1
    BY <2>3, AvanzarEs
  <2>5. Limpia(l, p, e) \in Listas(L)
    BY DEF Limpia, Listas, Bits
  <2>6. replace_with_clock(l, p)
          = [lista |-> Limpia(l, p, e), puntero |-> Avanzar(Lug(p, e) - 1),
             victima |-> Lug(p, e), fin |-> TRUE]
    BY <2>1, ClockForma
  <2> QED BY <1>2, <2>2, <2>4, <2>5, <2>6 DEF ElegirVictima
<1>3. CASE algoritmo # "CLOCK"
  <2> DEFINE b == replace_with_clock_m(l, p)
  <2>1. /\ b \in Busquedas(L)
        /\ \E e \in 0 .. MARCOS_POR_PROCESO - 1 : b.victima = Lug(p, e)
    BY ClockMForma
  <2> HIDE DEF b
  <2>2. b.victima \in 1 .. MARCOS_POR_PROCESO
    BY <1>1, <2>1, LugaresDeUnaVuelta
  <2>3. b.lista \in Listas(L) /\ b.puntero \in 0 .. MARCOS_POR_PROCESO - 1
    BY <2>1 DEF Busquedas
  <2>4. ElegirVictima(algoritmo, l, p) = b
    BY <1>3 DEF ElegirVictima, b
  <2> QED BY <2>2, <2>3, <2>4
<1> QED BY <1>2, <1>3
=============================================================================
