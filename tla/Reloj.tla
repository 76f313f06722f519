------------------------------- MODULE Reloj -------------------------------
(***************************************************************************)
(* The resident pages of one process that has used up its frames, under    *)
(* any sequence of accesses and replacements: what get_frame_number does   *)
(* to the bits and the pointer (src/ram_swap/src/ram_functions.c), and the *)
(* textbook definitions its two algorithms are compared with.              *)
(***************************************************************************)
EXTENDS Reemplazo, FiniteSets, FiniteSetsExt

CONSTANT ALGORITMO_REEMPLAZO       \* "CLOCK" or "CLOCK-M"

ASSUME AlgoritmoReemplazo == ALGORITMO_REEMPLAZO \in {"CLOCK", "CLOCK-M"}

VARIABLES
  residentes,       \* the bits of the resident pages, by frame
  clock_pointer

varsReloj == <<residentes, clock_pointer>>

Init ==
  /\ residentes = [i \in 1 .. MARCOS_POR_PROCESO |-> [U |-> TRUE, M |-> FALSE]]
  /\ clock_pointer = 0

\* An access to a resident page.
Acceder(i, escribe) ==
  /\ residentes' = [residentes EXCEPT ![i] =
                      [U |-> TRUE, M |-> residentes[i].M \/ escribe]]
  /\ UNCHANGED clock_pointer

\* Mutant: the pointer after the victim, not modulo the frames.
Reemplazar_SinModulo(escribe) ==
  LET b == ElegirVictima(ALGORITMO_REEMPLAZO, residentes, clock_pointer)
  IN  /\ residentes' = [b.lista EXCEPT ![b.victima] = [U |-> TRUE, M |-> escribe]]
      /\ clock_pointer' = b.victima

\* An access to a page that is not: it takes the frame of the victim.
Reemplazar(escribe) ==
  LET b == ElegirVictima(ALGORITMO_REEMPLAZO, residentes, clock_pointer)
  IN  /\ residentes' = [b.lista EXCEPT ![b.victima] = [U |-> TRUE, M |-> escribe]]
      /\ clock_pointer' = b.puntero

Next ==
  \E escribe \in BOOLEAN :
    Reemplazar(escribe) \/ \E i \in DOMAIN residentes : Acceder(i, escribe)

Spec == Init /\ [][Next]_varsReloj

-----------------------------------------------------------------------------
(* Properties *)

TypeOK ==
  /\ residentes \in [1 .. MARCOS_POR_PROCESO -> Bits]
  /\ clock_pointer \in 0 .. MARCOS_POR_PROCESO - 1

\* The page d places after the pointer, and the first of a set of pages the
\* pointer meets.
Lugar(d) == ((clock_pointer + d) % MARCOS_POR_PROCESO) + 1
Primera(paginas) ==
  Lugar(Min({d \in 0 .. MARCOS_POR_PROCESO - 1 : Lugar(d) \in paginas}))

ConBits(usos, modificadas) ==
  {i \in DOMAIN residentes :
     residentes[i].U \in usos /\ residentes[i].M \in modificadas}

\* CLOCK replaces the first page from the pointer that is not in use, takes
\* the use bit from those it passes and no other, and stops after the victim;
\* with every page in use it makes a whole turn and replaces the first.
ClockSegundaOportunidad ==
  LET libres == ConBits({FALSE}, BOOLEAN)
      victima == IF libres = {} THEN Lugar(0) ELSE Primera(libres)
      pasadas == IF libres = {} THEN DOMAIN residentes
                 ELSE {Lugar(d) : d \in 0 ..
                         ((victima - 1 - clock_pointer) % MARCOS_POR_PROCESO)}
      b == replace_with_clock(residentes, clock_pointer)
  IN  /\ b.victima = victima
      /\ b.puntero = victima % MARCOS_POR_PROCESO
      /\ \A i \in DOMAIN residentes :
           b.lista[i] = IF i \in pasadas THEN [residentes[i] EXCEPT !.U = FALSE]
                                         ELSE residentes[i]

\* CLOCK-M always finds a victim, and it is the first of the best class there
\* is: not used and not modified, not used, not modified, any.
ClockMejorClase ==
  LET clases == <<ConBits({FALSE}, {FALSE}), ConBits({FALSE}, BOOLEAN),
                  ConBits(BOOLEAN, {FALSE}), DOMAIN residentes>>
      mejor == Min({k \in 1 .. 4 : clases[k] # {}})
  IN  replace_with_clock_m(residentes, clock_pointer).victima
        = Primera(clases[mejor])
=============================================================================
