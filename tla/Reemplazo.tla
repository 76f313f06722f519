----------------------------- MODULE Reemplazo -----------------------------
(***************************************************************************)
(* The two page replacement algorithms of the memory process               *)
(* (replace_with_clock and replace_with_clock_m in                         *)
(* src/ram_swap/src/ram_functions.c), as functions of the bits of the      *)
(* resident pages of one process, sorted by frame, and of its clock        *)
(* pointer.  A loop of the code is a function of the number of its steps.  *)
(*                                                                         *)
(* The pointer is counted from 0, and modulo MARCOS_POR_PROCESO, not       *)
(* modulo the length of the list: on a shorter list list_get returns NULL  *)
(* and the memory process dies.  The operators are for lists at least as   *)
(* long as MARCOS_POR_PROCESO.                                             *)
(***************************************************************************)
EXTENDS Integers, Sequences

CONSTANT MARCOS_POR_PROCESO

ASSUME ConstantesReemplazo == MARCOS_POR_PROCESO \in Nat \ {0}

\* The bits of a resident page.
Bits == [U : BOOLEAN, M : BOOLEAN]

Avanzar(puntero) == (puntero + 1) % MARCOS_POR_PROCESO

SinUso(lista, i) == [lista EXCEPT ![i].U = FALSE]

\* The state of a search: no victim yet.
Busqueda(lista, puntero) ==
  [lista |-> lista, puntero |-> puntero, victima |-> 0, fin |-> FALSE]

-----------------------------------------------------------------------------
(* CLOCK *)

\* Mutant: the pointer stays on the victim.
PasoClock_SinAvanzar(s) ==
  LET i == s.puntero + 1
      en_uso == s.lista[i].U
  IN  [lista |-> IF en_uso THEN SinUso(s.lista, i) ELSE s.lista,
       puntero |-> IF en_uso THEN Avanzar(s.puntero) ELSE s.puntero,
       victima |-> IF en_uso THEN 0 ELSE i,
       fin |-> ~en_uso]

PasoClock(s) ==
  LET i == s.puntero + 1
      en_uso == s.lista[i].U
  IN  [lista |-> IF en_uso THEN SinUso(s.lista, i) ELSE s.lista,
       puntero |-> Avanzar(s.puntero),
       victima |-> IF en_uso THEN 0 ELSE i,
       fin |-> ~en_uso]

\* while (true), until a page with U = 0: one turn and one page at most.
replace_with_clock(lista, puntero) ==
  LET tras[k \in 0 .. MARCOS_POR_PROCESO + 1] ==
        IF k = 0 THEN Busqueda(lista, puntero)
        ELSE IF tras[k - 1].fin THEN tras[k - 1] ELSE PasoClock(tras[k - 1])
  IN  tras[MARCOS_POR_PROCESO + 1]

-----------------------------------------------------------------------------
(* CLOCK-M *)

\* One step of a turn that looks for U = 0 and M = modificada; limpia, when it
\* clears U of the pages it passes.  A turn after the victim was found goes on
\* turning, and clearing.
PasoClockM(s, inicio, modificada, limpia) ==
  LET i == s.puntero + 1
      encontrada == s.victima = 0 /\ ~s.lista[i].U /\ s.lista[i].M = modificada
      siguiente == Avanzar(s.puntero)
  IN  [lista |-> IF limpia /\ ~encontrada
                   THEN SinUso(s.lista, i) ELSE s.lista,
       puntero |-> siguiente,
       victima |-> IF encontrada THEN i ELSE s.victima,
       fin |-> encontrada \/ siguiente = inicio]

\* A turn ends at the victim or back at the pointer the search started from.
VueltaClockM(s, inicio, modificada, limpia) ==
  LET tras[k \in 0 .. MARCOS_POR_PROCESO] ==
        IF k = 0 THEN [s EXCEPT !.fin = FALSE]
        ELSE IF tras[k - 1].fin THEN tras[k - 1]
        ELSE PasoClockM(tras[k - 1], inicio, modificada, limpia)
  IN  tras[MARCOS_POR_PROCESO]

\* Mutant: the second turn clears no use bit.
replace_with_clock_m_SinLimpiar(lista, puntero) ==
  LET primera == VueltaClockM(Busqueda(lista, puntero), puntero, FALSE, FALSE)
      segunda == VueltaClockM(primera, puntero, TRUE, FALSE)
      tercera == VueltaClockM(segunda, puntero, FALSE, FALSE)
  IN  PasoClockM(tercera, puntero, TRUE, TRUE)

\* Four turns, each run whether or not the one before found a victim; the
\* fourth leaves its loop after one page.
replace_with_clock_m(lista, puntero) ==
  LET primera == VueltaClockM(Busqueda(lista, puntero), puntero, FALSE, FALSE)
      segunda == VueltaClockM(primera, puntero, TRUE, TRUE)
      tercera == VueltaClockM(segunda, puntero, FALSE, FALSE)
  IN  PasoClockM(tercera, puntero, TRUE, TRUE)

ElegirVictima(algoritmo, lista, puntero) ==
  IF algoritmo = "CLOCK" THEN replace_with_clock(lista, puntero)
                         ELSE replace_with_clock_m(lista, puntero)
=============================================================================
