-------------------------------- MODULE Mmu --------------------------------
(***************************************************************************)
(* The TLB of the CPU (src/cpu/src/mmu.c).  An entry holds a page number   *)
(* and a frame, and not the process: the TLB is emptied when the process   *)
(* dispatched is not the one of the last time.                             *)
(*                                                                         *)
(* The code stamps each entry with a counter of accesses, which only ever  *)
(* serves to order the entries.  The model keeps that order: usos is the   *)
(* sequence of the pages in the TLB, the least recently stamped first.     *)
(***************************************************************************)
EXTENDS Integers, Sequences, SequencesExt

CONSTANTS ENTRADAS_TLB, REEMPLAZO_TLB

ASSUME ConstantesMmu ==
  /\ ENTRADAS_TLB \in Nat \ {0}
  /\ REEMPLAZO_TLB \in {"FIFO", "LRU"}

VARIABLES listaTLB, usos, indiceFIFO, PCB_ACTUAL

tlb == <<listaTLB, usos, indiceFIFO, PCB_ACTUAL>>

iniciarEstructurasMMU(pid) ==
  /\ listaTLB = <<>> /\ usos = <<>>
  /\ indiceFIFO = 0
  /\ PCB_ACTUAL = pid

EntradasDe(n) == {i \in DOMAIN listaTLB : listaTLB[i].pagina = n}

\* list_find: the first entry of the page.
obtenerEntradaTLB(n) == listaTLB[Min(EntradasDe(n))]

actualizarTLB(n) ==
  /\ usos' = Append(RemoveFirst(usos, n), n)
  /\ UNCHANGED <<listaTLB, indiceFIFO, PCB_ACTUAL>>

newEntradaTLB(n, marco) == [pagina |-> n, marco |-> marco]

agregarTLB_Libre(n, marco) ==
  /\ Len(listaTLB) < ENTRADAS_TLB
  /\ listaTLB' = Append(listaTLB, newEntradaTLB(n, marco))
  /\ usos' = Append(usos, n)
  /\ UNCHANGED indiceFIFO

reemplazarTLB_FIFO(n, marco) ==
  /\ Len(listaTLB) >= ENTRADAS_TLB /\ REEMPLAZO_TLB = "FIFO"
  /\ listaTLB' = [listaTLB EXCEPT ![indiceFIFO + 1] = newEntradaTLB(n, marco)]
  /\ usos' = Append(RemoveFirst(usos, listaTLB[indiceFIFO + 1].pagina), n)
  /\ indiceFIFO' = (indiceFIFO + 1) % ENTRADAS_TLB

\* Mutant: the entry replaced stays.
reemplazarTLB_LRU_SinQuitar(n, marco) ==
  /\ Len(listaTLB) >= ENTRADAS_TLB /\ REEMPLAZO_TLB = "LRU"
  /\ LET ordenada == [i \in DOMAIN usos |-> obtenerEntradaTLB(usos[i])]
     IN  listaTLB' = Append(ordenada, newEntradaTLB(n, marco))
  /\ usos' = Append(usos, n)
  /\ UNCHANGED indiceFIFO

\* The list is sorted by stamp, its head removed and the new entry added.
reemplazarTLB_LRU(n, marco) ==
  /\ Len(listaTLB) >= ENTRADAS_TLB /\ REEMPLAZO_TLB = "LRU"
  /\ LET ordenada == [i \in DOMAIN usos |-> obtenerEntradaTLB(usos[i])]
     IN  listaTLB' = Append(Tail(ordenada), newEntradaTLB(n, marco))
  /\ usos' = Append(Tail(usos), n)
  /\ UNCHANGED indiceFIFO

agregarTLB(n, marco) ==
  /\ \/ agregarTLB_Libre(n, marco)
     \/ reemplazarTLB_FIFO(n, marco)
     \/ reemplazarTLB_LRU(n, marco)
  /\ UNCHANGED PCB_ACTUAL

\* Mutant: the TLB survives a change of process.
vaciarTLB_Nunca(pid) ==
  /\ PCB_ACTUAL' = pid
  /\ UNCHANGED <<listaTLB, usos, indiceFIFO>>

\* indiceFIFO is not reset.
vaciarTLB(pid) ==
  /\ PCB_ACTUAL' = pid
  /\ IF PCB_ACTUAL # pid THEN listaTLB' = <<>> /\ usos' = <<>>
                         ELSE UNCHANGED <<listaTLB, usos>>
  /\ UNCHANGED indiceFIFO
=============================================================================
