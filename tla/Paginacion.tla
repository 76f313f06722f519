----------------------------- MODULE Paginacion -----------------------------
(***************************************************************************)
(* Addresses: the page tables and the swap file memory makes for each      *)
(* process (src/ram_swap/src/ram_functions.c, swap_utils.c), and how the   *)
(* CPU splits a logical address to go through them (src/cpu/src/mmu.c).    *)
(*                                                                         *)
(* The two processes share no code here: the CPU divides by the sizes      *)
(* memory told it, memory lays out tables and swap slots in loops of its   *)
(* own.  Tables are numbered from 0, one numbering for all the processes.  *)
(***************************************************************************)
EXTENDS Integers, Sequences

CONSTANTS
  TAM_PAGINA, ENTRADAS_POR_TABLA,
  PROCESS_SIZE          \* PROCESS_SIZE[p]: bytes of process p

ASSUME ConstantesPaginacion ==
  /\ TAM_PAGINA \in Nat \ {0}
  /\ ENTRADAS_POR_TABLA \in Nat \ {0}
  /\ PROCESS_SIZE \in [DOMAIN PROCESS_SIZE -> Nat]

VARIABLES
  global_first_level_page_tables,    \* [pid, first_level_entries]
  global_second_level_page_tables,   \* their pages: [pid, swap_page_id]
  swap_files_list                    \* [pid, swap_size]

tablas == <<global_first_level_page_tables, global_second_level_page_tables,
            swap_files_list>>

InitTablas ==
  /\ global_first_level_page_tables = <<>>
  /\ global_second_level_page_tables = <<>>
  /\ swap_files_list = <<>>

-----------------------------------------------------------------------------
(* Memory: tables and swap file of a new process *)

\* The quotient rounded up.
process_total_pages_needed(size) == (size + TAM_PAGINA - 1) \div TAM_PAGINA

process_complete_second_level_tables(total) == total \div ENTRADAS_POR_TABLA

get_swap_size(size) == process_total_pages_needed(size) * TAM_PAGINA

PaginasDeProceso(pid) == process_total_pages_needed(PROCESS_SIZE[pid])

\* Pages with the swap slots from swap_id on.
create_second_level_table(pages, pid, swap_id) ==
  [i \in 1 .. pages |-> [pid |-> pid, swap_page_id |-> swap_id + (i - 1)]]

\* Mutant: every table starts from slot 0.
tablasDe_SlotsDesdeCero(pid, total) ==
  LET completas == process_complete_second_level_tables(total)
      resto == total % ENTRADAS_POR_TABLA
  IN  [i \in 1 .. completas + (IF resto > 0 THEN 1 ELSE 0) |->
         create_second_level_table(
           IF i <= completas THEN ENTRADAS_POR_TABLA ELSE resto, pid, 0)]

\* The second-level tables of a process: the complete ones, and one for the
\* pages that are left.  The counter of slots goes on from one to the next.
tablasDe(pid, total) ==
  LET completas == process_complete_second_level_tables(total)
      resto == total % ENTRADAS_POR_TABLA
  IN  [i \in 1 .. completas + (IF resto > 0 THEN 1 ELSE 0) |->
         create_second_level_table(
           IF i <= completas THEN ENTRADAS_POR_TABLA ELSE resto,
           pid, (i - 1) * ENTRADAS_POR_TABLA)]

process_table_not_exists(pid) ==
  \A t \in DOMAIN global_first_level_page_tables :
    global_first_level_page_tables[t].pid # pid

\* list_add gives a table the length of the list as its number.
create_pid_memory(pid) ==
  LET nuevas == tablasDe(pid, PaginasDeProceso(pid))
      primera == Len(global_second_level_page_tables)
  IN  /\ process_table_not_exists(pid)
      /\ global_second_level_page_tables' =
           global_second_level_page_tables \o nuevas
      /\ global_first_level_page_tables' =
           Append(global_first_level_page_tables,
                  [pid |-> pid,
                   first_level_entries |->
                     [i \in 1 .. Len(nuevas) |-> primera + (i - 1)]])

\* Mutant: the file has the bytes of the process, not those of its pages.
swap_create_SinRedondear(pid) ==
  swap_files_list' = Append(swap_files_list,
                            [pid |-> pid, swap_size |-> PROCESS_SIZE[pid]])

swap_create(pid) ==
  swap_files_list' = Append(swap_files_list,
                            [pid |-> pid,
                             swap_size |-> get_swap_size(PROCESS_SIZE[pid])])

crearEstructuras(pid) == create_pid_memory(pid) /\ swap_create(pid)

NextTablas == \E pid \in DOMAIN PROCESS_SIZE : crearEstructuras(pid)

SpecTablas == InitTablas /\ [][NextTablas]_tablas

\* Where the slot of a page starts in its swap file.
desplazamientoEnSwap(swap_page_id) == swap_page_id * TAM_PAGINA

-----------------------------------------------------------------------------
(* Memory: going through the tables *)

\* get_second_level_page_table, and get_frame_number up to the page.
get_second_level_page_table(tabla, entrada) ==
  global_first_level_page_tables[tabla + 1].first_level_entries[entrada + 1]

PaginaDeTabla(tabla2, entrada) ==
  global_second_level_page_tables[tabla2 + 1][entrada + 1]

-----------------------------------------------------------------------------
(* The CPU: parts of an address *)

obtenerNumeroPagina(direccion) == direccion \div TAM_PAGINA

obtenerEntradaTabla1erNivel(n) == n \div ENTRADAS_POR_TABLA

obtenerEntradaTabla2doNivel(n) == n % ENTRADAS_POR_TABLA

obtenerDesplazamiento(direccion, n) == direccion - (n * TAM_PAGINA)

obtenerDireccionFisica(desplazamiento, marco) ==
  desplazamiento + (marco * TAM_PAGINA)

-----------------------------------------------------------------------------
(* Properties *)

\* The way through the tables of a process that the CPU computes for its page
\* n (mmu.c:214 and 218) leads to the entry of that page and of no other, in
\* a table of its own process: however many processes share the numbering of
\* second-level tables, and whether the last of them is whole or not.
TraduccionExacta ==
  \A t \in DOMAIN global_first_level_page_tables :
    LET pid == global_first_level_page_tables[t].pid
    IN  \A n \in 0 .. PaginasDeProceso(pid) - 1 :
          PaginaDeTabla(
            get_second_level_page_table(t - 1, obtenerEntradaTabla1erNivel(n)),
            obtenerEntradaTabla2doNivel(n))
          = [pid |-> pid, swap_page_id |-> n]

\* The slot of every page is within the swap file of its process: memcpy over
\* the mapping (swap_utils.c:82 and 141) checks nothing.
SlotEnArchivo ==
  \A t \in DOMAIN global_second_level_page_tables :
    \A i \in DOMAIN global_second_level_page_tables[t] :
      LET g == global_second_level_page_tables[t][i]
      IN  \E a \in DOMAIN swap_files_list :
            /\ swap_files_list[a].pid = g.pid
            /\ desplazamientoEnSwap(g.swap_page_id) + TAM_PAGINA
                 <= swap_files_list[a].swap_size
=============================================================================
