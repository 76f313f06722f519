----------------------------- MODULE MemoriaMmu -----------------------------
(***************************************************************************)
(* The memory process composed with the CPU's MMU: the accesses of the     *)
(* process in the CPU, to a logical address and through the TLB or the     *)
(* tables, take the place of the requests that Memoria.tla allows any      *)
(* process.  On a hit the frame of the entry is read or written, and       *)
(* get_frame_number is not called.                                         *)
(***************************************************************************)
EXTENDS Memoria, Mmu, Paginacion

CONSTANT Direcciones    \* the logical addresses that programs name

\* Programs keep within their process and their addresses are multiples of
\* the four bytes read or written, as is the size of a page.
ASSUME ConstantesMemoriaMmu ==
  /\ Direcciones \subseteq Nat /\ \A d \in Direcciones : d % 4 = 0
  /\ TAM_PAGINA % 4 = 0
  /\ DOMAIN PROCESS_SIZE = Procesos
  /\ \A p \in Procesos : Tamanio[p] = PaginasDeProceso(p)

VARIABLES
  ejecutando,       \* the process in the CPU, or NADIE
  tablaDePaginas,   \* of each PCB: the number memory answered
  acceso            \* the access in the CPU: its address, what it has so far

NADIE == 0

AccesoLibre == [pc |-> "libre", direccion |-> 0, escribe |-> FALSE, tabla2 |-> 0,
                fisica |-> 0]

cpuMmu == <<tlb, ejecutando, acceso>>
varsSistema == <<vars, cpuMmu, tablas, tablaDePaginas>>

InitSistema ==
  /\ Init /\ InitTablas /\ iniciarEstructurasMMU(1)
  /\ ejecutando = NADIE
  /\ tablaDePaginas = [p \in Procesos |-> 0]
  /\ acceso = AccesoLibre

\* A process is dispatched, and goes back to the kernel between accesses.
deserializarDispatch(p) ==
  /\ ejecutando = NADIE /\ estado[p] = "listo"
  /\ vaciarTLB(p)
  /\ ejecutando' = p
  /\ UNCHANGED <<vars, tablas, tablaDePaginas, acceso>>

cicloInstruccion_Devuelve ==
  /\ ejecutando # NADIE /\ acceso.pc = "libre"
  /\ ejecutando' = NADIE
  /\ UNCHANGED <<vars, tlb, tablas, tablaDePaginas, acceso>>

\* On a miss, the first of two requests: the second-level table.
consultarTablaSegundoNivel(d, escribe) ==
  /\ ejecutando # NADIE /\ acceso.pc = "libre"
  /\ d + 4 <= PROCESS_SIZE[ejecutando]
  /\ LET n == obtenerNumeroPagina(d)
     IN  /\ EntradasDe(n) = {}
         /\ acceso' = [pc |-> "tabla", direccion |-> d, escribe |-> escribe,
                       tabla2 |-> get_second_level_page_table(
                                    tablaDePaginas[ejecutando],
                                    obtenerEntradaTabla1erNivel(n)),
                       fisica |-> 0]
  /\ UNCHANGED <<vars, tlb, ejecutando, tablas, tablaDePaginas>>

numeroPagina == obtenerNumeroPagina(acceso.direccion)

direccionFisica(d, marco) ==
  obtenerDireccionFisica(obtenerDesplazamiento(d, obtenerNumeroPagina(d)), marco)

\* Then the frame of the entry, which is of the page the tables say.
consultarMarco ==
  /\ acceso.pc = "tabla"
  /\ LET g == PaginaDeTabla(acceso.tabla2,
                            obtenerEntradaTabla2doNivel(numeroPagina))
     IN  get_frame(<<g.pid, g.swap_page_id + 1>>, acceso.escribe)
  /\ acceso' = [acceso EXCEPT !.pc = "marco"]
  /\ UNCHANGED <<tlb, ejecutando, tablas, tablaDePaginas>>

\* Memory answers with the frame, and the MMU adds it to the TLB.
consultarDireccionFisica_Miss ==
  /\ acceso.pc = "marco"
  /\ get_frame_number_Marcar
  /\ LET marco == pagina[cpu.pagina].frame
     IN  /\ agregarTLB(numeroPagina, marco)
         /\ acceso' = [acceso EXCEPT !.pc = "direccion",
                         !.fisica = direccionFisica(acceso.direccion, marco)]
  /\ UNCHANGED <<ejecutando, tablas, tablaDePaginas>>

\* The page of the access is the CPU's idea of it: memory is not asked.
consultarDireccionFisica_Hit(d, escribe) ==
  /\ ejecutando # NADIE /\ acceso.pc = "libre"
  /\ d + 4 <= PROCESS_SIZE[ejecutando]
  /\ LET n == obtenerNumeroPagina(d)
         fisica == direccionFisica(d, obtenerEntradaTLB(n).marco)
     IN  /\ EntradasDe(n) # {}
         /\ acceso' = [AccesoLibre EXCEPT !.pc = "direccion", !.direccion = d,
                                          !.escribe = escribe, !.fisica = fisica]
         /\ cpu' = [cpu EXCEPT !.pc = "acceder", !.pagina = <<ejecutando, n + 1>>,
                               !.escribe = escribe,
                               !.frame = fisica \div TAM_PAGINA]
         /\ actualizarTLB(n)
  /\ UNCHANGED <<pedidos, kernel, pagina, process_extra_info, ocupados, datos,
                 ejecutando, tablas, tablaDePaginas>>

\* The bytes at the physical address are read or written.
memoria_read == read_fisical_address
memoria_write == write_memory_data

Acceder ==
  /\ memoria_read \/ memoria_write
  /\ acceso' = AccesoLibre
  /\ UNCHANGED <<tlb, ejecutando, tablas, tablaDePaginas>>

\* A new process gets its tables, its swap file and the number of its table.
process_init_Tablas ==
  /\ process_init
  /\ LET p == Head(kernel_queue).pid
     IN  /\ crearEstructuras(p)
         /\ tablaDePaginas' = [tablaDePaginas EXCEPT
                                 ![p] = Len(global_first_level_page_tables)]
  /\ UNCHANGED cpuMmu

PasoMemoria ==
  /\ \/ process_kernel_salida
     \/ get_frame_number_Presente \/ get_frame_number_FrameLibre
     \/ find_victim_page_to_replace
     \/ get_frame_number_Guardar \/ get_frame_number_Desalojar
     \/ write_page_in_memory
  /\ UNCHANGED <<cpuMmu, tablas, tablaDePaginas>>

PasoKernel ==
  /\ \E p \in Procesos :
       \/ PedirInit(p) \/ Reanudar(p)
       \/ p # ejecutando /\ (PedirSuspend(p) \/ PedirKill(p))
  /\ UNCHANGED <<cpuMmu, tablas, tablaDePaginas>>

NextSistema ==
  \/ PasoKernel \/ PasoMemoria \/ process_init_Tablas
  \/ \E p \in Procesos : deserializarDispatch(p)
  \/ cicloInstruccion_Devuelve
  \/ \E d \in Direcciones, escribe \in BOOLEAN :
       \/ consultarTablaSegundoNivel(d, escribe)
       \/ consultarDireccionFisica_Hit(d, escribe)
  \/ consultarMarco \/ consultarDireccionFisica_Miss \/ Acceder

SpecSistema == InitSistema /\ [][NextSistema]_varsSistema

-----------------------------------------------------------------------------
(* Properties *)

\* The four bytes of an access are those of its logical address: they are in
\* one frame, at the offset of the address, and that frame holds the last
\* value of its page, whether it came from the tables or from the TLB
\* (mmu.c:201, "TLB HIT: página ... - marco ... encontrada en TLB").  No entry
\* outlives its page, and none is taken for the same page of another process.
AccesoVigente ==
  acceso.pc = "direccion" =>
    LET f == acceso.fisica \div TAM_PAGINA
        o == acceso.fisica % TAM_PAGINA
    IN  /\ f \in Frames /\ cpu.frame = f
        /\ o = acceso.direccion % TAM_PAGINA /\ o + 4 <= TAM_PAGINA
        /\ memoria[f] = <<ejecutando, (acceso.direccion \div TAM_PAGINA) + 1>>

\* The TLB has no more than its entries, one for each page at most, and its
\* stamps order exactly the pages it holds: a page added twice would leave an
\* old frame to be found first.
TlbSinDuplicados ==
  /\ Len(listaTLB) <= ENTRADAS_TLB
  /\ Len(usos) = Len(listaTLB)
  /\ \A i, j \in DOMAIN listaTLB :
       listaTLB[i].pagina = listaTLB[j].pagina => i = j
  /\ ToSet(usos) = {listaTLB[i].pagina : i \in DOMAIN listaTLB}
=============================================================================
