------------------------------ MODULE Memoria ------------------------------
(***************************************************************************)
(* The memory process (src/ram_swap/src): page tables, frames, swap files  *)
(* and page replacement, served by two threads, one for the kernel's       *)
(* requests and one for the CPU's.                                         *)
(*                                                                         *)
(* Data is abstracted to what can be lost: a page holds one value, and the *)
(* model tracks where its latest one is.  memoria[f] is the page whose     *)
(* latest value frame f holds, and swap is the set of pages whose latest   *)
(* value is in their swap file.                                            *)
(*                                                                         *)
(* Processes are numbered from 1 in the order of their initialisation, so  *)
(* that the first-level table of process p is the code's table p - 1.      *)
(* Frames are numbered from 0, as in the code.                             *)
(***************************************************************************)
EXTENDS Reemplazo, FiniteSets, FiniteSetsExt, SequencesExt

CONSTANTS
  Tamanio,              \* Tamanio[p]: pages of process p
  CANTIDAD_FRAMES,      \* TAM_MEMORIA / TAM_PAGINA
  ALGORITMO_REEMPLAZO,
  Salientes,            \* the processes the kernel may suspend or end
  MaxSuspensiones       \* bound: times each of them is suspended

Procesos == DOMAIN Tamanio
Paginas == UNION {{<<p, n>> : n \in 1 .. Tamanio[p]} : p \in Procesos}
PaginasDe(p) == {g \in Paginas : g[1] = p}
Frames == 0 .. CANTIDAD_FRAMES - 1
SIN_FRAME == CANTIDAD_FRAMES     \* create_second_level_page: tam_memoria
NADA == <<0, 0>>                 \* no page: nobody's latest value

ASSUME ConstantesMemoria ==
  /\ Tamanio \in Seq(Nat \ {0})
  /\ CANTIDAD_FRAMES \in Nat \ {0}
  /\ ALGORITMO_REEMPLAZO \in {"CLOCK", "CLOCK-M"}
  /\ Salientes \subseteq Procesos
  /\ MaxSuspensiones \in Nat

VARIABLES
  estado,        \* what the kernel has asked for each process
  suspensiones,
  kernel_queue,  \* requests of the kernel not yet taken
  kernel,        \* the thread process_kernel_functions
  cpu,           \* the thread process_cpu_functions, and the request it serves
  pagina,        \* the second-level entries
  process_extra_info,
  ocupados,      \* occupied_frames_bitarray
  memoria, swap

pedidos == <<estado, suspensiones, kernel_queue>>
datos == <<memoria, swap>>
vars == <<pedidos, kernel, cpu, pagina, process_extra_info, ocupados, datos>>

Estados == {"nuevo", "creando", "listo", "suspendiendo", "suspendido",
            "terminado"}
Pedido == [op : {"INIT", "SUSPEND", "KILL"}, pid : Procesos]
SinPedido == [op |-> "INIT", pid |-> 1]
PaginaInicial == [frame |-> SIN_FRAME, P |-> FALSE, U |-> FALSE, M |-> FALSE]

Init ==
  /\ estado = [p \in Procesos |-> "nuevo"]
  /\ suspensiones = [p \in Procesos |-> 0]
  /\ kernel_queue = <<>>
  /\ kernel = [pc |-> "esperar", pedido |-> SinPedido, n |-> 1]
  /\ cpu = [pc |-> "esperar", pagina |-> NADA, escribe |-> FALSE,
            victima |-> NADA, frame |-> SIN_FRAME]
  /\ pagina = [g \in Paginas |-> PaginaInicial]
  /\ process_extra_info = [p \in Procesos |-> [frames_used |-> 0,
                                               clock_pointer |-> 0]]
  /\ ocupados = {}
  /\ memoria = [f \in Frames |-> NADA]
  /\ swap = {}

-----------------------------------------------------------------------------
(* The kernel's requests.  It initialises a process before it runs, suspends *)
(* or ends only one that is out of the CPU, and waits for the answer to the  *)
(* first two, but not to the third.                                          *)

server_listen_ram(p, op, desde, hasta) ==
  /\ estado[p] = desde
  /\ estado' = [estado EXCEPT ![p] = hasta]
  /\ kernel_queue' = Append(kernel_queue, [op |-> op, pid |-> p])
  /\ UNCHANGED <<kernel, cpu, pagina, process_extra_info, ocupados, datos>>

FueraDeCpu(p) == cpu.pc = "esperar" \/ cpu.pagina[1] # p

PedirInit(p) ==
  /\ \A q \in 1 .. p - 1 : estado[q] # "nuevo"
  /\ server_listen_ram(p, "INIT", "nuevo", "creando")
  /\ UNCHANGED suspensiones

PedirSuspend(p) ==
  /\ p \in Salientes /\ FueraDeCpu(p)
  /\ suspensiones[p] < MaxSuspensiones
  /\ suspensiones' = [suspensiones EXCEPT ![p] = @ + 1]
  /\ server_listen_ram(p, "SUSPEND", "listo", "suspendiendo")

PedirKill(p) ==
  /\ p \in Salientes /\ FueraDeCpu(p)
  /\ server_listen_ram(p, "KILL", "listo", "terminado")
  /\ UNCHANGED suspensiones

\* Its I/O over, a suspended process is admitted again: memory is not told.
Reanudar(p) ==
  /\ estado[p] = "suspendido"
  /\ estado' = [estado EXCEPT ![p] = "listo"]
  /\ UNCHANGED <<suspensiones, kernel_queue, kernel, cpu, pagina,
                 process_extra_info, ocupados, datos>>

-----------------------------------------------------------------------------
(* Swap files *)

\* A frame is written over the swap copy of page g.
write_frame_in_swap(f, g) ==
  swap' = IF memoria[f] = g THEN swap \cup {g} ELSE swap \ {g}

\* The swap copy of page g is written over a frame.
read_page_in_swap(g, f) ==
  memoria' = [memoria EXCEPT ![f] = IF g \in swap THEN g ELSE NADA]

free_process_swap(p) == swap' = swap \ PaginasDe(p)

-----------------------------------------------------------------------------
(* Thread process_kernel_functions *)

\* The kernel's SUSPEND and KILL carry no table number: the one that arrives
\* is 0, the table of the first process, whoever the request is for.
TablaRecibida(p) == 1

Entrada == <<TablaRecibida(kernel.pedido.pid), kernel.n>>
HayEntrada == kernel.n <= Tamanio[TablaRecibida(kernel.pedido.pid)]

\* MUTEX_SECOND_LEVEL_ENTRY: this thread holds it while it goes through a
\* table.
TablaLibre == kernel.pc \notin {"swap_entry", "liberar_frame", "free_entry"}

Tomar(op, pc) ==
  /\ kernel.pc = "esperar"
  /\ kernel_queue # <<>>
  /\ Head(kernel_queue).op = op
  /\ kernel_queue' = Tail(kernel_queue)
  /\ kernel' = [pc |-> pc, pedido |-> Head(kernel_queue), n |-> 1]

\* create_pid_memory, swap_create and the answer.  The swap file is created
\* full of zeros, the value the process's pages start with.
process_init ==
  /\ Tomar("INIT", "esperar")
  /\ LET p == Head(kernel_queue).pid
     IN  /\ estado' = [estado EXCEPT ![p] = "listo"]
         /\ swap' = swap \cup PaginasDe(p)
  /\ UNCHANGED <<suspensiones, cpu, pagina, process_extra_info, ocupados,
                 memoria>>

process_suspend ==
  /\ Tomar("SUSPEND", "swap_entry")
  /\ UNCHANGED <<estado, suspensiones, cpu, pagina, process_extra_info,
                 ocupados, datos>>

process_kill ==
  /\ Tomar("KILL", "free_memory")
  /\ UNCHANGED <<estado, suspensiones, cpu, pagina, process_extra_info,
                 ocupados, datos>>

AEntradaSiguiente(pc) == kernel' = [kernel EXCEPT !.pc = pc, !.n = @ + 1]

\* A modified page in memory is written to swap, then given up.
swap_second_level_entry ==
  /\ kernel.pc = "swap_entry" /\ HayEntrada
  /\ pagina[Entrada].M /\ pagina[Entrada].P
  /\ write_frame_in_swap(pagina[Entrada].frame, Entrada)
  /\ kernel' = [kernel EXCEPT !.pc = "liberar_frame"]
  /\ UNCHANGED <<pedidos, cpu, pagina, process_extra_info, ocupados, memoria>>

\* Mutant: the frame of the page given up stays occupied.
swap_second_level_entry_SinLiberar ==
  /\ kernel.pc = "liberar_frame"
  /\ pagina' = [pagina EXCEPT ![Entrada] =
                  [PaginaInicial EXCEPT !.frame = pagina[Entrada].frame]]
  /\ AEntradaSiguiente("swap_entry")
  /\ UNCHANGED <<pedidos, cpu, process_extra_info, ocupados, datos>>

swap_second_level_entry_Liberar ==
  /\ kernel.pc = "liberar_frame"
  /\ pagina' = [pagina EXCEPT ![Entrada] =
                  [PaginaInicial EXCEPT !.frame = pagina[Entrada].frame]]
  /\ ocupados' = ocupados \ {pagina[Entrada].frame}
  /\ AEntradaSiguiente("swap_entry")
  /\ UNCHANGED <<pedidos, cpu, process_extra_info, datos>>

\* Any other page is left as it is.
swap_second_level_entry_Saltear ==
  /\ kernel.pc = "swap_entry" /\ HayEntrada
  /\ ~(pagina[Entrada].M /\ pagina[Entrada].P)
  /\ AEntradaSiguiente("swap_entry")
  /\ UNCHANGED <<pedidos, cpu, pagina, process_extra_info, ocupados, datos>>

\* Mutant: frames_used survives the suspension.
suspend_pid_Fin_SinContador ==
  /\ kernel.pc = "swap_entry" /\ ~HayEntrada
  /\ kernel' = [kernel EXCEPT !.pc = "free_memory"]
  /\ UNCHANGED <<pedidos, cpu, pagina, process_extra_info, ocupados, datos>>

suspend_pid_Fin ==
  /\ kernel.pc = "swap_entry" /\ ~HayEntrada
  /\ process_extra_info' =
       [process_extra_info EXCEPT ![kernel.pedido.pid].frames_used = 0]
  /\ kernel' = [kernel EXCEPT !.pc = "free_memory"]
  /\ UNCHANGED <<pedidos, cpu, pagina, ocupados, datos>>

free_memory ==
  /\ kernel.pc = "free_memory"
  /\ kernel' = [kernel EXCEPT !.pc = "free_entry", !.n = 1]
  /\ UNCHANGED <<pedidos, cpu, pagina, process_extra_info, ocupados, datos>>

\* The frame of a page still in memory is freed; the page keeps its bits.
free_second_level_entry ==
  /\ kernel.pc = "free_entry" /\ HayEntrada
  /\ ocupados' = IF pagina[Entrada].P
                   THEN ocupados \ {pagina[Entrada].frame} ELSE ocupados
  /\ AEntradaSiguiente("free_entry")
  /\ UNCHANGED <<pedidos, cpu, pagina, process_extra_info, datos>>

\* Mutant: the kernel gets no answer.
process_suspend_Fin_SinRespuesta ==
  /\ kernel.pc = "free_entry" /\ ~HayEntrada /\ kernel.pedido.op = "SUSPEND"
  /\ kernel' = [kernel EXCEPT !.pc = "esperar"]
  /\ UNCHANGED <<pedidos, cpu, pagina, process_extra_info, ocupados, datos>>

process_suspend_Fin ==
  /\ kernel.pc = "free_entry" /\ ~HayEntrada /\ kernel.pedido.op = "SUSPEND"
  /\ estado' = [estado EXCEPT ![kernel.pedido.pid] = "suspendido"]
  /\ kernel' = [kernel EXCEPT !.pc = "esperar"]
  /\ UNCHANGED <<suspensiones, kernel_queue, cpu, pagina, process_extra_info,
                 ocupados, datos>>

process_kill_Fin ==
  /\ kernel.pc = "free_entry" /\ ~HayEntrada /\ kernel.pedido.op = "KILL"
  /\ free_process_swap(kernel.pedido.pid)
  /\ kernel' = [kernel EXCEPT !.pc = "esperar"]
  /\ UNCHANGED <<pedidos, cpu, pagina, process_extra_info, ocupados, memoria>>

process_kernel_salida ==
  \/ process_suspend \/ process_kill
  \/ swap_second_level_entry \/ swap_second_level_entry_Liberar
  \/ swap_second_level_entry_Saltear \/ suspend_pid_Fin
  \/ free_memory \/ free_second_level_entry
  \/ process_suspend_Fin \/ process_kill_Fin

process_kernel_functions == process_init \/ process_kernel_salida

-----------------------------------------------------------------------------
(* Thread process_cpu_functions: get_frame_read or get_frame_write, then the *)
(* access to the frame that was answered.                                    *)

extra == process_extra_info[cpu.pagina[1]]

CpuPasa(pc) == cpu' = [cpu EXCEPT !.pc = pc]

get_frame(g, escribe) ==
  /\ cpu.pc = "esperar"
  /\ estado[g[1]] = "listo"
  /\ cpu' = [cpu EXCEPT !.pc = "consultar", !.pagina = g, !.escribe = escribe]
  /\ UNCHANGED <<pedidos, kernel, pagina, process_extra_info, ocupados, datos>>

get_frame_number_Presente ==
  /\ cpu.pc = "consultar"
  /\ pagina[cpu.pagina].P
  /\ CpuPasa("marcar")
  /\ UNCHANGED <<pedidos, kernel, pagina, process_extra_info, ocupados, datos>>

\* Mutants: one frame too many, and the frame not marked as occupied.
get_frame_number_FrameDeMas ==
  /\ cpu.pc = "consultar"
  /\ ~pagina[cpu.pagina].P
  /\ extra.frames_used <= MARCOS_POR_PROCESO
  /\ Frames \ ocupados # {}
  /\ LET f == Min(Frames \ ocupados)
     IN  /\ ocupados' = ocupados \cup {f}
         /\ pagina' = [pagina EXCEPT ![cpu.pagina].frame = f]
  /\ process_extra_info' =
       [process_extra_info EXCEPT ![cpu.pagina[1]].frames_used = @ + 1]
  /\ CpuPasa("cargar")
  /\ UNCHANGED <<pedidos, kernel, datos>>

get_frame_number_FrameSinMarcar ==
  /\ cpu.pc = "consultar"
  /\ ~pagina[cpu.pagina].P
  /\ extra.frames_used < MARCOS_POR_PROCESO
  /\ pagina' = [pagina EXCEPT ![cpu.pagina].frame = Min(Frames \ ocupados)]
  /\ process_extra_info' =
       [process_extra_info EXCEPT ![cpu.pagina[1]].frames_used = @ + 1]
  /\ CpuPasa("cargar")
  /\ UNCHANGED <<pedidos, kernel, ocupados, datos>>

\* The first free frame.  The code's scan of the bitmap has no end: with no
\* free frame it leaves the bitmap, and the model stops.
get_frame_number_FrameLibre ==
  /\ cpu.pc = "consultar"
  /\ ~pagina[cpu.pagina].P
  /\ extra.frames_used < MARCOS_POR_PROCESO
  /\ Frames \ ocupados # {}
  /\ LET f == Min(Frames \ ocupados)
     IN  /\ ocupados' = ocupados \cup {f}
         /\ pagina' = [pagina EXCEPT ![cpu.pagina].frame = f]
  /\ process_extra_info' =
       [process_extra_info EXCEPT ![cpu.pagina[1]].frames_used = @ + 1]
  /\ CpuPasa("cargar")
  /\ UNCHANGED <<pedidos, kernel, datos>>

\* The pages of process p in memory, by frame.
AntesPorFrame(g, h) ==
  \/ pagina[g].frame < pagina[h].frame
  \/ pagina[g].frame = pagina[h].frame /\ g[2] < h[2]

listaEntradas(p) ==
  CHOOSE lista \in SetToSeqs({g \in PaginasDe(p) : pagina[g].P}) :
    \A i, j \in DOMAIN lista : i < j => AntesPorFrame(lista[i], lista[j])

BitsDe(lista) ==
  [i \in DOMAIN lista |-> [U |-> pagina[lista[i]].U, M |-> pagina[lista[i]].M]]

Lugar(lista, g) == CHOOSE i \in DOMAIN lista : lista[i] = g

\* list_get finds a page at every place the pointer takes.
PunteroEnLista == Len(listaEntradas(cpu.pagina[1])) >= MARCOS_POR_PROCESO

BuscaVictima ==
  /\ cpu.pc = "consultar"
  /\ ~pagina[cpu.pagina].P
  /\ extra.frames_used >= MARCOS_POR_PROCESO

\* On a shorter list the code follows a null pointer, and the model stops.
find_victim_page_to_replace ==
  /\ BuscaVictima
  /\ TablaLibre
  /\ PunteroEnLista
  /\ LET lista == listaEntradas(cpu.pagina[1])
         b == ElegirVictima(ALGORITMO_REEMPLAZO, BitsDe(lista),
                            extra.clock_pointer)
     IN  /\ pagina' = [g \in Paginas |->
              IF \E i \in DOMAIN lista : lista[i] = g
                THEN [pagina[g] EXCEPT !.U = b.lista[Lugar(lista, g)].U]
                ELSE pagina[g]]
         /\ process_extra_info' =
              [process_extra_info EXCEPT
                 ![cpu.pagina[1]].clock_pointer = b.puntero]
         /\ cpu' = [cpu EXCEPT !.pc = "reemplazar",
                               !.victima = lista[b.victima]]
  /\ UNCHANGED <<pedidos, kernel, ocupados, datos>>

\* A modified victim is written to swap, and its process has a frame less.
get_frame_number_Guardar ==
  /\ cpu.pc = "reemplazar"
  /\ pagina[cpu.victima].M
  /\ write_frame_in_swap(pagina[cpu.victima].frame, cpu.victima)
  /\ process_extra_info' =
       [process_extra_info EXCEPT ![cpu.victima[1]].frames_used = @ - 1]
  /\ CpuPasa("desalojar")
  /\ UNCHANGED <<pedidos, kernel, pagina, ocupados, memoria>>

\* Mutant: the victim keeps its bits.
get_frame_number_Desalojar_SinLimpiar ==
  /\ \/ cpu.pc = "desalojar"
     \/ cpu.pc = "reemplazar" /\ ~pagina[cpu.victima].M
  /\ pagina' = [pagina EXCEPT ![cpu.pagina].frame = pagina[cpu.victima].frame]
  /\ CpuPasa("cargar")
  /\ UNCHANGED <<pedidos, kernel, process_extra_info, ocupados, datos>>

get_frame_number_Desalojar ==
  /\ \/ cpu.pc = "desalojar"
     \/ cpu.pc = "reemplazar" /\ ~pagina[cpu.victima].M
  /\ LET f == pagina[cpu.victima].frame
     IN  pagina' = [pagina EXCEPT
                      ![cpu.victima] = [PaginaInicial EXCEPT !.frame = f],
                      ![cpu.pagina].frame = f]
  /\ CpuPasa("cargar")
  /\ UNCHANGED <<pedidos, kernel, process_extra_info, ocupados, datos>>

\* Mutant: the page loaded is not marked as present.
write_page_in_memory_SinPresencia ==
  /\ cpu.pc = "cargar"
  /\ read_page_in_swap(cpu.pagina, pagina[cpu.pagina].frame)
  /\ CpuPasa("marcar")
  /\ UNCHANGED <<pedidos, kernel, pagina, process_extra_info, ocupados, swap>>

write_page_in_memory ==
  /\ cpu.pc = "cargar"
  /\ read_page_in_swap(cpu.pagina, pagina[cpu.pagina].frame)
  /\ pagina' = [pagina EXCEPT ![cpu.pagina].P = TRUE]
  /\ CpuPasa("marcar")
  /\ UNCHANGED <<pedidos, kernel, process_extra_info, ocupados, swap>>

\* Mutant: a read of a modified page makes it a clean one.
get_frame_number_Marcar_PisaM ==
  /\ cpu.pc = "marcar"
  /\ pagina' = [pagina EXCEPT ![cpu.pagina].U = TRUE,
                              ![cpu.pagina].M = cpu.escribe]
  /\ cpu' = [cpu EXCEPT !.pc = "acceder", !.frame = pagina[cpu.pagina].frame]
  /\ UNCHANGED <<pedidos, kernel, process_extra_info, ocupados, datos>>

get_frame_number_Marcar ==
  /\ cpu.pc = "marcar"
  /\ pagina' = [pagina EXCEPT ![cpu.pagina].U = TRUE,
                              ![cpu.pagina].M = @ \/ cpu.escribe]
  /\ cpu' = [cpu EXCEPT !.pc = "acceder", !.frame = pagina[cpu.pagina].frame]
  /\ UNCHANGED <<pedidos, kernel, process_extra_info, ocupados, datos>>

Responde == cpu' = [cpu EXCEPT !.pc = "esperar", !.pagina = NADA,
                     !.escribe = FALSE, !.victima = NADA, !.frame = SIN_FRAME]

read_fisical_address ==
  /\ cpu.pc = "acceder" /\ ~cpu.escribe
  /\ Responde
  /\ UNCHANGED <<pedidos, kernel, pagina, process_extra_info, ocupados, datos>>

\* The frame gets the page's new value, and any other copy is an old one.
write_memory_data ==
  /\ cpu.pc = "acceder" /\ cpu.escribe
  /\ memoria' = [f \in Frames |-> IF f = cpu.frame THEN cpu.pagina
                                  ELSE IF memoria[f] = cpu.pagina THEN NADA
                                  ELSE memoria[f]]
  /\ swap' = swap \ {cpu.pagina}
  /\ Responde
  /\ UNCHANGED <<pedidos, kernel, pagina, process_extra_info, ocupados>>

process_cpu_functions ==
  \/ get_frame_number_Presente \/ get_frame_number_FrameLibre
  \/ find_victim_page_to_replace
  \/ get_frame_number_Guardar \/ get_frame_number_Desalojar
  \/ write_page_in_memory \/ get_frame_number_Marcar
  \/ read_fisical_address \/ write_memory_data

Entorno ==
  \/ \E p \in Procesos :
       PedirInit(p) \/ PedirSuspend(p) \/ PedirKill(p) \/ Reanudar(p)
  \/ \E g \in Paginas, escribe \in BOOLEAN : get_frame(g, escribe)

Next == Entorno \/ process_kernel_functions \/ process_cpu_functions

\* The two threads run whenever they can; nothing forces a request to arrive.
Spec ==
  /\ Init /\ [][Next]_vars
  /\ WF_vars(process_kernel_functions)
  /\ WF_vars(process_cpu_functions)

-----------------------------------------------------------------------------
(* Properties *)

TypeOK ==
  /\ estado \in [Procesos -> Estados]
  /\ suspensiones \in [Procesos -> 0 .. MaxSuspensiones]
  /\ kernel_queue \in Seq(Pedido)
  /\ kernel \in [pc : {"esperar", "swap_entry", "liberar_frame", "free_memory",
                       "free_entry"}, pedido : Pedido \cup {SinPedido},
                n : Nat]
  /\ cpu \in [pc : {"esperar", "consultar", "reemplazar", "desalojar",
                    "cargar", "marcar", "acceder"},
              pagina : Paginas \cup {NADA}, escribe : BOOLEAN,
              victima : Paginas \cup {NADA}, frame : 0 .. CANTIDAD_FRAMES]
  /\ pagina \in [Paginas -> [frame : 0 .. CANTIDAD_FRAMES, P : BOOLEAN,
                             U : BOOLEAN, M : BOOLEAN]]
  /\ process_extra_info \in
       [Procesos -> [frames_used : 0 .. MARCOS_POR_PROCESO,
                     clock_pointer : 0 .. MARCOS_POR_PROCESO - 1]]
  /\ ocupados \subseteq Frames
  /\ memoria \in [Frames -> Paginas \cup {NADA}]
  /\ swap \subseteq Paginas

Vivas == {g \in Paginas : estado[g[1]] \notin {"nuevo", "creando", "terminado"}}
Presentes == {g \in Vivas : pagina[g].P}

\* A page whose presence bit is set is in memory: its frame holds the last
\* value written to it, so that a read returns that value
\* (ram_functions.c:286, "Pagina no esta presente en memoria" when it is not).
PresenteEnMemoria == \A g \in Presentes : memoria[pagina[g].frame] = g

\* No value written is lost: the latest one of every page is in a frame or in
\* the swap file, through replacements and the other processes' accesses.
SinDatosPerdidos ==
  \A g \in Vivas : g \in swap \/ \E f \in Frames : memoria[f] = g

\* The frame of the page being brought in.
EnTransito ==
  IF cpu.pc = "cargar" THEN {pagina[cpu.pagina].frame} ELSE {}

\* Each present page has a frame of its own, marked as occupied, and no frame
\* is marked as occupied for nobody.
FramesExactos ==
  /\ ocupados = {pagina[g].frame : g \in Presentes} \cup EnTransito
  /\ Cardinality(ocupados) = Cardinality(Presentes) + Cardinality(EnTransito)

\* No frame is occupied for nobody: what suspensions and ends free is never
\* less than what was taken.
SinFugaDeFrames ==
  ocupados \subseteq {pagina[g].frame : g \in {h \in Paginas : pagina[h].P}}
                     \cup EnTransito

\* When a victim is looked for, the process has at least MARCOS_POR_PROCESO
\* pages in memory: the clock pointer never leaves the list.
VictimaDisponible == BuscaVictima => PunteroEnLista

\* Every access is answered, and every suspension is.
PedidosRespondidos ==
  /\ cpu.pc # "esperar" ~> cpu.pc = "esperar"
  /\ \A p \in Procesos : estado[p] = "suspendiendo" ~> estado[p] = "suspendido"

\* A process has as many frames as frames_used says
\* (ram_functions.c:324: the process of the victim has a frame less).
FramesUsadosExactos ==
  cpu.pc = "esperar" =>
    \A p \in Procesos : process_extra_info[p].frames_used
                          = Cardinality(Presentes \cap PaginasDe(p))

\* Suspending a process moves its pages to swap (ram_functions.c:129,
\* "Swapeando paginas del proceso"): none of its values is only in memory.
SuspensionGuarda ==
  \A g \in Paginas : estado[g[1]] = "suspendido" => g \in swap
=============================================================================
