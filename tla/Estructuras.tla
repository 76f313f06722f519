---------------------------- MODULE Estructuras ----------------------------
(***************************************************************************)
(* The structures kernel and CPU send each other, and the kernel sends to  *)
(* a console (src/kernel/src/estructura.c and                              *)
(* src/cpu/src/protocolo_transferencia.c).  The two processes compile each *)
(* their own copy of these functions: they write and read the same bytes,  *)
(* and differ in the operations their tables know.                         *)
(*                                                                         *)
(* Of the tables, the system sends REQ_PCB_A_EJECUTAR_KERNEL_CPU,          *)
(* REQ_INTERRUPCION_KERNEL_CPU, EXIT_CONSOLE and the three PCB_EJECUTADO;  *)
(* the other operations are of an earlier protocol with memory.            *)
(***************************************************************************)
EXTENDS Serializacion

EnterosPcb == 7      \* the integers of a PCB before its program

\* A PCB: its integers in the order they are sent, then the program.
pcb_serializar_estruc(pcb) ==
  Enteros(<<pcb.id, pcb.tamanioProceso, pcb.PC, pcb.tablaDePaginas,
            pcb.estimacionRafaga, pcb.lengthUltimaRafaga,
            pcb.sizeInstrucciones>>)
    \o serialize_instructions_list(pcb.instrucciones)

\* Mutant: the integers of the burst are read in the other order.
pcb_deserializar_estrucs_OtroOrden(s, o) ==
  [id |-> deserialize_int(s, o),
   tamanioProceso |-> deserialize_int(s, o + INT),
   PC |-> deserialize_int(s, o + (2 * INT)),
   tablaDePaginas |-> deserialize_int(s, o + (3 * INT)),
   estimacionRafaga |-> deserialize_int(s, o + (5 * INT)),
   lengthUltimaRafaga |-> deserialize_int(s, o + (4 * INT)),
   sizeInstrucciones |-> deserialize_int(s, o + (6 * INT)),
   instrucciones |-> deserialize_instructions_list(s, o + (EnterosPcb * INT))]

pcb_deserializar_estrucs(s, o) ==
  [id |-> deserialize_int(s, o),
   tamanioProceso |-> deserialize_int(s, o + INT),
   PC |-> deserialize_int(s, o + (2 * INT)),
   tablaDePaginas |-> deserialize_int(s, o + (3 * INT)),
   estimacionRafaga |-> deserialize_int(s, o + (4 * INT)),
   lengthUltimaRafaga |-> deserialize_int(s, o + (5 * INT)),
   sizeInstrucciones |-> deserialize_int(s, o + (6 * INT)),
   instrucciones |-> deserialize_instructions_list(s, o + (EnterosPcb * INT))]

bytes_PCB(pcb) == (EnterosPcb * INT) + bytes_instructions_list(pcb.instrucciones)

\* An I/O: its times and the PCB.  The CPU sets no tiempoEspera.
serializarIO(io) ==
  Enteros(<<io.tiempoBloqueo, io.tiempoEspera>>) \o pcb_serializar_estruc(io.pcb)

deserializarIO(s) ==
  [tiempoBloqueo |-> deserialize_int(s, 0),
   tiempoEspera |-> deserialize_int(s, INT),
   pcb |-> pcb_deserializar_estrucs(s, 2 * INT)]

serializarUINT32_T(n) == serialize_int(n)
deserializarUINT32_T(s) == deserialize_int(s, 0)

serializarTraduccionDirecciones(t) ==
  Enteros(<<t.tamanio_pagina, t.paginas_por_tabla>>)

deserializarTraduccionDirecciones(s) ==
  [tamanio_pagina |-> deserialize_int(s, 0),
   paginas_por_tabla |-> deserialize_int(s, INT)]

serializarConsultaTablaPagina(c) ==
  Enteros(<<c.entradaPagina, c.tablaDePaginas, c.id>>)

deserializarConsultaTablaPagina(s) ==
  [entradaPagina |-> deserialize_int(s, 0),
   tablaDePaginas |-> deserialize_int(s, INT),
   id |-> deserialize_int(s, 2 * INT)]

serializarPeticionEscritura(p) == Enteros(<<p.direccionFisica, p.dato, p.id>>)

deserializarPeticionEscritura(s) ==
  [direccionFisica |-> deserialize_int(s, 0),
   dato |-> deserialize_int(s, INT),
   id |-> deserialize_int(s, 2 * INT)]

-----------------------------------------------------------------------------
(* The tables: operations by the structure they carry *)

OpsPcb ==
  {"REQ_PCB_A_EJECUTAR_KERNEL_CPU", "PCB_EJECUTADO_EXIT_CPU_KERNEL",
   "PCB_EJECUTADO_INTERRUPCION_CPU_KERNEL", "REQ_FIN_PROCESO_KERNEL_MEMORIA",
   "REQ_CREAR_PROCESO_KERNEL_MEMORIA", "REQ_SUSP_PROCESO_KERNEL_MEMORIA"}

OpsUint ==
  {"REQ_INTERRUPCION_KERNEL_CPU", "EXIT_CONSOLE",
   "RES_CREAR_PROCESO_KERNEL_MEMORIA", "RES_SUSP_PROCESO_KERNEL_MEMORIA",
   "RES_TABLA_SEGUNDO_NIVEL_MEMORIA_CPU", "RES_MARCO_MEMORIA_CPU",
   "REQ_READ_CPU_MEMORIA", "RES_READ_MEMORIA_CPU", "RES_WRITE_CPU_MEMORIA"}

OpsConsulta ==
  {"REQ_TABLA_SEGUNDO_NIVEL_CPU_MEMORIA", "REQ_MARCO_ESCRITURA_CPU_MEMORIA",
   "REQ_MARCO_LECTURA_CPU_MEMORIA"}

\* What both processes know how to write.
serializarEstructuraCpu(e, op) ==
  CASE op \in OpsPcb -> pcb_serializar_estruc(e)
    [] op = "PCB_EJECUTADO_IO_CPU_KERNEL" -> serializarIO(e)
    [] op \in OpsUint -> serializarUINT32_T(e)

\* What the kernel's table has besides, commented out in the CPU's.
serializarEstructuraKernel(e, op) ==
  CASE op \in OpsConsulta -> serializarConsultaTablaPagina(e)
    [] op = "RES_TRADUCCION_DIRECCIONES_MEMORIA_CPU" ->
         serializarTraduccionDirecciones(e)
    [] op = "REQ_WRITE_CPU_MEMORIA" -> serializarPeticionEscritura(e)
    [] OTHER -> serializarEstructuraCpu(e, op)

\* Mutant: an I/O declares the size of its PCB alone.
tamanioEstructura_SinTiempos(e, op) ==
  CASE op \in OpsPcb -> bytes_PCB(e)
    [] op = "PCB_EJECUTADO_IO_CPU_KERNEL" -> bytes_PCB(e.pcb)
    [] op \in OpsUint -> INT
    [] op \in OpsConsulta \cup {"REQ_WRITE_CPU_MEMORIA"} -> 3 * INT
    [] op = "RES_TRADUCCION_DIRECCIONES_MEMORIA_CPU" -> 2 * INT

tamanioEstructura(e, op) ==
  CASE op \in OpsPcb -> bytes_PCB(e)
    [] op = "PCB_EJECUTADO_IO_CPU_KERNEL" -> (2 * INT) + bytes_PCB(e.pcb)
    [] op \in OpsUint -> INT
    [] op \in OpsConsulta \cup {"REQ_WRITE_CPU_MEMORIA"} -> 3 * INT
    [] op = "RES_TRADUCCION_DIRECCIONES_MEMORIA_CPU" -> 2 * INT

\* armarPaqueteCon, of the kernel and of the CPU; serializarPaquete writes it
\* as serialize_package does.
armarPaqueteConKernel(e, op) ==
  new_package([size |-> tamanioEstructura(e, op),
               stream |-> serializarEstructuraKernel(e, op)], op)

armarPaqueteConCpu(e, op) ==
  new_package([size |-> tamanioEstructura(e, op),
               stream |-> serializarEstructuraCpu(e, op)], op)
=============================================================================
