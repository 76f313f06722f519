------------------------------- MODULE Canal -------------------------------
(***************************************************************************)
(* A connection between two processes of the system, from connect to the   *)
(* last message: a client sends a request, the server that accepted the    *)
(* connection reads it, serves it and, for most operations, answers, and   *)
(* the client reads the answer.  Every operation has a connection of its   *)
(* own (src/kernel/src/planificador.c, src/cpu/src/mmu.c,                  *)
(* src/cpu/src/cicloInstruccion.c, src/console/src/console.c).             *)
(*                                                                         *)
(* TCP keeps the order of the bytes and nothing else: they may arrive in   *)
(* any number of pieces.  A recv or a read returns what has arrived, up to *)
(* the bytes asked, and only MSG_WAITALL waits for all of them.  No caller *)
(* looks at how many bytes it got.                                         *)
(***************************************************************************)
EXTENDS Estructuras, Consola

CONSTANTS
  Conversaciones,   \* the requests to look at: records [op, dato]
  Valores           \* the numbers memory may answer with

VARIABLES
  conv,       \* the request of this connection
  etapa,      \* where the conversation is
  enviado,    \* the last structure sent, and its operation
  mensaje,    \* the bytes sent
  llegados,   \* how many of them have arrived
  leidos,     \* how many of them have been read
  lector,     \* the package the reader has so far
  corta,      \* a read of this conversation returned less than it asked for
  atendido    \* the server has served the request

vars == <<conv, etapa, enviado, mensaje, llegados, leidos, lector, corta,
          atendido>>

-----------------------------------------------------------------------------
(* The requests *)

OpsProceso ==
  {"PROCESS_INIT_REQUEST", "PROCESS_SUSPEND_REQUEST", "PROCESS_KILL_REQUEST"}
OpsMarco == {"GET_FRAME_READ_REQUEST", "GET_FRAME_WRITE_REQUEST"}
OpsTabla == OpsMarco \cup {"GET_SECOND_LEVEL_TABLE_REQUEST"}
OpsCpuMemoria ==
  OpsTabla \cup {"GET_MEMORY_CONFIG_REQUEST", "READ_MEMORY_REQUEST",
                 "WRITE_MEMORY_REQUEST"}
OpsCpu == {"REQ_PCB_A_EJECUTAR_KERNEL_CPU", "REQ_INTERRUPCION_KERNEL_CPU"}

\* No answer is waited for.
SinRespuesta == {"PROCESS_KILL_REQUEST", "REQ_INTERRUPCION_KERNEL_CPU"}

new_crear_proceso_buffer(p) == [size |-> 3 * INT, stream |-> serialize_process(p)]
new_page_table_request_buffer(r) ==
  [size |-> 3 * INT, stream |-> serialize_page_table_request(r)]
new_peticion_buffer(w) ==
  [size |-> 3 * INT, stream |-> serialize_memory_write_request(w)]
new_int_buffer(n) == [size |-> INT, stream |-> serialize_int(n)]
new_memory_config_buffer(c) ==
  [size |-> 2 * INT, stream |-> serialize_memory_config(c)]

PaquetePedido(c) ==
  CASE c.op = "INSTRUCTIONS" ->
         new_package(new_instruction_buffer(parse_pseudocode_file(c.dato)), c.op)
    [] c.op \in OpsProceso -> new_package(new_crear_proceso_buffer(c.dato), c.op)
    [] c.op \in OpsCpu -> armarPaqueteConKernel(c.dato, c.op)
    [] c.op \in OpsTabla ->
         new_package(new_page_table_request_buffer(c.dato), c.op)
    [] c.op = "WRITE_MEMORY_REQUEST" ->
         new_package(new_peticion_buffer(c.dato), c.op)
    [] c.op \in {"GET_MEMORY_CONFIG_REQUEST", "READ_MEMORY_REQUEST"} ->
         new_package(new_int_buffer(c.dato), c.op)

\* Of the bytes, the kernel keeps how many they were.
recibir_paquete_proceso(s, tam) ==
  LET programa == deserialize_instructions_list(s, 0)
  IN  [sizeInstrucciones |-> tam,
       instrucciones |-> programa,
       tamanioProceso |-> IF programa = BASURA THEN BASURA
                                              ELSE programa.process_size]

iniciarPcb(proceso, id, estimacion) ==
  [id |-> id, tamanioProceso |-> proceso.tamanioProceso, PC |-> 0,
   tablaDePaginas |-> 0, estimacionRafaga |-> estimacion,
   lengthUltimaRafaga |-> 0, sizeInstrucciones |-> proceso.sizeInstrucciones,
   instrucciones |-> proceso.instrucciones]

\* What the server makes of the bytes it read.
leerPedido(op, s, tam) ==
  CASE op = "INSTRUCTIONS" -> recibir_paquete_proceso(s, tam)
    [] op \in OpsProceso -> deserialize_process(s)
    [] op = "REQ_PCB_A_EJECUTAR_KERNEL_CPU" -> pcb_deserializar_estrucs(s, 0)
    [] op = "REQ_INTERRUPCION_KERNEL_CPU" -> deserializarUINT32_T(s)
    [] op \in OpsTabla -> deserialize_page_table_request(s)
    [] op = "WRITE_MEMORY_REQUEST" -> deserialize_memory_write_request(s)
    [] op \in {"GET_MEMORY_CONFIG_REQUEST", "READ_MEMORY_REQUEST"} ->
         deserialize_int(s, 0)

\* The structure a request was sent to carry.
PedidoDe(c) ==
  IF c.op = "INSTRUCTIONS"
  THEN LET programa == parse_pseudocode_file(c.dato)
       IN  [sizeInstrucciones |-> bytes_instructions_list(programa),
            instrucciones |-> programa,
            tamanioProceso |-> c.dato.process_size]
  ELSE c.dato

\* What each operation is asked with.  The lines of a file have the numbers
\* their instructions take; the program of a PCB is one the kernel was sent.
Lineas == {l \in [id : DOMAIN Largo \cup {""}, params : Seq(Int)] :
             Len(l.params) >= Aridad(l.id)}

Pcbs == [id : Int, tamanioProceso : Int, PC : Int, tablaDePaginas : Int,
         estimacionRafaga : Int, lengthUltimaRafaga : Int,
         sizeInstrucciones : Int, instrucciones : ProgramasDe(Int)]

DatosDe(op) ==
  CASE op = "INSTRUCTIONS" -> [lineas : Seq(Lineas), process_size : Int]
    [] op \in OpsProceso ->
         [pid : Int, process_size : Int, first_level_table_number : Int]
    [] op = "REQ_PCB_A_EJECUTAR_KERNEL_CPU" -> Pcbs
    [] op \in OpsTabla -> [table_number : Int, entry_number : Int, pid : Int]
    [] op = "WRITE_MEMORY_REQUEST" ->
         [fisical_address : Int, data : Int, pid : Int]
    [] OTHER -> Int

ASSUME ConstantesCanal ==
  /\ \A c \in Conversaciones :
       /\ c.op \in OpsProceso \cup OpsCpuMemoria \cup OpsCpu \cup {"INSTRUCTIONS"}
       /\ c.dato \in DatosDe(c.op)
  /\ Valores \subseteq Int

-----------------------------------------------------------------------------
(* The answers *)

Respuesta(op, dato) == [op |-> op, dato |-> dato]

\* What the CPU may do with a PCB: it goes on from its PC, for one instruction
\* or for all that are left, and gives it back.
PcbsEjecutados(pcb) ==
  {[pcb EXCEPT !.PC = pcb.PC + n, !.lengthUltimaRafaga = n] :
     n \in {1, Len(pcb.instrucciones.instructions) - pcb.PC}}

cicloInstruccion(pcb) ==
  UNION {{Respuesta("PCB_EJECUTADO_EXIT_CPU_KERNEL", p),
          Respuesta("PCB_EJECUTADO_INTERRUPCION_CPU_KERNEL", p)}
           \cup {Respuesta("PCB_EJECUTADO_IO_CPU_KERNEL",
                           [tiempoBloqueo |-> n, tiempoEspera |-> BASURA,
                            pcb |-> p]) : n \in Valores}
         : p \in PcbsEjecutados(pcb)}

\* The operation of each answer.
OpRespuesta ==
  [INSTRUCTIONS |-> "EXIT_CONSOLE",
   PROCESS_INIT_REQUEST |-> "PROCESS_INIT_RESPONSE",
   PROCESS_SUSPEND_REQUEST |-> "PROCESS_SUSPEND_RESPONSE",
   GET_MEMORY_CONFIG_REQUEST |-> "GET_MEMORY_CONFIG_RESPONSE",
   GET_SECOND_LEVEL_TABLE_REQUEST |-> "GET_SECOND_LEVEL_TABLE_RESPONSE",
   GET_FRAME_READ_REQUEST |-> "GET_FRAME_READ_RESPONSE",
   GET_FRAME_WRITE_REQUEST |-> "GET_FRAME_WRITE_RESPONSE",
   READ_MEMORY_REQUEST |-> "READ_MEMORY_RESPONSE",
   WRITE_MEMORY_REQUEST |-> "WRITE_MEMORY_RESPONSE"]

\* The answers to a request read as leido: the frames, tables and data of
\* memory are any, its confirmations are a 1, and a console is told the PID
\* that ended.
responder(op, leido) ==
  CASE op = "REQ_PCB_A_EJECUTAR_KERNEL_CPU" -> cicloInstruccion(leido)
    [] op = "GET_MEMORY_CONFIG_REQUEST" ->
         {Respuesta(OpRespuesta[op], [page_size |-> n, pages_per_table |-> m]) :
            n, m \in Valores}
    [] op \in {"PROCESS_SUSPEND_REQUEST", "WRITE_MEMORY_REQUEST"} ->
         {Respuesta(OpRespuesta[op], 1)}
    [] OTHER -> {Respuesta(OpRespuesta[op], n) : n \in Valores}

PaqueteRespuesta(r) ==
  CASE r.op = "EXIT_CONSOLE" -> armarPaqueteConKernel(r.dato, r.op)
    [] r.op \in OpsPcb \cup {"PCB_EJECUTADO_IO_CPU_KERNEL"} ->
         armarPaqueteConCpu(r.dato, r.op)
    [] r.op = "GET_MEMORY_CONFIG_RESPONSE" ->
         new_package(new_memory_config_buffer(r.dato), r.op)
    [] OTHER -> new_package(new_int_buffer(r.dato), r.op)

leerRespuesta(op, s) ==
  CASE op \in OpsPcb -> pcb_deserializar_estrucs(s, 0)
    [] op = "PCB_EJECUTADO_IO_CPU_KERNEL" -> deserializarIO(s)
    [] op = "GET_MEMORY_CONFIG_RESPONSE" -> deserialize_memory_config(s)
    [] OTHER -> deserialize_int(s, 0)

\* The operations with which each client goes on.  A console does not go on:
\* it ends, whatever it is told.
RespuestasDe(op) ==
  CASE op = "PROCESS_INIT_REQUEST" -> {"PROCESS_INIT_RESPONSE"}
    [] op = "PROCESS_SUSPEND_REQUEST" -> {"PROCESS_SUSPEND_RESPONSE"}
    [] op = "REQ_PCB_A_EJECUTAR_KERNEL_CPU" ->
         {"PCB_EJECUTADO_IO_CPU_KERNEL", "PCB_EJECUTADO_EXIT_CPU_KERNEL",
          "PCB_EJECUTADO_INTERRUPCION_CPU_KERNEL"}
    [] op = "GET_MEMORY_CONFIG_REQUEST" -> {"GET_MEMORY_CONFIG_RESPONSE"}
    [] op = "GET_SECOND_LEVEL_TABLE_REQUEST" -> {"GET_SECOND_LEVEL_TABLE_RESPONSE"}
    [] op \in OpsMarco -> {"GET_FRAME_READ_RESPONSE", "GET_FRAME_WRITE_RESPONSE"}
    [] op = "READ_MEMORY_REQUEST" -> {"READ_MEMORY_RESPONSE"}
    [] op = "WRITE_MEMORY_REQUEST" -> {"WRITE_MEMORY_RESPONSE"}
    [] op = "INSTRUCTIONS" -> {"EXIT_CONSOLE"}

-----------------------------------------------------------------------------
(* Sending and reading *)

Lector(paso, op, tam, datos) ==
  [paso |-> paso, op |-> op, tam |-> tam, datos |-> datos]

LectorVacio == Lector("operacion", BASURA, BASURA, <<>>)

\* send_to_server, enviarPaquete: the package is written whole.
enviar(op, dato, paquete) ==
  /\ enviado' = [op |-> op, dato |-> dato, buffer |-> paquete.buffer]
  /\ mensaje' = serialize_package(new_package(enviado'.buffer, op))
  /\ llegados' = 0 /\ leidos' = 0
  /\ lector' = LectorVacio

Init ==
  /\ conv \in Conversaciones
  /\ etapa = "conectar"
  /\ enviado = [op |-> "UNDEFINED", dato |-> BASURA,
                buffer |-> [size |-> 0, stream |-> <<>>]]
  /\ mensaje = <<>> /\ llegados = 0 /\ leidos = 0
  /\ lector = LectorVacio
  /\ corta = FALSE /\ atendido = FALSE

\* The client connects and sends its request.
iniciar_cliente ==
  /\ etapa = "conectar"
  /\ etapa' = "pedido"
  /\ enviar(conv.op, PedidoDe(conv), PaquetePedido(conv))
  /\ UNCHANGED <<conv, corta, atendido>>

\* Mutant: the kernel does not read the answer to a new process.
SinConexion_SinLeer(op) ==
  CASE op \in OpsTabla -> "inventado"
    [] op \in SinRespuesta \cup {"PROCESS_INIT_REQUEST"} -> "seguido"
    [] op = "REQ_PCB_A_EJECUTAR_KERNEL_CPU" -> "indefinido"
    [] OTHER -> "exit"

\* Where a client whose connect failed ends.  It goes on with socket -1: the
\* send fails and is logged, and reading an operation from it gives -1, which
\* is no answer.  A translation goes on with a 1 in the place of the table or
\* of the frame, a request that waits for nothing is taken as done, and
\* recibirPaquete goes on with what its variables held.
SinConexion(op) ==
  CASE op \in OpsTabla -> "inventado"
    [] op \in SinRespuesta -> "seguido"
    [] op = "REQ_PCB_A_EJECUTAR_KERNEL_CPU" -> "indefinido"
    [] OTHER -> "exit"

iniciar_cliente_Falla ==
  /\ etapa = "conectar"
  /\ etapa' = SinConexion(conv.op)
  /\ UNCHANGED <<conv, enviado, mensaje, llegados, leidos, lector, corta,
                 atendido>>

Leyendo == etapa \in {"pedido", "respuesta"}

\* TCP delivers a byte more.
Llega ==
  /\ Leyendo /\ llegados < Len(mensaje)
  /\ llegados' = llegados + 1
  /\ UNCHANGED <<conv, etapa, enviado, mensaje, leidos, lector, corta, atendido>>

\* Mutant: nobody waits for the whole operation.
EsperaTodo_Nunca == FALSE

\* recibir_operacion uses MSG_WAITALL: the kernel's for the consoles and, in
\* kernel and CPU, the clients of memory.
EsperaTodo ==
  \/ etapa = "pedido" /\ conv.op = "INSTRUCTIONS"
  \/ etapa = "respuesta" /\ conv.op \in OpsProceso \cup OpsCpuMemoria

\* The bytes that a recv or a read of n returns.
Recibidos(n) == SubSeq(mensaje, leidos + 1,
                       IF leidos + n <= llegados THEN leidos + n ELSE llegados)

\* A read of n bytes: it waits for one byte, or for all of them.
recv(n, todos) ==
  /\ Leyendo
  /\ llegados - leidos >= IF todos THEN n ELSE 1
  /\ leidos' = leidos + Len(Recibidos(n))
  /\ corta' = (corta \/ Len(Recibidos(n)) < n)

\* The clients of memory look at the operation as soon as they have it, and
\* the kernel reads nothing else of the answer to a suspension.
EtapaTrasOperacion(op) ==
  IF ~(etapa = "respuesta" /\ conv.op \in OpsProceso \cup OpsCpuMemoria) THEN etapa
  ELSE IF op \notin RespuestasDe(conv.op) THEN "exit"
  ELSE IF conv.op = "PROCESS_SUSPEND_REQUEST" THEN "seguido" ELSE etapa

recibir_operacion ==
  /\ lector.paso = "operacion"
  /\ recv(INT, EsperaTodo)
  /\ LET op == deserialize_int(Recibidos(INT), 0)
     IN  /\ lector' = Lector("tamanio", op, BASURA, <<>>)
         /\ etapa' = EtapaTrasOperacion(op)
  /\ UNCHANGED <<conv, enviado, mensaje, llegados, atendido>>

\* With a size that did not arrive whole, the rest of the conversation is
\* undefined.
recibir_buffer_Tamanio ==
  /\ lector.paso = "tamanio"
  /\ recv(INT, FALSE)
  /\ LET tam == deserialize_int(Recibidos(INT), 0)
     IN  /\ lector' = Lector("datos", lector.op, tam, <<>>)
         /\ etapa' = IF tam = BASURA THEN "indefinido" ELSE etapa
  /\ UNCHANGED <<conv, enviado, mensaje, llegados, atendido>>

\* Mutant: the size is taken to count its own bytes, and all are waited for.
recibir_buffer_Datos_ConTamanio ==
  /\ lector.paso = "datos"
  /\ recv(lector.tam + INT, TRUE)
  /\ lector' = Lector("listo", lector.op, lector.tam, Recibidos(lector.tam))
  /\ etapa' = IF etapa = "pedido" THEN "atender" ELSE "seguir"
  /\ UNCHANGED <<conv, enviado, mensaje, llegados, atendido>>

\* malloc of the size, and a read into it.
recibir_buffer_Datos ==
  /\ lector.paso = "datos"
  /\ recv(lector.tam, FALSE)
  /\ lector' = Lector("listo", lector.op, lector.tam,
                      [k \in 1 .. lector.tam |->
                         IF leidos + k <= llegados THEN mensaje[leidos + k]
                                                   ELSE ByteSinEscribir])
  /\ etapa' = IF etapa = "pedido" THEN "atender" ELSE "seguir"
  /\ UNCHANGED <<conv, enviado, mensaje, llegados, atendido>>

\* What the reader of a whole package makes of it.
Decodificado ==
  IF etapa = "atender" THEN leerPedido(lector.op, lector.datos, lector.tam)
                       ELSE leerRespuesta(lector.op, lector.datos)

\* A program that cannot be read back has no defined effect.
Ilegible(op, leido) ==
  /\ op \in {"INSTRUCTIONS", "REQ_PCB_A_EJECUTAR_KERNEL_CPU"}
  /\ leido.instrucciones = BASURA

\* The server serves the request, and answers if it is one with an answer.
atender ==
  /\ etapa = "atender" /\ ~Ilegible(lector.op, Decodificado)
  /\ atendido' = TRUE
  /\ IF conv.op \in SinRespuesta
     THEN /\ etapa' = "seguido"
          /\ UNCHANGED <<enviado, mensaje, llegados, leidos, lector>>
     ELSE /\ etapa' = "respuesta"
          /\ \E r \in responder(lector.op, Decodificado) :
               enviar(r.op, r.dato, PaqueteRespuesta(r))
  /\ UNCHANGED <<conv, corta>>

atender_Ilegible ==
  /\ etapa = "atender" /\ Ilegible(lector.op, Decodificado)
  /\ etapa' = "indefinido"
  /\ UNCHANGED <<conv, enviado, mensaje, llegados, leidos, lector, corta,
                 atendido>>

\* The client has the whole answer: it goes on, or ends if it is not one of
\* those it knows.
seguir ==
  /\ etapa = "seguir"
  /\ etapa' = IF lector.op \in RespuestasDe(conv.op) THEN "seguido" ELSE "exit"
  /\ UNCHANGED <<conv, enviado, mensaje, llegados, leidos, lector, corta,
                 atendido>>

Next ==
  \/ iniciar_cliente \/ iniciar_cliente_Falla
  \/ Llega
  \/ recibir_operacion \/ recibir_buffer_Tamanio \/ recibir_buffer_Datos
  \/ atender \/ atender_Ilegible \/ seguir

\* The bytes sent arrive, and the threads that read them and serve them run.
Spec == Init /\ [][Next]_vars /\ WF_vars(Next)

-----------------------------------------------------------------------------
(* Properties *)

\* A request whose bytes were read whole is the one that was sent, in all its
\* fields, whichever of the three ways of reading the server has and however
\* the bytes came (connection_utils.c:3, socket.c:56, cpu_servidor.c:14).
PedidoIntacto ==
  etapa = "atender" /\ ~corta =>
    lector.op = enviado.op /\ Decodificado = enviado.dato

\* So is an answer: the PCB that comes back from the CPU has the program, the
\* size and the table it left with (planificador.c:473), and a frame is not
\* taken for another number (mmu.c:182).
RespuestaIntacta ==
  etapa = "seguir" /\ ~corta =>
    lector.op = enviado.op /\ Decodificado = enviado.dato

\* What is declared is what is written, of every package sent.  The two are
\* computed apart (instructions_list.c:35 and serialization.c:95;
\* tamanioEstructura and serializarEstructura in estructura.c): one byte less
\* and the buffer is overrun.
TamanioExacto == BufferExacto(enviado.buffer)

\* However its bytes come, no client ends because of the operation of an
\* answer ("respuesta inesperada", planificador.c:312): only for want of a
\* connection.  A client of memory, which looks at the operation as soon as it
\* has it, waits for all of its bytes.
OperacionEntera == etapa = "exit" => mensaje = <<>>

\* A client that waits for an answer and goes on has been served, unless it
\* went on with a table or a frame it made up.
SigueSoloAtendido ==
  etapa = "seguido" /\ conv.op \notin SinRespuesta => atendido

\* The program the kernel keeps is the one its file says: the lines in their
\* order, each once, but a NO_OP of n taking n places (one if n is 0), and an
\* empty line none; in each place, the identifier of its line and the first
\* numbers of it (instructions_parser.c:32-50).
ProgramaDelArchivo ==
  etapa = "atender" /\ conv.op = "INSTRUCTIONS" /\ ~corta =>
    LET programa == Decodificado.instrucciones.instructions
        lineas == conv.dato.lineas
        lugares(l) == IF l.id = "" THEN 0
                      ELSE IF l.id = "NO_OP" /\ l.params[1] > 1 THEN l.params[1]
                      ELSE 1
        hasta[k \in 0 .. Len(lineas)] ==
          IF k = 0 THEN 0 ELSE hasta[k - 1] + lugares(lineas[k])
    IN  /\ Len(programa) = hasta[Len(lineas)]
        /\ \A k \in DOMAIN lineas : \A i \in hasta[k - 1] + 1 .. hasta[k] :
             /\ programa[i].id = lineas[k].id
             /\ programa[i].parameters
                  = SubSeq(lineas[k].params, 1, Aridad(lineas[k].id))

\* Every conversation ends: no read waits for a byte that is not sent, though
\* those that take what has come never ask again for the rest.
ConversacionTermina ==
  <>(etapa \in {"seguido", "exit", "inventado", "indefinido"})
=============================================================================
