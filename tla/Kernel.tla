------------------------------- MODULE Kernel -------------------------------
(***************************************************************************)
(* The kernel process of the system (src/kernel/src/planificador.c and     *)
(* main.c): four threads that move PCBs between the state queues, kept in  *)
(* step by counting semaphores and one mutex per queue.                    *)
(*                                                                         *)
(*   main        accepts consoles and feeds NEW           (manejarProceso) *)
(*   Aready      long-term scheduler, NEW/SUSP_READY -> READY              *)
(*   readyAexec  short-term scheduler and dispatcher                       *)
(*   hilo_block  the one I/O device, and the suspension of slow processes  *)
(*                                                                         *)
(* An action is one stretch of a thread between two points at which        *)
(* another thread can observe it: a semaphore operation, a critical        *)
(* section, or a message.  A PCB travels by value, as it does in the code, *)
(* where the kernel frees the one it sends and rebuilds the one it         *)
(* receives.  Times are in milliseconds.                                   *)
(***************************************************************************)
EXTENDS Integers, Sequences, SequencesExt

CONSTANTS
  GRADO_MULTIPROGRAMACION,   \* initial value of sem_multiprogramacion
  TIEMPO_MAXIMO_BLOQUEADO,   \* ms a process may stay BLOCKED in memory
  ALGORITMO_PLANIFICACION,   \* "FIFO" or "SRT"
  ESTIMACION_INICIAL,        \* first burst estimate of a process
  ALFA_NUM, ALFA_DEN,        \* ALFA = ALFA_NUM / ALFA_DEN
  UINT,                      \* 2^32: the estimates are uint32_t
  Programas,                 \* the programs a console may submit
  MaxProcesos                \* bound: consoles accepted in a behaviour

Instruccion == [id : {"NO_OP", "I/O", "EXIT"}, tiempo : Nat]

ASSUME ConstantesKernel ==
  /\ GRADO_MULTIPROGRAMACION \in Nat \ {0}
  /\ TIEMPO_MAXIMO_BLOQUEADO \in Nat
  /\ ALGORITMO_PLANIFICACION \in {"FIFO", "SRT"}
  /\ ESTIMACION_INICIAL \in Nat
  /\ ALFA_NUM \in Nat
  /\ ALFA_DEN \in Nat \ {0}
  /\ ALFA_NUM <= ALFA_DEN
  /\ UINT \in Nat \ {0}
  /\ ESTIMACION_INICIAL < UINT
  /\ MaxProcesos \in Nat
  /\ Programas \subseteq Seq(Instruccion)

VARIABLES
  estado_new, estado_ready, estado_susp_ready,  \* queues of PCBs
  estado_blocked,                               \* queue of t_IO
  consolas_conectadas,                          \* ids of the consoles waiting
  notificadas,                                  \* ids that got EXIT_CONSOLE
  sem_hay_pcb_esperando_ready, sem_multiprogramacion, sem_ready, sem_block,
  id_nuevo_proceso, id_pcb_ejecutando,
  pcMain, pcbMain,                              \* thread main
  pcAready, pcbAready,                          \* thread Aready
  pcExec, pcbExec,                              \* thread readyAexec
  pcBlock, ultimoIO, ioRestante, ticks, tick,   \* thread hilo_block
  dispatch,                                     \* the dispatch connection
  interrupciones                                \* interrupts sent, not yet read

colas == <<estado_new, estado_ready, estado_susp_ready, estado_blocked>>
semaforos == <<sem_hay_pcb_esperando_ready, sem_multiprogramacion, sem_ready,
               sem_block>>
consolas == <<consolas_conectadas, notificadas>>
hiloMain == <<pcMain, pcbMain, id_nuevo_proceso>>
hiloAready == <<pcAready, pcbAready>>
hiloExec == <<pcExec, pcbExec, id_pcb_ejecutando>>
hiloBlock == <<pcBlock, ultimoIO, ioRestante, ticks, tick>>
cpu == <<dispatch, interrupciones>>

vars == <<colas, semaforos, consolas, hiloMain, hiloAready, hiloExec,
          hiloBlock, cpu>>

-----------------------------------------------------------------------------
(* Data *)

PCB == [id : Nat, instrucciones : Programas, PC : Nat,
        estimacionRafaga : Nat, lengthUltimaRafaga : Nat]

\* A local variable that holds no PCB: not assigned yet, or freed.
SinPcb == [id |-> 0, instrucciones |-> <<>>, PC |-> 0,
           estimacionRafaga |-> 0, lengthUltimaRafaga |-> 0]

IO == [pcb : PCB, tiempoBloqueo : Nat, tiempoEspera : Nat]
SinIO == [pcb |-> SinPcb, tiempoBloqueo |-> 0, tiempoEspera |-> 0]

\* One message on the dispatch connection: the request, then its answer.
CodigoRespuesta == {"PCB_EJECUTADO_IO", "PCB_EJECUTADO_EXIT",
                    "PCB_EJECUTADO_INTERRUPCION"}
Mensaje == [op : CodigoRespuesta \cup {"REQ_PCB_A_EJECUTAR"},
            pcb : PCB, tiempoBloqueo : Nat]
SinMensaje == [op |-> "CERRADO", pcb |-> SinPcb, tiempoBloqueo |-> 0]

EsSRT == ALGORITMO_PLANIFICACION = "SRT"

iniciarPcb(id, programa) ==
  [id |-> id, instrucciones |-> programa, PC |-> 0,
   estimacionRafaga |-> ESTIMACION_INICIAL, lengthUltimaRafaga |-> 0]

\* list_remove_by_condition with the filter "same id": the first match goes.
QuitarPorId(lista, id) ==
  LET iguales == {i \in DOMAIN lista : lista[i].id = id}
  IN  IF iguales = {} THEN lista ELSE RemoveAt(lista, Min(iguales))

\* The new estimate after a burst that ended in I/O.
EstimacionPromedio(pcb) ==
  (ALFA_NUM * pcb.lengthUltimaRafaga
     + (ALFA_DEN - ALFA_NUM) * pcb.estimacionRafaga) \div ALFA_DEN

\* What is left of the estimate after a preempted burst, in uint32_t.
EstimacionRestante(pcb) ==
  (pcb.estimacionRafaga - pcb.lengthUltimaRafaga) % UINT

\* Mutant: the process dispatched last keeps the CPU while it is in READY.
IndiceSRT_SinDesalojo(lista, ejecutando) ==
  LET delUltimo == {i \in DOMAIN lista : lista[i].id = ejecutando}
  IN  IF delUltimo = {} THEN 1 ELSE Min(delUltimo)

\* The index of the PCB planificacionSRT picks.  With no PCB of the process
\* dispatched last in READY the code returns the head of the list, whatever
\* its estimate; otherwise the first of the shortest, if strictly shorter
\* than that process.
IndiceSRT(lista, ejecutando) ==
  LET estimacion(i) == lista[i].estimacionRafaga
      delUltimo == {i \in DOMAIN lista : lista[i].id = ejecutando}
      minima == Min({estimacion(i) : i \in DOMAIN lista})
  IN  IF delUltimo = {} THEN 1
      ELSE IF minima < estimacion(Min(delUltimo))
             THEN Min({i \in DOMAIN lista : estimacion(i) = minima})
             ELSE Min(delUltimo)

\* hacerIO sleeps in steps and, after each, adds the step to the wait of
\* every process in BLOCKED: 100 ms steps below one second, whole seconds
\* (the rest is dropped) from one second on.
TamanioTick(ms) == IF ms < 1000 THEN 100 ELSE 1000
CantidadTicks(ms) == IF ms < 1000 THEN (ms + 99) \div 100 ELSE ms \div 1000

\* Mutant: a loop that starts at index 1 forgets the head.
sumarEspera_SinCabeza(cola, ms) ==
  [i \in DOMAIN cola |->
     IF i = 1 THEN cola[i] ELSE [cola[i] EXCEPT !.tiempoEspera = @ + ms]]

sumarEspera(cola, ms) ==
  [i \in DOMAIN cola |-> [cola[i] EXCEPT !.tiempoEspera = @ + ms]]

-----------------------------------------------------------------------------
Init ==
  /\ estado_new = <<>> /\ estado_ready = <<>>
  /\ estado_susp_ready = <<>> /\ estado_blocked = <<>>
  /\ consolas_conectadas = {} /\ notificadas = {}
  /\ sem_hay_pcb_esperando_ready = 0
  /\ sem_multiprogramacion = GRADO_MULTIPROGRAMACION
  /\ sem_ready = 0 /\ sem_block = 0
  /\ id_nuevo_proceso = 0 /\ id_pcb_ejecutando = 0
  /\ pcMain = "esperar_consola" /\ pcbMain = SinPcb
  /\ pcAready = "esperar_proceso" /\ pcbAready = SinPcb
  /\ pcExec = "esperar_ready" /\ pcbExec = SinPcb
  /\ pcBlock = "esperar_block" /\ ultimoIO = SinIO
  /\ ioRestante = 0 /\ ticks = 0 /\ tick = 0
  /\ dispatch = SinMensaje /\ interrupciones = 0

-----------------------------------------------------------------------------
(* Thread main *)

\* A console connects and sends its program: the PCB is built and the
\* console is registered before the process is visible to any scheduler.
manejarProceso ==
  /\ pcMain = "esperar_consola"
  /\ id_nuevo_proceso < MaxProcesos
  /\ \E programa \in Programas : pcbMain' = iniciarPcb(id_nuevo_proceso, programa)
  /\ id_nuevo_proceso' = id_nuevo_proceso + 1
  /\ consolas_conectadas' = consolas_conectadas \cup {id_nuevo_proceso}
  /\ pcMain' = "ingresar"
  /\ UNCHANGED <<colas, semaforos, notificadas, hiloAready, hiloExec, hiloBlock,
                 cpu>>

\* Aready keeps mutex_estado_new while memory builds the process tables.
MutexNewLibre == pcAready # "esperar_memoria"

ingresarANew ==
  /\ pcMain = "ingresar"
  /\ MutexNewLibre
  /\ estado_new' = Append(estado_new, pcbMain)
  /\ pcbMain' = SinPcb
  /\ pcMain' = "post_esperando"
  /\ UNCHANGED <<estado_ready, estado_susp_ready, estado_blocked, semaforos,
                 consolas, id_nuevo_proceso, hiloAready, hiloExec, hiloBlock,
                 cpu>>

ingresarANew_Post ==
  /\ pcMain = "post_esperando"
  /\ sem_hay_pcb_esperando_ready' = sem_hay_pcb_esperando_ready + 1
  /\ pcMain' = "esperar_consola"
  /\ UNCHANGED <<colas, sem_multiprogramacion, sem_ready, sem_block, consolas,
                 pcbMain, id_nuevo_proceso, hiloAready, hiloExec, hiloBlock, cpu>>

-----------------------------------------------------------------------------
(* Thread Aready *)

Aready_EsperarProceso ==
  /\ pcAready = "esperar_proceso"
  /\ sem_hay_pcb_esperando_ready > 0
  /\ sem_hay_pcb_esperando_ready' = sem_hay_pcb_esperando_ready - 1
  /\ pcAready' = "esperar_grado"
  /\ UNCHANGED <<colas, sem_multiprogramacion, sem_ready, sem_block, consolas,
                 hiloMain, pcbAready, hiloExec, hiloBlock, cpu>>

Aready_EsperarGrado ==
  /\ pcAready = "esperar_grado"
  /\ sem_multiprogramacion > 0
  /\ sem_multiprogramacion' = sem_multiprogramacion - 1
  /\ pcAready' = "elegir"
  /\ UNCHANGED <<colas, sem_hay_pcb_esperando_ready, sem_ready, sem_block,
                 consolas, hiloMain, pcbAready, hiloExec, hiloBlock, cpu>>

\* queue_is_empty(estado_susp_ready), read with no lock.
obtenerSiguienteAready_Elegir ==
  /\ pcAready = "elegir"
  /\ pcAready' = IF estado_susp_ready # <<>> THEN "sacar_susp" ELSE "sacar_new"
  /\ UNCHANGED <<colas, semaforos, consolas, hiloMain, pcbAready, hiloExec,
                 hiloBlock, cpu>>

\* Mutant: queue_peek for queue_pop.
obtenerSiguienteAready_Susp_Peek ==
  /\ pcAready = "sacar_susp"
  /\ estado_susp_ready # <<>>
  /\ pcbAready' = Head(estado_susp_ready)
  /\ pcAready' = "agregar_ready"
  /\ UNCHANGED <<colas, semaforos, consolas, hiloMain, hiloExec, hiloBlock, cpu>>

\* A queue_pop of an empty queue returns NULL and the kernel dies at its next
\* use of the PCB: the pops are enabled on a non-empty queue only, and
\* SinPopVacio says that no thread reaches one on an empty queue.
obtenerSiguienteAready_Susp ==
  /\ pcAready = "sacar_susp"
  /\ estado_susp_ready # <<>>
  /\ pcbAready' = Head(estado_susp_ready)
  /\ estado_susp_ready' = Tail(estado_susp_ready)
  /\ pcAready' = "agregar_ready"
  /\ UNCHANGED <<estado_new, estado_ready, estado_blocked, semaforos, consolas,
                 hiloMain, hiloExec, hiloBlock, cpu>>

\* The pop of NEW and the PROCESS_INIT_REQUEST; the mutex stays locked.
obtenerSiguienteAready_New ==
  /\ pcAready = "sacar_new"
  /\ estado_new # <<>>
  /\ pcbAready' = Head(estado_new)
  /\ estado_new' = Tail(estado_new)
  /\ pcAready' = "esperar_memoria"
  /\ UNCHANGED <<estado_ready, estado_susp_ready, estado_blocked, semaforos,
                 consolas, hiloMain, hiloExec, hiloBlock, cpu>>

\* PROCESS_INIT_RESPONSE arrives and mutex_estado_new is released.
comunicacionMemoriaCreacionEstructuras ==
  /\ pcAready = "esperar_memoria"
  /\ pcAready' = "agregar_ready"
  /\ UNCHANGED <<colas, semaforos, consolas, hiloMain, pcbAready, hiloExec,
                 hiloBlock, cpu>>

Aready_AgregarReady ==
  /\ pcAready = "agregar_ready"
  /\ estado_ready' = Append(estado_ready, pcbAready)
  /\ pcbAready' = SinPcb
  /\ pcAready' = IF EsSRT THEN "interrumpir" ELSE "post_ready"
  /\ UNCHANGED <<estado_new, estado_susp_ready, estado_blocked, semaforos,
                 consolas, hiloMain, hiloExec, hiloBlock, cpu>>

Aready_Interrumpir ==
  /\ pcAready = "interrumpir"
  /\ interrupciones' = interrupciones + 1
  /\ pcAready' = "post_ready"
  /\ UNCHANGED <<colas, semaforos, consolas, hiloMain, pcbAready, hiloExec,
                 hiloBlock, dispatch>>

\* Mutant: the signal to the dispatcher is forgotten.
Aready_PostReady_SinPost ==
  /\ pcAready = "post_ready"
  /\ pcAready' = "esperar_proceso"
  /\ UNCHANGED <<colas, semaforos, consolas, hiloMain, pcbAready, hiloExec,
                 hiloBlock, cpu>>

Aready_PostReady ==
  /\ pcAready = "post_ready"
  /\ sem_ready' = sem_ready + 1
  /\ pcAready' = "esperar_proceso"
  /\ UNCHANGED <<colas, sem_hay_pcb_esperando_ready, sem_multiprogramacion,
                 sem_block, consolas, hiloMain, pcbAready, hiloExec, hiloBlock,
                 cpu>>

-----------------------------------------------------------------------------
(* Thread readyAexec *)

readyAexec_EsperarReady ==
  /\ pcExec = "esperar_ready"
  /\ sem_ready > 0
  /\ sem_ready' = sem_ready - 1
  /\ pcExec' = "planificar"
  /\ UNCHANGED <<colas, sem_hay_pcb_esperando_ready, sem_multiprogramacion,
                 sem_block, consolas, hiloMain, hiloAready, pcbExec,
                 id_pcb_ejecutando, hiloBlock, cpu>>

\* FIFO takes the head out of READY.
planificacionFIFO ==
  /\ pcExec = "planificar" /\ ~EsSRT
  /\ estado_ready # <<>>
  /\ pcbExec' = Head(estado_ready)
  /\ estado_ready' = Tail(estado_ready)
  /\ pcExec' = "quitar"
  /\ UNCHANGED <<estado_new, estado_susp_ready, estado_blocked, semaforos,
                 consolas, hiloMain, hiloAready, id_pcb_ejecutando, hiloBlock,
                 cpu>>

\* SRT picks a PCB and leaves it in READY.  The code looks at the head first,
\* in a critical section of its own; only this thread removes from READY, so
\* the head it saw is still the head in the second one.
planificacionSRT ==
  /\ pcExec = "planificar" /\ EsSRT
  /\ estado_ready # <<>>
  /\ pcbExec' = estado_ready[IndiceSRT(estado_ready, id_pcb_ejecutando)]
  /\ pcExec' = "quitar"
  /\ UNCHANGED <<colas, semaforos, consolas, hiloMain, hiloAready,
                 id_pcb_ejecutando, hiloBlock, cpu>>

\* Mutant: the PCB taken out is the one of the process dispatched last.
readyAexec_Quitar_DelUltimo ==
  /\ pcExec = "quitar"
  /\ estado_ready' = QuitarPorId(estado_ready, id_pcb_ejecutando)
  /\ id_pcb_ejecutando' = pcbExec.id
  /\ pcExec' = "ejecutar"
  /\ UNCHANGED <<estado_new, estado_susp_ready, estado_blocked, semaforos,
                 consolas, hiloMain, hiloAready, pcbExec, hiloBlock, cpu>>

\* Under FIFO the PCB is out of the list already and nothing matches.
readyAexec_Quitar ==
  /\ pcExec = "quitar"
  /\ estado_ready' = QuitarPorId(estado_ready, pcbExec.id)
  /\ id_pcb_ejecutando' = pcbExec.id
  /\ pcExec' = "ejecutar"
  /\ UNCHANGED <<estado_new, estado_susp_ready, estado_blocked, semaforos,
                 consolas, hiloMain, hiloAready, pcbExec, hiloBlock, cpu>>

\* The PCB goes to the CPU and the kernel's copy is freed.
ejecutarPCB ==
  /\ pcExec = "ejecutar"
  /\ dispatch' = [op |-> "REQ_PCB_A_EJECUTAR", pcb |-> pcbExec,
                  tiempoBloqueo |-> 0]
  /\ pcbExec' = SinPcb
  /\ pcExec' = "esperar_cpu"
  /\ UNCHANGED <<colas, semaforos, consolas, hiloMain, hiloAready,
                 id_pcb_ejecutando, hiloBlock, interrupciones>>

ejecutarPCB_IO ==
  /\ pcExec = "esperar_cpu"
  /\ dispatch.op = "PCB_EJECUTADO_IO"
  /\ LET pcb == [dispatch.pcb EXCEPT
                   !.estimacionRafaga = EstimacionPromedio(dispatch.pcb)]
     IN  estado_blocked' = Append(estado_blocked,
                             [pcb |-> pcb, tiempoEspera |-> 0,
                              tiempoBloqueo |-> dispatch.tiempoBloqueo])
  /\ dispatch' = SinMensaje
  /\ pcExec' = "post_block"
  /\ UNCHANGED <<estado_new, estado_ready, estado_susp_ready, semaforos,
                 consolas, hiloMain, hiloAready, pcbExec, id_pcb_ejecutando,
                 hiloBlock, interrupciones>>

\* Mutant: the signal goes to the wrong semaphore.
ejecutarPCB_PostBlock_EnReady ==
  /\ pcExec = "post_block"
  /\ sem_ready' = sem_ready + 1
  /\ pcExec' = "esperar_ready"
  /\ UNCHANGED <<colas, sem_hay_pcb_esperando_ready, sem_multiprogramacion,
                 sem_block, consolas, hiloMain, hiloAready, pcbExec,
                 id_pcb_ejecutando, hiloBlock, cpu>>

ejecutarPCB_PostBlock ==
  /\ pcExec = "post_block"
  /\ sem_block' = sem_block + 1
  /\ pcExec' = "esperar_ready"
  /\ UNCHANGED <<colas, sem_hay_pcb_esperando_ready, sem_multiprogramacion,
                 sem_ready, consolas, hiloMain, hiloAready, pcbExec,
                 id_pcb_ejecutando, hiloBlock, cpu>>

\* Mutant: the preempted process goes to the other queue Aready serves.
ejecutarPCB_Interrupcion_ASusp ==
  /\ pcExec = "esperar_cpu"
  /\ dispatch.op = "PCB_EJECUTADO_INTERRUPCION"
  /\ LET pcb == [dispatch.pcb EXCEPT
                   !.estimacionRafaga = EstimacionRestante(dispatch.pcb)]
     IN  estado_susp_ready' = Append(estado_susp_ready, pcb)
  /\ dispatch' = SinMensaje
  /\ pcExec' = "post_ready"
  /\ UNCHANGED <<estado_new, estado_ready, estado_blocked, semaforos,
                 consolas, hiloMain, hiloAready, pcbExec, id_pcb_ejecutando,
                 hiloBlock, interrupciones>>

ejecutarPCB_Interrupcion ==
  /\ pcExec = "esperar_cpu"
  /\ dispatch.op = "PCB_EJECUTADO_INTERRUPCION"
  /\ LET pcb == [dispatch.pcb EXCEPT
                   !.estimacionRafaga = EstimacionRestante(dispatch.pcb)]
     IN  estado_ready' = Append(estado_ready, pcb)
  /\ dispatch' = SinMensaje
  /\ pcExec' = "post_ready"
  /\ UNCHANGED <<estado_new, estado_susp_ready, estado_blocked, semaforos,
                 consolas, hiloMain, hiloAready, pcbExec, id_pcb_ejecutando,
                 hiloBlock, interrupciones>>

\* Mutant: the preempted process is not announced to the dispatcher.
ejecutarPCB_PostReady_SinPost ==
  /\ pcExec = "post_ready"
  /\ pcExec' = "esperar_ready"
  /\ UNCHANGED <<colas, semaforos, consolas, hiloMain, hiloAready, pcbExec,
                 id_pcb_ejecutando, hiloBlock, cpu>>

ejecutarPCB_PostReady ==
  /\ pcExec = "post_ready"
  /\ sem_ready' = sem_ready + 1
  /\ pcExec' = "esperar_ready"
  /\ UNCHANGED <<colas, sem_hay_pcb_esperando_ready, sem_multiprogramacion,
                 sem_block, consolas, hiloMain, hiloAready, pcbExec,
                 id_pcb_ejecutando, hiloBlock, cpu>>

\* EXIT: PROCESS_KILL_REQUEST goes to memory, whose answer nobody awaits.
execAexit_Finalizar ==
  /\ pcExec = "esperar_cpu"
  /\ dispatch.op = "PCB_EJECUTADO_EXIT"
  /\ pcbExec' = dispatch.pcb
  /\ dispatch' = SinMensaje
  /\ pcExec' = "notificar"
  /\ UNCHANGED <<colas, semaforos, consolas, hiloMain, hiloAready,
                 id_pcb_ejecutando, hiloBlock, interrupciones>>

\* Mutant: the console is looked up and left in the list.
execAexit_Notificar_SinSacar ==
  /\ pcExec = "notificar"
  /\ pcbExec.id \in consolas_conectadas
  /\ notificadas' = notificadas \cup {pcbExec.id}
  /\ pcbExec' = SinPcb
  /\ pcExec' = "post_grado"
  /\ UNCHANGED <<colas, semaforos, consolas_conectadas, hiloMain, hiloAready,
                 id_pcb_ejecutando, hiloBlock, cpu>>

\* The console of the process is taken out of the list (a console that is not
\* there would be a NULL dereference) and gets EXIT_CONSOLE.
execAexit_Notificar ==
  /\ pcExec = "notificar"
  /\ pcbExec.id \in consolas_conectadas
  /\ consolas_conectadas' = consolas_conectadas \ {pcbExec.id}
  /\ notificadas' = notificadas \cup {pcbExec.id}
  /\ pcbExec' = SinPcb
  /\ pcExec' = "post_grado"
  /\ UNCHANGED <<colas, semaforos, hiloMain, hiloAready, id_pcb_ejecutando,
                 hiloBlock, cpu>>

\* Mutant: the place in memory is not given back.
execAexit_PostGrado_SinPost ==
  /\ pcExec = "post_grado"
  /\ pcExec' = "esperar_ready"
  /\ UNCHANGED <<colas, semaforos, consolas, hiloMain, hiloAready, pcbExec,
                 id_pcb_ejecutando, hiloBlock, cpu>>

execAexit_PostGrado ==
  /\ pcExec = "post_grado"
  /\ sem_multiprogramacion' = sem_multiprogramacion + 1
  /\ pcExec' = "esperar_ready"
  /\ UNCHANGED <<colas, sem_hay_pcb_esperando_ready, sem_ready, sem_block,
                 consolas, hiloMain, hiloAready, pcbExec, id_pcb_ejecutando,
                 hiloBlock, cpu>>

-----------------------------------------------------------------------------
(* Thread hilo_block *)

hilo_block_Esperar ==
  /\ pcBlock = "esperar_block"
  /\ sem_block > 0
  /\ sem_block' = sem_block - 1
  /\ pcBlock' = "sacar_blocked"
  /\ UNCHANGED <<colas, sem_hay_pcb_esperando_ready, sem_multiprogramacion,
                 sem_ready, consolas, hiloMain, hiloAready, hiloExec, ultimoIO,
                 ioRestante, ticks, tick, cpu>>

\* The process at the head of BLOCKED gets the device.  If its wait and its
\* I/O together exceed the maximum it will be suspended: at once when the
\* wait alone exceeds it, otherwise after the I/O that still fits.
hilo_block_Sacar ==
  /\ pcBlock = "sacar_blocked"
  /\ estado_blocked # <<>>
  /\ ultimoIO' = Head(estado_blocked)
  /\ estado_blocked' = Tail(estado_blocked)
  /\ pcBlock' = "decidir"
  /\ UNCHANGED <<estado_new, estado_ready, estado_susp_ready, semaforos,
                 consolas, hiloMain, hiloAready, hiloExec, ioRestante, ticks,
                 tick, cpu>>

\* Starts a hacerIO of ms milliseconds, after which pcBlock is "io_" etapa.
IniciarIO(ms) == ticks' = CantidadTicks(ms) /\ tick' = TamanioTick(ms)

IOParaSuspender == TIEMPO_MAXIMO_BLOQUEADO - ultimoIO.tiempoEspera

ExcedeMaximo ==
  ultimoIO.tiempoEspera + ultimoIO.tiempoBloqueo > TIEMPO_MAXIMO_BLOQUEADO

hilo_block_SinSuspender ==
  /\ pcBlock = "decidir" /\ ~ExcedeMaximo
  /\ IniciarIO(ultimoIO.tiempoBloqueo)
  /\ pcBlock' = "io_en_memoria"
  /\ UNCHANGED <<colas, semaforos, consolas, hiloMain, hiloAready, hiloExec,
                 ultimoIO, ioRestante, cpu>>

\* Mutant: the subtraction of the rest of the I/O the wrong way round.
hilo_block_SuspenderDespues_AlReves ==
  /\ pcBlock = "decidir" /\ ExcedeMaximo /\ IOParaSuspender >= 0
  /\ IniciarIO(IOParaSuspender)
  /\ ioRestante' = IOParaSuspender - ultimoIO.tiempoBloqueo
  /\ pcBlock' = "io_hasta_maximo"
  /\ UNCHANGED <<colas, semaforos, consolas, hiloMain, hiloAready, hiloExec,
                 ultimoIO, cpu>>

hilo_block_SuspenderDespues ==
  /\ pcBlock = "decidir" /\ ExcedeMaximo /\ IOParaSuspender >= 0
  /\ IniciarIO(IOParaSuspender)
  /\ ioRestante' = ultimoIO.tiempoBloqueo - IOParaSuspender
  /\ pcBlock' = "io_hasta_maximo"
  /\ UNCHANGED <<colas, semaforos, consolas, hiloMain, hiloAready, hiloExec,
                 ultimoIO, cpu>>

hilo_block_SuspenderYa ==
  /\ pcBlock = "decidir" /\ ExcedeMaximo /\ IOParaSuspender < 0
  /\ ioRestante' = ultimoIO.tiempoBloqueo
  /\ pcBlock' = "suspender"
  /\ UNCHANGED <<colas, semaforos, consolas, hiloMain, hiloAready, hiloExec,
                 ultimoIO, ticks, tick, cpu>>

\* One step of hacerIO: a sleep, then the waits of BLOCKED under its mutex.
hacerIO ==
  /\ ticks > 0
  /\ ticks' = ticks - 1
  /\ estado_blocked' = sumarEspera(estado_blocked, tick)
  /\ UNCHANGED <<estado_new, estado_ready, estado_susp_ready, semaforos,
                 consolas, hiloMain, hiloAready, hiloExec, pcBlock, ultimoIO,
                 ioRestante, tick, cpu>>

hacerIO_HastaMaximo ==
  /\ pcBlock = "io_hasta_maximo" /\ ticks = 0
  /\ pcBlock' = "suspender"
  /\ UNCHANGED <<colas, semaforos, consolas, hiloMain, hiloAready, hiloExec,
                 ultimoIO, ioRestante, ticks, tick, cpu>>

\* PROCESS_SUSPEND_REQUEST and the wait for its answer.
comunicacionMemoriaSuspender ==
  /\ pcBlock = "suspender"
  /\ pcBlock' = "post_grado"
  /\ UNCHANGED <<colas, semaforos, consolas, hiloMain, hiloAready, hiloExec,
                 ultimoIO, ioRestante, ticks, tick, cpu>>

\* The suspended process gives its place up; the rest of its I/O starts.
hilo_block_PostGrado ==
  /\ pcBlock = "post_grado"
  /\ sem_multiprogramacion' = sem_multiprogramacion + 1
  /\ IniciarIO(ioRestante)
  /\ ioRestante' = 0
  /\ pcBlock' = "io_suspendido"
  /\ UNCHANGED <<colas, sem_hay_pcb_esperando_ready, sem_ready, sem_block,
                 consolas, hiloMain, hiloAready, hiloExec, ultimoIO, cpu>>

\* Mutant: the suspended process goes straight to READY.
addEstadoSuspReady_AReady ==
  /\ pcBlock = "io_suspendido" /\ ticks = 0
  /\ estado_ready' = Append(estado_ready, ultimoIO.pcb)
  /\ ultimoIO' = SinIO
  /\ pcBlock' = "post_ready"
  /\ UNCHANGED <<estado_new, estado_susp_ready, estado_blocked, semaforos,
                 consolas, hiloMain, hiloAready, hiloExec, ioRestante, ticks,
                 tick, cpu>>

addEstadoSuspReady ==
  /\ pcBlock = "io_suspendido" /\ ticks = 0
  /\ estado_susp_ready' = Append(estado_susp_ready, ultimoIO.pcb)
  /\ ultimoIO' = SinIO
  /\ pcBlock' = "post_esperando"
  /\ UNCHANGED <<estado_new, estado_ready, estado_blocked, semaforos, consolas,
                 hiloMain, hiloAready, hiloExec, ioRestante, ticks, tick, cpu>>

\* Mutant: nobody tells Aready that the process waits for a place.
hilo_block_PostEsperando_SinPost ==
  /\ pcBlock = "post_esperando"
  /\ pcBlock' = "esperar_block"
  /\ UNCHANGED <<colas, semaforos, consolas, hiloMain, hiloAready, hiloExec,
                 ultimoIO, ioRestante, ticks, tick, cpu>>

hilo_block_PostEsperando ==
  /\ pcBlock = "post_esperando"
  /\ sem_hay_pcb_esperando_ready' = sem_hay_pcb_esperando_ready + 1
  /\ pcBlock' = "esperar_block"
  /\ UNCHANGED <<colas, sem_multiprogramacion, sem_ready, sem_block, consolas,
                 hiloMain, hiloAready, hiloExec, ultimoIO, ioRestante, ticks,
                 tick, cpu>>

hilo_block_AgregarReady ==
  /\ pcBlock = "io_en_memoria" /\ ticks = 0
  /\ estado_ready' = Append(estado_ready, ultimoIO.pcb)
  /\ ultimoIO' = SinIO
  /\ pcBlock' = IF EsSRT THEN "interrumpir" ELSE "post_ready"
  /\ UNCHANGED <<estado_new, estado_susp_ready, estado_blocked, semaforos,
                 consolas, hiloMain, hiloAready, hiloExec, ioRestante, ticks,
                 tick, cpu>>

hilo_block_Interrumpir ==
  /\ pcBlock = "interrumpir"
  /\ interrupciones' = interrupciones + 1
  /\ pcBlock' = "post_ready"
  /\ UNCHANGED <<colas, semaforos, consolas, hiloMain, hiloAready, hiloExec,
                 ultimoIO, ioRestante, ticks, tick, dispatch>>

hilo_block_PostReady ==
  /\ pcBlock = "post_ready"
  /\ sem_ready' = sem_ready + 1
  /\ pcBlock' = "esperar_block"
  /\ UNCHANGED <<colas, sem_hay_pcb_esperando_ready, sem_multiprogramacion,
                 sem_block, consolas, hiloMain, hiloAready, hiloExec, ultimoIO,
                 ioRestante, ticks, tick, cpu>>

-----------------------------------------------------------------------------
(* The CPU, as the kernel sees it.  It runs the process from its PC up to   *)
(* an I/O or EXIT instruction, or less when an interrupt preempts it, and   *)
(* answers on the same connection.  KernelCpu.tla puts the CPU's own        *)
(* instruction cycle in the place of these two actions.                     *)

\* Where a run of pcb can stop: after at least one instruction, and never
\* past an I/O or EXIT.
Paradas(pcb) ==
  {fin \in pcb.PC + 1 .. Len(pcb.instrucciones) :
     \A i \in pcb.PC + 1 .. fin - 1 : pcb.instrucciones[i].id = "NO_OP"}

Respuesta(pcb, fin) ==
  LET instruccion == pcb.instrucciones[fin]
  IN  [op |-> CASE instruccion.id = "I/O" -> "PCB_EJECUTADO_IO"
                [] instruccion.id = "EXIT" -> "PCB_EJECUTADO_EXIT"
                [] OTHER -> "PCB_EJECUTADO_INTERRUPCION",
       pcb |-> [pcb EXCEPT !.PC = fin, !.lengthUltimaRafaga = fin - pcb.PC],
       tiempoBloqueo |-> IF instruccion.id = "I/O" THEN instruccion.tiempo
                                                   ELSE 0]

CpuResponde ==
  /\ dispatch.op = "REQ_PCB_A_EJECUTAR"
  /\ \E fin \in Paradas(dispatch.pcb) :
       /\ dispatch.pcb.instrucciones[fin].id = "NO_OP" => EsSRT
       /\ dispatch' = Respuesta(dispatch.pcb, fin)
  /\ UNCHANGED <<colas, semaforos, consolas, hiloMain, hiloAready, hiloExec,
                 hiloBlock, interrupciones>>

CpuLeeInterrupcion ==
  /\ interrupciones > 0
  /\ interrupciones' = interrupciones - 1
  /\ UNCHANGED <<colas, semaforos, consolas, hiloMain, hiloAready, hiloExec,
                 hiloBlock, dispatch>>

-----------------------------------------------------------------------------
Main == manejarProceso \/ ingresarANew \/ ingresarANew_Post

Aready ==
  \/ Aready_EsperarProceso \/ Aready_EsperarGrado
  \/ obtenerSiguienteAready_Elegir \/ obtenerSiguienteAready_Susp
  \/ obtenerSiguienteAready_New \/ comunicacionMemoriaCreacionEstructuras
  \/ Aready_AgregarReady \/ Aready_Interrumpir \/ Aready_PostReady

readyAexec ==
  \/ readyAexec_EsperarReady \/ planificacionFIFO \/ planificacionSRT
  \/ readyAexec_Quitar \/ ejecutarPCB
  \/ ejecutarPCB_IO \/ ejecutarPCB_PostBlock
  \/ ejecutarPCB_Interrupcion \/ ejecutarPCB_PostReady
  \/ execAexit_Finalizar \/ execAexit_Notificar \/ execAexit_PostGrado

hilo_block ==
  \/ hilo_block_Esperar \/ hilo_block_Sacar
  \/ hilo_block_SinSuspender \/ hilo_block_SuspenderDespues
  \/ hilo_block_SuspenderYa
  \/ hacerIO \/ hacerIO_HastaMaximo
  \/ comunicacionMemoriaSuspender \/ hilo_block_PostGrado
  \/ addEstadoSuspReady \/ hilo_block_PostEsperando
  \/ hilo_block_AgregarReady \/ hilo_block_Interrumpir \/ hilo_block_PostReady

Next == Main \/ Aready \/ readyAexec \/ hilo_block
          \/ CpuResponde \/ CpuLeeInterrupcion

Spec == Init /\ [][Next]_vars

-----------------------------------------------------------------------------
(* Properties *)

\* The type invariant: what every queue, semaphore, thread and connection of
\* planificador.c may hold.
TypeOK ==
  /\ estado_new \in Seq(PCB) /\ estado_ready \in Seq(PCB)
  /\ estado_susp_ready \in Seq(PCB) /\ estado_blocked \in Seq(IO)
  /\ sem_hay_pcb_esperando_ready \in Nat /\ sem_multiprogramacion \in Nat
  /\ sem_ready \in Nat /\ sem_block \in Nat
  /\ id_nuevo_proceso \in Nat /\ id_pcb_ejecutando \in Nat
  /\ consolas_conectadas \subseteq Nat /\ notificadas \subseteq Nat
  /\ pcMain \in {"esperar_consola", "ingresar", "post_esperando"}
  /\ pcbMain \in PCB \cup {SinPcb}
  /\ pcMain = "ingresar" => pcbMain \in PCB
  /\ pcAready \in {"esperar_proceso", "esperar_grado", "elegir", "sacar_susp",
                   "sacar_new", "esperar_memoria", "agregar_ready",
                   "interrumpir", "post_ready"}
  /\ pcbAready \in PCB \cup {SinPcb}
  /\ pcAready \in {"esperar_memoria", "agregar_ready"} => pcbAready \in PCB
  /\ pcExec \in {"esperar_ready", "planificar", "quitar", "ejecutar",
                 "esperar_cpu", "post_block", "post_ready", "notificar",
                 "post_grado"}
  /\ pcbExec \in PCB \cup {SinPcb}
  /\ pcExec \in {"quitar", "ejecutar", "notificar"} => pcbExec \in PCB
  /\ pcBlock \in {"esperar_block", "sacar_blocked", "decidir", "io_en_memoria",
                  "io_hasta_maximo", "suspender", "post_grado",
                  "io_suspendido", "post_esperando", "interrumpir",
                  "post_ready"}
  /\ ultimoIO \in IO \cup {SinIO}
  /\ pcBlock \in {"decidir", "io_en_memoria", "io_hasta_maximo", "suspender",
                  "post_grado", "io_suspendido"} => ultimoIO \in IO
  /\ ioRestante \in Nat /\ ticks \in Nat /\ tick \in Nat
  /\ dispatch \in Mensaje \cup {SinMensaje}
  /\ interrupciones \in Nat

\* No thread is about to pop or index an empty queue.  In the code each of
\* these would be a NULL dereference; what rules them out is that a semaphore
\* never promises more than its queues hold, whoever else is adding to them.
SinPopVacio ==
  /\ pcAready \in {"esperar_grado", "elegir"} =>
       estado_new # <<>> \/ estado_susp_ready # <<>>
  /\ pcAready = "sacar_susp" => estado_susp_ready # <<>>
  /\ pcAready = "sacar_new" => estado_new # <<>>
  /\ pcExec = "planificar" => estado_ready # <<>>
  /\ pcBlock = "sacar_blocked" => estado_blocked # <<>>

Contar(b) == IF b THEN 1 ELSE 0

\* The thread holds a PCB that is in no queue.
TieneAready == pcAready \in {"esperar_memoria", "agregar_ready"}
TieneExec ==
  \/ pcExec \in {"ejecutar", "notificar"}
  \/ pcExec = "quitar" /\ ~EsSRT
TieneBlock ==
  pcBlock \in {"decidir", "io_en_memoria", "io_hasta_maximo", "suspender",
              "post_grado", "io_suspendido"}

\* The processes that take part in the multiprogramming degree: in READY, in
\* BLOCKED, in the hands of the dispatcher, or in those of the device until
\* their place is given back.
EnMemoria ==
  Len(estado_ready) + Len(estado_blocked)
    + Contar(TieneAready)
    + Contar(TieneExec \/ pcExec \in {"esperar_cpu", "post_grado"})
    + Contar(TieneBlock /\ pcBlock # "io_suspendido")

\* The degree of multiprogramming is never exceeded, and no place of it leaks:
\* a place is either free, or taken by a process in memory, or just taken by
\* Aready for the process it is about to pick.
GradoRespetado ==
  sem_multiprogramacion + EnMemoria
    + Contar(pcAready \in {"elegir", "sacar_susp", "sacar_new"})
    = GRADO_MULTIPROGRAMACION

\* A thread has put a PCB in READY and not signalled it yet, or has taken the
\* signal and not removed its PCB.
ReadyPendientes ==
  Contar(pcAready \in {"interrumpir", "post_ready"})
    + Contar(pcBlock \in {"interrumpir", "post_ready"})
    + Contar(pcExec \in {"post_ready", "planificar"} \/ (pcExec = "quitar" /\ EsSRT))

\* The same for the processes that wait for a place in memory.
EsperandoPendientes ==
  Contar(pcMain = "post_esperando") + Contar(pcBlock = "post_esperando")
    + Contar(pcAready \in {"esperar_grado", "elegir", "sacar_susp", "sacar_new"})

BlockPendientes ==
  Contar(pcExec = "post_block") + Contar(pcBlock = "sacar_blocked")

ReadyExacto == Len(estado_ready) = sem_ready + ReadyPendientes

EsperandoExacto ==
  Len(estado_new) + Len(estado_susp_ready)
    = sem_hay_pcb_esperando_ready + EsperandoPendientes

BlockExacto == Len(estado_blocked) = sem_block + BlockPendientes

\* Each counting semaphore counts its queues: the PCBs in them are the signals
\* not taken yet and those in transit in a thread.  A signal too many is a pop
\* of an empty queue; one too few, a process that waits for ever.
SemaforosCuentan == ReadyExacto /\ EsperandoExacto /\ BlockExacto

\* Every PCB the kernel holds, in a queue or in the hands of a thread, as one
\* sequence of ids.
Ids(cola) == [i \in DOMAIN cola |-> cola[i].id]
IdSi(b, pcb) == IF b THEN <<pcb.id>> ELSE <<>>
Todos ==
  Ids(estado_new) \o Ids(estado_ready) \o Ids(estado_susp_ready)
    \o [i \in DOMAIN estado_blocked |-> estado_blocked[i].pcb.id]
    \o IdSi(pcMain = "ingresar", pcbMain)
    \o IdSi(TieneAready, pcbAready)
    \o IdSi(TieneExec, pcbExec)
    \o IdSi(pcExec = "esperar_cpu", dispatch.pcb)
    \o IdSi(TieneBlock, ultimoIO.pcb)

\* No process is lost or duplicated on its way through the queues: the PCBs
\* the kernel holds are exactly those of the consoles still waiting, each in
\* one place, so every console gets its EXIT_CONSOLE from its own process.
UnaCopiaPorConsola ==
  /\ ToSet(Todos) = consolas_conectadas
  /\ Len(Todos) = Cardinality(consolas_conectadas)

\* A console is released only by the EXIT of its process, and only once.
ConsolasPorExit ==
  /\ consolas_conectadas \cap notificadas = {}
  /\ consolas_conectadas \cup notificadas = 0 .. id_nuevo_proceso - 1

\* The waits of BLOCKED are in arrival order: a process that entered later
\* has not waited longer, so the device, which is FIFO, always serves the
\* one that has waited most and the overdue ones are a prefix of the queue.
EsperasOrdenadas ==
  \A i, j \in DOMAIN estado_blocked :
    i < j => estado_blocked[i].tiempoEspera >= estado_blocked[j].tiempoEspera
=============================================================================
