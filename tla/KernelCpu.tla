----------------------------- MODULE KernelCpu -----------------------------
(***************************************************************************)
(* The kernel composed with the CPU: the CPU's instruction cycle takes the *)
(* place of the answers Kernel.tla allows any CPU.  They share the         *)
(* dispatch connection and the interrupts in flight.                       *)
(***************************************************************************)
EXTENDS Kernel

VARIABLES hayInterrupcion, pcCpu, pcb, PC_inicial

CPU == INSTANCE Cpu

cpuInterno == <<hayInterrupcion, pcCpu, pcb, PC_inicial>>
varsSistema == <<vars, cpuInterno>>
kernelSinCpu == <<colas, semaforos, consolas, hiloMain, hiloAready, hiloExec,
                  hiloBlock>>

InitSistema == Init /\ CPU!InitCpu

PasoKernel ==
  /\ Main \/ Aready \/ readyAexec \/ hilo_block
  /\ UNCHANGED cpuInterno

PasoDispatch == CPU!HiloDispatch /\ UNCHANGED kernelSinCpu
PasoInterrupt == CPU!deserializarInterrupt /\ UNCHANGED kernelSinCpu

NextSistema == PasoKernel \/ PasoDispatch \/ PasoInterrupt

\* Every thread runs whenever it can: they are pthreads that block only on
\* semaphores, mutexes, sleeps and sockets whose other end answers.  Consoles
\* connect or not.
EquidadSistema ==
  /\ WF_varsSistema((ingresarANew \/ ingresarANew_Post) /\ UNCHANGED cpuInterno)
  /\ WF_varsSistema(Aready /\ UNCHANGED cpuInterno)
  /\ WF_varsSistema(readyAexec /\ UNCHANGED cpuInterno)
  /\ WF_varsSistema(hilo_block /\ UNCHANGED cpuInterno)
  /\ WF_varsSistema(PasoDispatch)
  /\ WF_varsSistema(PasoInterrupt)

SpecSistema == InitSistema /\ [][NextSistema]_varsSistema /\ EquidadSistema

-----------------------------------------------------------------------------
(* Properties *)

\* The CPU is one of those Kernel.tla allows: every answer it gives comes
\* from running the dispatched PCB from its PC, by at least one instruction,
\* and never past an I/O or EXIT; and it preempts only under SRT.
ImplementaKernel == Spec

\* The CPU runs the process the kernel dispatched last, and nothing else.
CpuEjecutaElDespachado ==
  pcCpu # "esperar" =>
    /\ dispatch.op = "REQ_PCB_A_EJECUTAR"
    /\ pcExec = "esperar_cpu"
    /\ pcb.id = id_pcb_ejecutando
    /\ pcb.id = dispatch.pcb.id
    /\ PC_inicial = dispatch.pcb.PC

\* Every console that connects is told in the end that its process finished:
\* no process is forgotten in a queue, none starves behind preemptions or
\* suspended processes, and the threads never all wait on one another.
TodaConsolaTermina ==
  \A id \in 0 .. MaxProcesos - 1 :
    id \in consolas_conectadas ~> id \in notificadas

\* Shortest remaining time: when the process that ran last is back in READY,
\* no process there has a shorter estimate than the one picked.
SrtEligeElMasCorto ==
  [][planificacionSRT /\ (\E i \in DOMAIN estado_ready :
                            estado_ready[i].id = id_pcb_ejecutando)
       => \A i \in DOMAIN estado_ready :
            pcbExec'.estimacionRafaga <= estado_ready[i].estimacionRafaga
    ]_varsSistema
=============================================================================
