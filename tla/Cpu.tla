-------------------------------- MODULE Cpu --------------------------------
(***************************************************************************)
(* The CPU process (src/cpu/src/cicloInstruccion.c, cpu_servidor.c): the   *)
(* dispatch server, which runs one PCB at a time, and the interrupt        *)
(* server, a second thread that sets the flag hayInterrupcion.  What an    *)
(* instruction reads or writes is left out: "NO_OP" stands for every       *)
(* instruction after which execute returns true (NO_OP, READ, WRITE,       *)
(* COPY).                                                                  *)
(***************************************************************************)
EXTENDS Integers, Sequences

VARIABLES
  dispatch,          \* the dispatch connection: a request, or its answer
  interrupciones,    \* connections waiting at the interrupt port
  hayInterrupcion,   \* the flag the two threads share
  pcCpu,             \* thread dispatch: "esperar", "ejecutar", "chequear"
  pcb, PC_inicial    \* locals of cicloInstruccion

\* No PCB in the CPU: before the first dispatch, or freed after the answer.
PcbLibre == [id |-> 0, instrucciones |-> <<>>, PC |-> 0,
             estimacionRafaga |-> 0, lengthUltimaRafaga |-> 0]

InitCpu ==
  /\ hayInterrupcion = FALSE
  /\ pcCpu = "esperar"
  /\ pcb = PcbLibre
  /\ PC_inicial = 0

\* The instruction just executed: PC has moved past it.
UltimaInstruccion == pcb.instrucciones[pcb.PC]

\* Mutant: the PC the burst starts from is not taken again.
deserializarDispatch_SinPCInicial ==
  /\ pcCpu = "esperar"
  /\ dispatch.op = "REQ_PCB_A_EJECUTAR"
  /\ pcb' = dispatch.pcb
  /\ pcCpu' = "ejecutar"
  /\ UNCHANGED <<dispatch, interrupciones, hayInterrupcion, PC_inicial>>

\* A PCB arrives.  The reset of hayInterrupcion at the start of the cycle is
\* commented out in the code: a flag set earlier is kept.
deserializarDispatch ==
  /\ pcCpu = "esperar"
  /\ dispatch.op = "REQ_PCB_A_EJECUTAR"
  /\ pcb' = dispatch.pcb
  /\ PC_inicial' = dispatch.pcb.PC
  /\ pcCpu' = "ejecutar"
  /\ UNCHANGED <<dispatch, interrupciones, hayInterrupcion>>

\* fetch, execute and PC++.
execute ==
  /\ pcCpu = "ejecutar"
  /\ pcb.PC < Len(pcb.instrucciones)
  /\ pcb' = [pcb EXCEPT !.PC = @ + 1]
  /\ pcCpu' = "chequear"
  /\ UNCHANGED <<dispatch, interrupciones, hayInterrupcion, PC_inicial>>

\* The answer carries the operation code of the last instruction, whether or
\* not an interrupt was seen with it.
Responder ==
  dispatch' =
    [op |-> CASE UltimaInstruccion.id = "I/O" -> "PCB_EJECUTADO_IO"
              [] UltimaInstruccion.id = "EXIT" -> "PCB_EJECUTADO_EXIT"
              [] OTHER -> "PCB_EJECUTADO_INTERRUPCION",
     pcb |-> [pcb EXCEPT !.lengthUltimaRafaga = pcb.PC - PC_inicial],
     tiempoBloqueo |-> IF UltimaInstruccion.id = "I/O"
                         THEN UltimaInstruccion.tiempo ELSE 0]

\* Mutant: what execute returned is not looked at.
cicloInstruccion_Sigue_SinMirar ==
  /\ pcCpu = "chequear"
  /\ ~hayInterrupcion /\ pcb.PC < Len(pcb.instrucciones)
  /\ pcCpu' = "ejecutar"
  /\ UNCHANGED <<dispatch, interrupciones, hayInterrupcion, pcb, PC_inicial>>

\* Check interrupt: under mutex_interrupcion the flag is read and cleared.
cicloInstruccion_Sigue ==
  /\ pcCpu = "chequear"
  /\ ~hayInterrupcion /\ UltimaInstruccion.id = "NO_OP"
  /\ pcCpu' = "ejecutar"
  /\ UNCHANGED <<dispatch, interrupciones, hayInterrupcion, pcb, PC_inicial>>

cicloInstruccion_Devuelve ==
  /\ pcCpu = "chequear"
  /\ hayInterrupcion \/ UltimaInstruccion.id # "NO_OP"
  /\ hayInterrupcion' = FALSE
  /\ Responder
  /\ pcb' = PcbLibre
  /\ PC_inicial' = 0
  /\ pcCpu' = "esperar"
  /\ UNCHANGED interrupciones

\* The interrupt server accepts a connection and sets the flag, whoever runs.
deserializarInterrupt ==
  /\ interrupciones > 0
  /\ interrupciones' = interrupciones - 1
  /\ hayInterrupcion' = TRUE
  /\ UNCHANGED <<dispatch, pcCpu, pcb, PC_inicial>>

HiloDispatch ==
  \/ deserializarDispatch \/ execute
  \/ cicloInstruccion_Sigue \/ cicloInstruccion_Devuelve
=============================================================================
