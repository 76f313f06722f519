-------------------------- MODULE KernelImplementa --------------------------
(* What the kernel and the CPU implement together: the CPU of Cpu.tla is    *)
(* one that Kernel.tla allows, and the kernel with it implements the life   *)
(* cycle of processes of CicloDeVida.tla.                                   *)
EXTENDS KernelProofs, KernelCiclo, KernelCpu

USE DEF colas, semaforos, consolas, hiloMain, hiloAready, hiloExec, hiloBlock, cpu

-----------------------------------------------------------------------------
(* The CPU *)

\* The CPU is a burst of the PCB dispatched: it is that PCB with its PC
\* moved past instructions that return to the cycle.  With FIFO nobody sends
\* interrupts.
MovioPC(antes, despues) == despues = [antes EXCEPT !.PC = despues.PC]

DespachoEnCurso ==
  /\ dispatch.op # "CERRADO" =>
       pcExec = "esperar_cpu" /\ dispatch.pcb.id = id_pcb_ejecutando
  /\ pcExec = "ejecutar" => pcbExec.id = id_pcb_ejecutando

RafagaEnCurso ==
  pcCpu # "esperar" =>
    /\ dispatch.op = "REQ_PCB_A_EJECUTAR"
    /\ PC_inicial = dispatch.pcb.PC
    /\ pcb \in PCB /\ MovioPC(dispatch.pcb, pcb)
    /\ pcb.PC >= PC_inicial
    /\ \A i \in PC_inicial + 1 .. pcb.PC :
         pcb.instrucciones[i].id = "NO_OP" \/ (pcCpu = "chequear" /\ i = pcb.PC)
    /\ pcCpu = "chequear" => pcb.PC \in PC_inicial + 1 .. Len(pcb.instrucciones)

SinInterrupciones ==
  ~EsSRT => /\ interrupciones = 0 /\ hayInterrupcion = FALSE
            /\ pcAready # "interrumpir" /\ pcBlock # "interrumpir"

CpuInv ==
  /\ DespachoEnCurso /\ RafagaEnCurso /\ SinInterrupciones
  /\ pcCpu \in {"esperar", "ejecutar", "chequear"}

\* The kernel and the CPU start with their steps agreed.
LEMMA CpuInicial == InitSistema => CpuInv
<1> SUFFICES ASSUME InitSistema PROVE CpuInv
  OBVIOUS
<1>1. pcCpu = "esperar" /\ hayInterrupcion = FALSE
  BY DEF InitSistema, CPU!InitCpu
<1>2. dispatch.op = "CERRADO" /\ pcExec = "esperar_ready"
  BY DEF InitSistema, Init, SinMensaje
<1>3. interrupciones = 0 /\ pcAready # "interrumpir" /\ pcBlock # "interrumpir"
  BY DEF InitSistema, Init
<1>4. DespachoEnCurso
  BY <1>2 DEF DespachoEnCurso
<1>5. RafagaEnCurso
  BY <1>1 DEF RafagaEnCurso
<1>6. SinInterrupciones
  BY <1>1, <1>3, Zenon DEF SinInterrupciones
<1> QED
  BY <1>1, <1>4, <1>5, <1>6, Zenon DEF CpuInv

\* What a dispatch carries when the process goes to the CPU.
LEMMA DespachoTipos ==
  ASSUME TypeOK, dispatch.op = "REQ_PCB_A_EJECUTAR"
  PROVE  /\ dispatch \in Mensaje /\ dispatch.pcb \in PCB /\ dispatch.pcb.PC \in Nat
         /\ dispatch.pcb.instrucciones \in Seq(Instruccion)
<1>1. dispatch \in Mensaje
  BY DEF TypeOK, SinMensaje
<1> QED
  BY <1>1, ConstantesKernel DEF Mensaje, PCB

\* What the kernel's threads do keeps the CPU's part of the invariant.
LEMMA CpuPasoKernel == TypeOK /\ CpuInv /\ PasoKernel => CpuInv'
<1> SUFFICES ASSUME TypeOK, CpuInv, PasoKernel PROVE CpuInv'
  OBVIOUS
<1> USE DEF CpuInv, DespachoEnCurso, RafagaEnCurso, SinInterrupciones, PasoKernel, cpuInterno
<1>1. CASE Main
  BY <1>1 DEF Main, manejarProceso, ingresarANew, ingresarANew_Post
<1>2. CASE Aready
  <2>1. UNCHANGED <<dispatch, pcExec, pcbExec, id_pcb_ejecutando, pcBlock, pcCpu, pcb,
                    PC_inicial, hayInterrupcion>>
    BY <1>2 DEF Aready, Aready_EsperarProceso, Aready_EsperarGrado,
     obtenerSiguienteAready_Elegir, obtenerSiguienteAready_Susp,
     obtenerSiguienteAready_New, comunicacionMemoriaCreacionEstructuras,
     Aready_AgregarReady, Aready_Interrumpir, Aready_PostReady
  <2>2. ~EsSRT => interrupciones' = 0 /\ pcAready' # "interrumpir"
    BY <1>2 DEF Aready, Aready_EsperarProceso, Aready_EsperarGrado,
     obtenerSiguienteAready_Elegir, obtenerSiguienteAready_Susp,
     obtenerSiguienteAready_New, comunicacionMemoriaCreacionEstructuras,
     Aready_AgregarReady, Aready_Interrumpir, Aready_PostReady
  <2> QED
    BY <2>1, <2>2
<1>3. CASE readyAexec
  <2>1. UNCHANGED <<interrupciones, pcAready, pcBlock, pcCpu, pcb,
                    PC_inicial, hayInterrupcion>>
    BY <1>3 DEF readyAexec, readyAexec_EsperarReady, planificacionFIFO,
     planificacionSRT, readyAexec_Quitar, ejecutarPCB, ejecutarPCB_IO, ejecutarPCB_PostBlock,
     ejecutarPCB_Interrupcion, ejecutarPCB_PostReady, execAexit_Finalizar,
     execAexit_Notificar, execAexit_PostGrado
  <2>2. CASE ejecutarPCB
    <3>1. dispatch.op = "CERRADO" /\ pcCpu = "esperar"
      BY <2>2 DEF ejecutarPCB
    <3> QED
      BY <2>1, <2>2, <3>1 DEF ejecutarPCB
  <2>3. CASE ejecutarPCB_IO \/ ejecutarPCB_Interrupcion \/ execAexit_Finalizar
    <3>1. pcCpu = "esperar"
      BY <2>3 DEF ejecutarPCB_IO, ejecutarPCB_Interrupcion, execAexit_Finalizar
    <3> QED
      BY <2>1, <2>3, <3>1 DEF ejecutarPCB_IO, ejecutarPCB_Interrupcion,
         execAexit_Finalizar, SinMensaje
  <2>4. CASE \/ readyAexec_EsperarReady \/ planificacionFIFO \/ planificacionSRT
             \/ readyAexec_Quitar \/ ejecutarPCB_PostBlock \/ ejecutarPCB_PostReady
             \/ execAexit_Notificar \/ execAexit_PostGrado
    <3>1. pcExec # "esperar_cpu" /\ dispatch.op = "CERRADO" /\ dispatch' = dispatch
          /\ pcCpu = "esperar"
      BY <2>4 DEF readyAexec_EsperarReady, planificacionFIFO, planificacionSRT,
         readyAexec_Quitar, ejecutarPCB_PostBlock, ejecutarPCB_PostReady,
         execAexit_Notificar, execAexit_PostGrado
    <3>2. pcExec' = "ejecutar" => pcbExec'.id = id_pcb_ejecutando'
      BY <2>4 DEF readyAexec_EsperarReady, planificacionFIFO, planificacionSRT,
         readyAexec_Quitar, ejecutarPCB_PostBlock, ejecutarPCB_PostReady,
         execAexit_Notificar, execAexit_PostGrado
    <3> QED
      BY <2>1, <3>1, <3>2
  <2> QED
    BY <1>3, <2>2, <2>3, <2>4 DEF readyAexec
<1>4. CASE hilo_block
  <2>1. UNCHANGED <<dispatch, pcExec, pcbExec, id_pcb_ejecutando, pcAready, pcCpu, pcb,
                    PC_inicial, hayInterrupcion>>
    BY <1>4 DEF hilo_block, hilo_block_Esperar, hilo_block_Sacar, hilo_block_SinSuspender,
     hilo_block_SuspenderDespues, hilo_block_SuspenderYa, hacerIO, hacerIO_HastaMaximo,
     comunicacionMemoriaSuspender, hilo_block_PostGrado, addEstadoSuspReady,
     hilo_block_PostEsperando, hilo_block_AgregarReady, hilo_block_Interrumpir,
     hilo_block_PostReady
  <2>2. ~EsSRT => interrupciones' = 0 /\ pcBlock' # "interrumpir"
    BY <1>4 DEF hilo_block, hilo_block_Esperar, hilo_block_Sacar, hilo_block_SinSuspender,
     hilo_block_SuspenderDespues, hilo_block_SuspenderYa, hacerIO, hacerIO_HastaMaximo,
     comunicacionMemoriaSuspender, hilo_block_PostGrado, addEstadoSuspReady,
     hilo_block_PostEsperando, hilo_block_AgregarReady, hilo_block_Interrumpir,
     hilo_block_PostReady
  <2> QED
    BY <2>1, <2>2
<1> QED
  BY <1>1, <1>2, <1>3, <1>4

\* So does the CPU itself.
LEMMA CpuPasoDispatch == TypeOK /\ CpuInv /\ PasoDispatch => CpuInv'
<1> SUFFICES ASSUME TypeOK, CpuInv, PasoDispatch PROVE CpuInv'
  OBVIOUS
<1>0. DespachoEnCurso /\ RafagaEnCurso /\ SinInterrupciones
  BY DEF CpuInv
<1>1. CASE CPU!deserializarDispatch
  <2>1. /\ dispatch.pcb \in PCB /\ dispatch.pcb.PC \in Nat
        /\ dispatch.pcb.instrucciones \in Seq(Instruccion)
    BY <1>1, DespachoTipos DEF CPU!deserializarDispatch
  <2>2. /\ pcCpu' = "ejecutar" /\ pcb' = dispatch.pcb /\ PC_inicial' = dispatch.pcb.PC
        /\ dispatch.op = "REQ_PCB_A_EJECUTAR" /\ dispatch' = dispatch
        /\ UNCHANGED <<hayInterrupcion, interrupciones, kernelSinCpu>>
    BY <1>1 DEF CPU!deserializarDispatch, PasoDispatch
  <2>3. MovioPC(dispatch.pcb, dispatch.pcb)
    BY <2>1 DEF MovioPC, PCB
  <2>4. RafagaEnCurso'
    BY <2>1, <2>2, <2>3 DEF RafagaEnCurso
  <2>5. SinInterrupciones'
    BY <1>0, <2>2 DEF SinInterrupciones, kernelSinCpu
  <2>6. DespachoEnCurso'
    BY <1>0, <2>2 DEF DespachoEnCurso, kernelSinCpu
  <2> QED
    BY <2>2, <2>4, <2>5, <2>6 DEF CpuInv
<1>2. CASE CPU!execute
  <2>1. /\ dispatch.op = "REQ_PCB_A_EJECUTAR"
        /\ PC_inicial = dispatch.pcb.PC
        /\ pcb \in PCB /\ MovioPC(dispatch.pcb, pcb)
        /\ pcb.PC >= PC_inicial
        /\ \A i \in PC_inicial + 1 .. pcb.PC : pcb.instrucciones[i].id = "NO_OP"
    BY <1>0, <1>2 DEF RafagaEnCurso, CPU!execute
  <2>2. /\ pcCpu' = "chequear" /\ pcb' = [pcb EXCEPT !.PC = pcb.PC + 1]
        /\ pcb.PC < Len(pcb.instrucciones)
        /\ UNCHANGED <<dispatch, PC_inicial, hayInterrupcion, interrupciones, kernelSinCpu>>
    BY <1>2 DEF CPU!execute, PasoDispatch
  <2>3. dispatch.pcb \in PCB /\ dispatch.pcb.PC \in Nat /\ pcb.PC \in Nat
        /\ Len(pcb.instrucciones) \in Nat
    BY <2>1, DespachoTipos, ConstantesKernel DEF PCB
  <2>4. /\ pcb' \in PCB /\ pcb'.PC = pcb.PC + 1 /\ pcb'.instrucciones = pcb.instrucciones
    BY SMTT(30), <2>1, <2>2, <2>3 DEF PCB
  <2>5. MovioPC(dispatch.pcb, pcb')
    BY <2>1, <2>2, <2>3 DEF MovioPC, PCB
  <2>6. \A i \in PC_inicial + 1 .. pcb'.PC :
          pcb'.instrucciones[i].id = "NO_OP" \/ i = pcb'.PC
    BY <2>1, <2>3, <2>4
  <2>7. RafagaEnCurso'
    BY <2>1, <2>2, <2>3, <2>4, <2>5, <2>6 DEF RafagaEnCurso
  <2>8. SinInterrupciones'
    BY <1>0, <2>2 DEF SinInterrupciones, kernelSinCpu
  <2> QED
    BY <1>0, <2>2, <2>7, <2>8 DEF CpuInv, DespachoEnCurso, kernelSinCpu
<1>3. CASE CPU!cicloInstruccion_Sigue
  <2>1. /\ dispatch.op = "REQ_PCB_A_EJECUTAR"
        /\ PC_inicial = dispatch.pcb.PC
        /\ pcb \in PCB /\ MovioPC(dispatch.pcb, pcb)
        /\ pcb.PC >= PC_inicial
        /\ \A i \in PC_inicial + 1 .. pcb.PC :
             pcb.instrucciones[i].id = "NO_OP" \/ i = pcb.PC
    BY <1>0, <1>3 DEF RafagaEnCurso, CPU!cicloInstruccion_Sigue
  <2>2. /\ pcCpu' = "ejecutar" /\ UNCHANGED <<dispatch, pcb, PC_inicial>>
        /\ pcb.instrucciones[pcb.PC].id = "NO_OP"
    BY <1>3 DEF CPU!cicloInstruccion_Sigue, CPU!UltimaInstruccion
  <2>3. RafagaEnCurso'
    BY <2>1, <2>2 DEF RafagaEnCurso
  <2>4. SinInterrupciones'
    BY <1>0, <1>3 DEF SinInterrupciones, kernelSinCpu, PasoDispatch, CPU!cicloInstruccion_Sigue
  <2> QED
    BY <1>0, <1>3, <2>2, <2>3, <2>4 DEF CpuInv, DespachoEnCurso, kernelSinCpu, PasoDispatch
<1>4. CASE CPU!cicloInstruccion_Devuelve
  <2>1. pcCpu' = "esperar" /\ hayInterrupcion' = FALSE /\ interrupciones' = interrupciones
    BY <1>4 DEF CPU!cicloInstruccion_Devuelve
  <2>2. dispatch.op = "REQ_PCB_A_EJECUTAR" /\ PC_inicial = dispatch.pcb.PC
        /\ pcb \in PCB /\ MovioPC(dispatch.pcb, pcb)
    BY <1>0, <1>4 DEF RafagaEnCurso, CPU!cicloInstruccion_Devuelve
  <2>3. dispatch'.pcb.id = dispatch.pcb.id
    <3>1. dispatch'.pcb.id = pcb.id
      BY <1>4, <2>2 DEF CPU!cicloInstruccion_Devuelve, CPU!Responder, PCB
    <3>2. dispatch.pcb \in PCB
      BY <2>2, DespachoTipos
    <3>3. pcb.id = dispatch.pcb.id
      BY <2>2, <3>2 DEF MovioPC, PCB
    <3> QED
      BY <3>1, <3>3
  <2>4. DespachoEnCurso'
    BY <1>0, <1>4, <2>2, <2>3 DEF DespachoEnCurso, PasoDispatch, kernelSinCpu
  <2>5. SinInterrupciones'
    BY <1>0, <1>4, <2>1 DEF SinInterrupciones, PasoDispatch, kernelSinCpu
  <2>6. RafagaEnCurso'
    BY <2>1 DEF RafagaEnCurso
  <2> QED
    BY <2>1, <2>4, <2>5, <2>6 DEF CpuInv
<1> QED
  BY <1>1, <1>2, <1>3, <1>4 DEF PasoDispatch, CPU!HiloDispatch

\* An answer of the CPU is one that Kernel.tla allows any CPU.
LEMMA CpuRespondeComoKernel ==
  TypeOK /\ CpuInv /\ PasoDispatch => CpuResponde \/ UNCHANGED vars
<1> SUFFICES ASSUME TypeOK, CpuInv, PasoDispatch PROVE CpuResponde \/ UNCHANGED vars
  OBVIOUS
<1>1. CASE CPU!deserializarDispatch \/ CPU!execute \/ CPU!cicloInstruccion_Sigue
  BY <1>1 DEF PasoDispatch, kernelSinCpu, CPU!deserializarDispatch, CPU!execute,
     CPU!cicloInstruccion_Sigue, vars
<1>2. CASE CPU!cicloInstruccion_Devuelve
  <2> DEFINE d == dispatch.pcb
             fin == pcb.PC
  <2>1. /\ dispatch.op = "REQ_PCB_A_EJECUTAR" /\ PC_inicial = d.PC
        /\ pcb \in PCB /\ MovioPC(d, pcb)
        /\ fin \in PC_inicial + 1 .. Len(pcb.instrucciones)
        /\ \A i \in PC_inicial + 1 .. fin : pcb.instrucciones[i].id = "NO_OP" \/ i = fin
    BY <1>2 DEF CpuInv, RafagaEnCurso, CPU!cicloInstruccion_Devuelve
  <2>2. /\ d \in PCB /\ d.PC \in Nat /\ d.instrucciones \in Seq(Instruccion)
        /\ Len(d.instrucciones) \in Nat
    BY <2>1, DespachoTipos
  <2>3. pcb.instrucciones = d.instrucciones
    BY <2>1, <2>2 DEF MovioPC, PCB
  <2>4. fin \in Paradas(d)
    BY <2>1, <2>2, <2>3 DEF Paradas
  <2>5. [pcb EXCEPT !.lengthUltimaRafaga = pcb.PC - PC_inicial]
          = [d EXCEPT !.PC = fin, !.lengthUltimaRafaga = fin - d.PC]
    BY <2>1, <2>2 DEF MovioPC, PCB
  <2>6. dispatch' = Respuesta(d, fin)
    BY <1>2, <2>3, <2>5 DEF CPU!cicloInstruccion_Devuelve, CPU!Responder,
       CPU!UltimaInstruccion, Respuesta
  <2>7. d.instrucciones[fin].id = "NO_OP" => EsSRT
    BY <1>2, <2>3 DEF CpuInv, SinInterrupciones, CPU!cicloInstruccion_Devuelve,
       CPU!UltimaInstruccion
  <2> QED
    BY <1>2, <2>1, <2>4, <2>6, <2>7 DEF CpuResponde, PasoDispatch, kernelSinCpu,
       CPU!cicloInstruccion_Devuelve
<1> QED
  BY <1>1, <1>2 DEF PasoDispatch, CPU!HiloDispatch

\* The interrupt server.
LEMMA CpuPasoInterrupt ==
  TypeOK /\ CpuInv /\ PasoInterrupt => CpuInv' /\ CpuLeeInterrupcion
<1> SUFFICES ASSUME TypeOK, CpuInv, PasoInterrupt PROVE CpuInv' /\ CpuLeeInterrupcion
  OBVIOUS
<1>1. CpuLeeInterrupcion
  BY DEF PasoInterrupt, CPU!deserializarInterrupt, CpuLeeInterrupcion, kernelSinCpu
<1>2. EsSRT
  BY DEF PasoInterrupt, CPU!deserializarInterrupt, CpuInv, SinInterrupciones
<1>3. UNCHANGED <<dispatch, pcCpu, pcb, PC_inicial, kernelSinCpu>>
  BY DEF PasoInterrupt, CPU!deserializarInterrupt
<1> QED
  BY <1>1, <1>2, <1>3 DEF CpuInv, DespachoEnCurso, RafagaEnCurso, SinInterrupciones,
     kernelSinCpu

\* One step of the kernel keeps the types, whichever thread takes it.
LEMMA TipoPaso == TypeOK /\ [Next]_vars => TypeOK'
<1>1. TypeOK /\ UNCHANGED vars => TypeOK'
  BY DEF vars, TypeOK
<1> QED
  BY <1>1, TipoMain, TipoAready, TipoExec, TipoBlock, TipoCpu DEF Next

\* Every step of the kernel with the CPU is one of the kernel, or none.
LEMMA SistemaPaso ==
  TypeOK /\ CpuInv /\ [NextSistema]_varsSistema => [Next]_vars /\ TypeOK' /\ CpuInv'
<1>1. TypeOK /\ CpuInv /\ PasoKernel => [Next]_vars /\ CpuInv'
  BY CpuPasoKernel DEF PasoKernel, Next
<1>2. TypeOK /\ CpuInv /\ PasoDispatch => [Next]_vars /\ CpuInv'
  BY CpuPasoDispatch, CpuRespondeComoKernel DEF Next
<1>3. TypeOK /\ CpuInv /\ PasoInterrupt => [Next]_vars /\ CpuInv'
  BY CpuPasoInterrupt DEF Next
<1>4. CpuInv /\ UNCHANGED varsSistema => UNCHANGED vars /\ CpuInv'
  BY DEF varsSistema, vars, cpuInterno, CpuInv, DespachoEnCurso, RafagaEnCurso,
     SinInterrupciones
<1> QED
  BY <1>1, <1>2, <1>3, <1>4, TipoPaso DEF NextSistema

\* The invariant of the kernel with its CPU.
LEMMA SistemaInvariante == SpecSistema => [](TypeOK /\ CpuInv)
<1>1. InitSistema => TypeOK
  BY ConstantesKernel DEF InitSistema, Init, TypeOK
<1> QED
  BY <1>1, CpuInicial, SistemaPaso, PTL DEF SpecSistema

\* The CPU of cicloInstruccion.c is one the kernel works with: the kernel with
\* it does nothing that it does not do with some CPU that answers, so that all
\* that is proved of the kernel holds of both together.
THEOREM CpuCorrecta == SpecSistema => ImplementaKernel
<1>1. InitSistema => Init
  BY DEF InitSistema
<1> QED
  BY <1>1, SistemaInvariante, SistemaPaso, PTL DEF SpecSistema, ImplementaKernel, Spec

\* Whatever interrupts arrive and when, what the CPU runs is the PCB the kernel
\* dispatched last and has not got back.
THEOREM EjecutaElDespachado == SpecSistema => []CpuEjecutaElDespachado
<1>1. TypeOK /\ CpuInv => CpuEjecutaElDespachado
  <2> SUFFICES ASSUME TypeOK, CpuInv, pcCpu # "esperar" PROVE CpuEjecutaElDespachado
    BY DEF CpuEjecutaElDespachado
  <2>1. dispatch.op = "REQ_PCB_A_EJECUTAR" /\ PC_inicial = dispatch.pcb.PC
        /\ MovioPC(dispatch.pcb, pcb) /\ pcb \in PCB
    BY DEF CpuInv, RafagaEnCurso
  <2>2. dispatch.pcb \in PCB
    BY <2>1, DespachoTipos
  <2>3. pcb.id = dispatch.pcb.id
    BY <2>1, <2>2 DEF MovioPC, PCB
  <2> QED
    BY <2>1, <2>3 DEF CpuInv, DespachoEnCurso, CpuEjecutaElDespachado
<1> QED
  BY <1>1, SistemaInvariante, PTL

\* What IndiceSRT picks when the process dispatched last is in the list: no
\* other there has a shorter estimate.
LEMMA IndiceSRTEsElMasCorto ==
  ASSUME NEW q \in Seq(PCB), NEW ejecutando, En(q, ejecutando), NEW k \in DOMAIN q
  PROVE  q[IndiceSRT(q, ejecutando)].estimacionRafaga <= q[k].estimacionRafaga
<1> DEFINE estimacion(i) == q[i].estimacionRafaga
           delUltimo == {i \in DOMAIN q : q[i].id = ejecutando}
           estimaciones == {estimacion(i) : i \in DOMAIN q}
           minimos == {i \in DOMAIN q : estimacion(i) = Min(estimaciones)}
<1>1. DOMAIN q = 1 .. Len(q) /\ Len(q) \in Nat
  OBVIOUS
<1>2. ASSUME NEW i \in DOMAIN q PROVE estimacion(i) \in Nat
  <2>1. q[i] \in PCB
    BY EnRango
  <2> QED
    BY <2>1 DEF PCB
<1>3. estimaciones \in SUBSET Nat /\ estimaciones # {}
  <2>1. estimacion(k) \in estimaciones
    OBVIOUS
  <2> HIDE DEF estimacion
  <2> QED
    BY <1>2, <2>1
<1>4. Min(estimaciones) \in estimaciones /\ \A y \in estimaciones : Min(estimaciones) <= y
  <2> HIDE DEF estimaciones
  <2> QED
    BY <1>3, MinimoExiste
<1>5. estimacion(k) \in estimaciones /\ Min(estimaciones) <= estimacion(k)
  BY <1>4
<1>6. Min(minimos) \in minimos
  <2>1. PICK i \in DOMAIN q : estimacion(i) = Min(estimaciones)
    <3>1. Min(estimaciones) \in {estimacion(i) : i \in DOMAIN q}
      BY <1>4
    <3> QED
      BY <3>1
  <2>2. i \in minimos
    BY <2>1
  <2>3. minimos \subseteq DOMAIN q
    OBVIOUS
  <2> HIDE DEF minimos
  <2> QED
    BY <1>1, <2>2, <2>3, MinimoExiste
<1>7. Min(delUltimo) \in delUltimo /\ delUltimo # {}
  <2>1. delUltimo # {} /\ delUltimo \in SUBSET Nat
    BY <1>1 DEF En
  <2> HIDE DEF delUltimo
  <2> QED
    BY <2>1, MinimoExiste
<1>8. IndiceSRT(q, ejecutando) =
        IF delUltimo = {} THEN 1
        ELSE IF Min(estimaciones) < estimacion(Min(delUltimo))
               THEN Min(minimos) ELSE Min(delUltimo)
  BY DEF IndiceSRT
<1>9. /\ Min(minimos) \in DOMAIN q /\ estimacion(Min(minimos)) = Min(estimaciones)
      /\ Min(delUltimo) \in DOMAIN q
  BY <1>6, <1>7
<1>10. /\ estimacion(Min(delUltimo)) \in Nat /\ estimacion(k) \in Nat
       /\ Min(estimaciones) \in Nat
  BY <1>2, <1>3, <1>4, <1>9
<1> HIDE DEF minimos, delUltimo, estimaciones
<1> DEFINE e(i) == q[i].estimacionRafaga
<1>11. e(IndiceSRT(q, ejecutando)) <= e(k)
  BY <1>5, <1>7, <1>8, <1>9, <1>10
<1> QED
  BY <1>11

\* Shortest remaining time, for any number of processes in READY: once the
\* process that ran last is back there, nobody with a shorter estimate than
\* the one picked is left waiting.
THEOREM SrtCorrecto == SpecSistema => SrtEligeElMasCorto
<1>1. TypeOK /\ planificacionSRT
        /\ (\E i \in DOMAIN estado_ready : estado_ready[i].id = id_pcb_ejecutando)
      => \A i \in DOMAIN estado_ready :
           pcbExec'.estimacionRafaga <= estado_ready[i].estimacionRafaga
  <2> SUFFICES ASSUME TypeOK, planificacionSRT, En(estado_ready, id_pcb_ejecutando),
                      NEW i \in DOMAIN estado_ready
               PROVE  pcbExec'.estimacionRafaga <= estado_ready[i].estimacionRafaga
    BY DEF En
  <2> QED
    BY IndiceSRTEsElMasCorto DEF TypeOK, planificacionSRT
<1> QED
  BY <1>1, SistemaInvariante, PTL DEF SrtEligeElMasCorto

-----------------------------------------------------------------------------
(* The life cycle: the places of Unicidad, and the state each one gives *)

\* An open dispatch always carries a process.
LEMMA DespachoDeReq ==
  ASSUME TypeOK, dispatch.op # "CERRADO"
  PROVE  dispatch.pcb \in PCB /\ dispatch.pcb.id \in Nat
  BY DEF TypeOK, SinMensaje, Mensaje, PCB

IdsAcotados == id_nuevo_proceso \in 0 .. MaxProcesos

CicloInv == TypeOK /\ Unicidad /\ ConsolasPorExit /\ Cuentas /\ IdsAcotados

EsNuevo(x) == En(estado_new, x) \/ (pcMain = "ingresar" /\ pcbMain.id = x)
EnReady(x) == (En(estado_ready, x) /\ ~EnExec(x)) \/ (TieneAready /\ pcbAready.id = x)
EsBloqueado(x) ==
  EnIO(estado_blocked, x)
    \/ EnDispositivo(x, {"decidir", "io_en_memoria", "io_hasta_maximo", "suspender"})
EsSuspendido(x) == EnDispositivo(x, {"post_grado", "io_suspendido"})
Termino(x) == x \in notificadas \/ (pcExec = "notificar" /\ pcbExec.id = x)

\* The state of a process, with the places of Unicidad.
LEMMA EstadoEs ==
  ASSUME NEW x
  PROVE  EstadoDe(x) =
           IF x >= id_nuevo_proceso THEN "NONE"
           ELSE IF Termino(x) THEN "EXIT"
           ELSE IF EnExec(x) THEN "EXEC"
           ELSE IF EsNuevo(x) THEN "NEW"
           ELSE IF En(estado_susp_ready, x) THEN "SUSP_READY"
           ELSE IF EsSuspendido(x) THEN "SUSP_BLOCKED"
           ELSE IF EsBloqueado(x) THEN "BLOCKED" ELSE "READY"
<1>1. /\ EnCola(x, estado_new) <=> En(estado_new, x)
      /\ EnCola(x, estado_susp_ready) <=> En(estado_susp_ready, x)
  BY DEF EnCola, En
<1>2. (\E i \in DOMAIN estado_blocked : estado_blocked[i].pcb.id = x) <=> EnIO(estado_blocked, x)
  BY DEF EnIO
<1> QED
  BY <1>1, <1>2 DEF EstadoDe, Termino, EsNuevo, EsBloqueado, EsSuspendido

\* A process is in one place, and its place says its state.
LEMMA EstadoPorLugar ==
  ASSUME TypeOK, Unicidad, ConsolasPorExit, NEW x \in Nat
  PROVE  /\ Termino(x) => EstadoDe(x) = "EXIT"
         /\ EnExec(x) => EstadoDe(x) = "EXEC"
         /\ EsNuevo(x) => EstadoDe(x) = "NEW"
         /\ En(estado_susp_ready, x) => EstadoDe(x) = "SUSP_READY"
         /\ EsSuspendido(x) => EstadoDe(x) = "SUSP_BLOCKED"
         /\ EsBloqueado(x) => EstadoDe(x) = "BLOCKED"
         /\ EnReady(x) => EstadoDe(x) = "READY"
<1>1. /\ Copias(x) = Contar(x \in consolas_conectadas)
      /\ pcExec = "quitar" /\ EsSRT => En(estado_ready, pcbExec.id)
      /\ x \in consolas_conectadas => x < id_nuevo_proceso
  BY DEF Unicidad
<1>2. id_nuevo_proceso \in Nat
  BY DEF TypeOK
<1>3. /\ x \in notificadas => x \notin consolas_conectadas
      /\ x \in notificadas => x < id_nuevo_proceso
  BY <1>2 DEF ConsolasPorExit
<1>4. \/ x \in consolas_conectadas /\ Copias(x) = 1
      \/ x \notin consolas_conectadas /\ Copias(x) = 0
  BY <1>1 DEF Contar
<1> DEFINE a == En(estado_new, x)
           b == En(estado_ready, x)
           c == En(estado_susp_ready, x)
           d == EnIO(estado_blocked, x)
           m == pcMain = "ingresar" /\ pcbMain.id = x
           r == TieneAready /\ pcbAready.id = x
           e == TieneExec /\ pcbExec.id = x
           u == pcExec = "esperar_cpu" /\ dispatch.pcb.id = x
           k == TieneBlock /\ ultimoIO.pcb.id = x
<1>5. Copias(x) = Contar(a) + Contar(b) + Contar(c) + Contar(d) + Contar(m)
                    + Contar(r) + Contar(e) + Contar(u) + Contar(k)
  BY DEF Copias
<1>6. /\ EnExec(x) => u \/ e \/ (b /\ pcExec = "quitar" /\ pcbExec.id = x)
      /\ EsSuspendido(x) => k /\ pcBlock \in {"post_grado", "io_suspendido"}
      /\ EsBloqueado(x) => d \/ (k /\ pcBlock \notin {"post_grado", "io_suspendido"})
      /\ EsNuevo(x) => a \/ m
      /\ EnReady(x) => (b /\ ~EnExec(x)) \/ r
      /\ Termino(x) => x \in notificadas \/ (e /\ pcExec = "notificar")
      /\ EnExec(x) => pcExec # "notificar"
  <2>1. EnExec(x) => pcExec # "notificar" /\ (u \/ e \/ (b /\ pcExec = "quitar" /\ pcbExec.id = x))
    BY <1>1 DEF EnExec, TieneExec
  <2>2. /\ EsSuspendido(x) => k /\ pcBlock \in {"post_grado", "io_suspendido"}
        /\ EsBloqueado(x) => d \/ (k /\ pcBlock \notin {"post_grado", "io_suspendido"})
    BY DEF EsSuspendido, EsBloqueado, EnDispositivo, TieneBlock
  <2>3. /\ EsNuevo(x) => a \/ m
        /\ EnReady(x) => (b /\ ~EnExec(x)) \/ r
    BY DEF EsNuevo, EnReady
  <2>4. Termino(x) => x \in notificadas \/ (e /\ pcExec = "notificar")
    BY DEF Termino, TieneExec
  <2> HIDE DEF a, b, c, d, m, r, e, u, k
  <2> QED
    BY <2>1, <2>2, <2>3, <2>4
<1> HIDE DEF a, b, c, d, m, r, e, u, k
<1>7. CASE x \in notificadas
  <2>1. ~a /\ ~b /\ ~c /\ ~d /\ ~m /\ ~r /\ ~e /\ ~u /\ ~k
    BY <1>3, <1>4, <1>5, <1>7 DEF Contar
  <2> QED
    BY <1>2, <1>3, <1>6, <1>7, <2>1, EstadoEs DEF c, Termino
<1>8. CASE x \notin notificadas
  <2>1. x \in consolas_conectadas => x < id_nuevo_proceso
    BY <1>1
  <2>2. CASE x \notin consolas_conectadas
    <3>1. ~a /\ ~b /\ ~c /\ ~d /\ ~m /\ ~r /\ ~e /\ ~u /\ ~k
      BY <1>4, <1>5, <2>2 DEF Contar
    <3> QED
      BY <1>6, <1>8, <3>1 DEF c
  <2>3. CASE x \in consolas_conectadas
    <3>1. Contar(a) + Contar(b) + Contar(c) + Contar(d) + Contar(m)
                    + Contar(r) + Contar(e) + Contar(u) + Contar(k) = 1
      BY <1>4, <1>5, <2>3
    <3>2. /\ a => ~b /\ ~c /\ ~d /\ ~r /\ ~e /\ ~u /\ ~k
          /\ m => ~b /\ ~c /\ ~d /\ ~r /\ ~e /\ ~u /\ ~k
          /\ b => ~c /\ ~d /\ ~r /\ ~e /\ ~u /\ ~k
          /\ c => ~d /\ ~r /\ ~e /\ ~u /\ ~k
          /\ d => ~r /\ ~e /\ ~u /\ ~k
          /\ r => ~e /\ ~u /\ ~k
          /\ e => ~u /\ ~k
          /\ u => ~k
      BY <3>1 DEF Contar
    <3>3. x < id_nuevo_proceso /\ ~(x >= id_nuevo_proceso)
      BY <1>2, <2>1, <2>3
    <3> QED
      BY <1>6, <1>8, <3>2, <3>3, EstadoEs DEF c
  <2> QED
    BY <2>2, <2>3
<1> QED
  BY <1>7, <1>8

\* The same in the next state, and for every process at once.
LEMMA EstadoTodos ==
  \A x : EstadoDe(x) =
           IF x >= id_nuevo_proceso THEN "NONE"
           ELSE IF Termino(x) THEN "EXIT"
           ELSE IF EnExec(x) THEN "EXEC"
           ELSE IF EsNuevo(x) THEN "NEW"
           ELSE IF En(estado_susp_ready, x) THEN "SUSP_READY"
           ELSE IF EsSuspendido(x) THEN "SUSP_BLOCKED"
           ELSE IF EsBloqueado(x) THEN "BLOCKED" ELSE "READY"
  BY EstadoEs

EstadosPorLugar ==
  \A x \in Nat :
    /\ Termino(x) => EstadoDe(x) = "EXIT"
    /\ EnExec(x) => EstadoDe(x) = "EXEC"
    /\ EsNuevo(x) => EstadoDe(x) = "NEW"
    /\ En(estado_susp_ready, x) => EstadoDe(x) = "SUSP_READY"
    /\ EsSuspendido(x) => EstadoDe(x) = "SUSP_BLOCKED"
    /\ EsBloqueado(x) => EstadoDe(x) = "BLOCKED"
    /\ EnReady(x) => EstadoDe(x) = "READY"

\* The lists a process is in decide its state, one by one.
LEMMA EstadosDeAhora == CicloInv => EstadosPorLugar
<1> SUFFICES ASSUME CicloInv, NEW x \in Nat
             PROVE  /\ Termino(x) => EstadoDe(x) = "EXIT"
                    /\ EnExec(x) => EstadoDe(x) = "EXEC"
                    /\ EsNuevo(x) => EstadoDe(x) = "NEW"
                    /\ En(estado_susp_ready, x) => EstadoDe(x) = "SUSP_READY"
                    /\ EsSuspendido(x) => EstadoDe(x) = "SUSP_BLOCKED"
                    /\ EsBloqueado(x) => EstadoDe(x) = "BLOCKED"
                    /\ EnReady(x) => EstadoDe(x) = "READY"
  BY DEF EstadosPorLugar
<1>1. TypeOK /\ Unicidad /\ ConsolasPorExit
  BY DEF CicloInv
<1> QED
  BY <1>1, EstadoPorLugar

\* The same after the step.
LEMMA EstadosDespues == CicloInv' => EstadosPorLugar'
  BY EstadosDeAhora, PTL

\* A step that leaves a process where it was leaves its state.
MismoLugar(x) ==
  /\ (x >= id_nuevo_proceso') <=> (x >= id_nuevo_proceso)
  /\ Termino(x)' <=> Termino(x)
  /\ EnExec(x)' <=> EnExec(x)
  /\ EsNuevo(x)' <=> EsNuevo(x)
  /\ En(estado_susp_ready', x) <=> En(estado_susp_ready, x)
  /\ EsSuspendido(x)' <=> EsSuspendido(x)
  /\ EsBloqueado(x)' <=> EsBloqueado(x)

\* The state after the step, written out.
LEMMA EstadoTodosDespues ==
  \A x : EstadoDe(x)' =
           IF x >= id_nuevo_proceso' THEN "NONE"
           ELSE IF Termino(x)' THEN "EXIT"
           ELSE IF EnExec(x)' THEN "EXEC"
           ELSE IF EsNuevo(x)' THEN "NEW"
           ELSE IF En(estado_susp_ready', x) THEN "SUSP_READY"
           ELSE IF EsSuspendido(x)' THEN "SUSP_BLOCKED"
           ELSE IF EsBloqueado(x)' THEN "BLOCKED" ELSE "READY"
<1> DEFINE F(x) == EstadoDe(x) =
           IF x >= id_nuevo_proceso THEN "NONE"
           ELSE IF Termino(x) THEN "EXIT"
           ELSE IF EnExec(x) THEN "EXEC"
           ELSE IF EsNuevo(x) THEN "NEW"
           ELSE IF En(estado_susp_ready, x) THEN "SUSP_READY"
           ELSE IF EsSuspendido(x) THEN "SUSP_BLOCKED"
           ELSE IF EsBloqueado(x) THEN "BLOCKED" ELSE "READY"
<1>1. \A x : F(x)
  BY EstadoTodos
<1> HIDE DEF F
<1>2. (\A x : F(x))'
  BY <1>1, PTL
<1>3. \A x : F(x)'
  BY <1>2
<1> QED
  BY <1>3 DEF F, En

\* A process that keeps its lists keeps its state.
LEMMA MismoEstado ==
  ASSUME NEW x, MismoLugar(x)
  PROVE  EstadoDe(x)' = EstadoDe(x)
  BY EstadoTodos, EstadoTodosDespues DEF MismoLugar

Procesos == 0 .. MaxProcesos - 1

\* A step that moves one process, and leaves the others where they were, is
\* a transition of the life cycle.
LEMMA PasaDe ==
  ASSUME NEW p \in Procesos, NEW desde, NEW hasta,
         EstadoDe(p) = desde, EstadoDe(p)' = hasta,
         \A y \in Procesos : y # p => MismoLugar(y)
  PROVE  Ciclo!Pasa(p, desde, hasta)
<1>1. \A y \in Procesos : y # p => EstadoDe(y)' = EstadoDe(y)
  BY MismoEstado
<1> QED
  BY <1>1 DEF Ciclo!Pasa, Procesos

PasoCiclo == [Ciclo!Next]_[p \in 0 .. MaxProcesos - 1 |-> EstadoDe(p)]

\* A step that moves no process is a stutter of the life cycle.
LEMMA QuedanIgual ==
  ASSUME \A y \in Procesos : MismoLugar(y)
  PROVE  PasoCiclo
<1>1. \A y \in Procesos : EstadoDe(y)' = EstadoDe(y)
  BY MismoEstado
<1> QED
  BY <1>1 DEF PasoCiclo, Procesos

\* The ids of the processes are those of the abstract specification.
LEMMA Acotado ==
  ASSUME CicloInv, NEW x \in Nat,
         \/ EnExec(x) \/ EsNuevo(x) \/ En(estado_ready, x) \/ En(estado_susp_ready, x)
         \/ EnIO(estado_blocked, x) \/ (TieneBlock /\ ultimoIO.pcb.id = x)
  PROVE  x \in Procesos /\ x < id_nuevo_proceso
<1>1. /\ Copias(x) = Contar(x \in consolas_conectadas)
      /\ pcExec = "quitar" /\ EsSRT => En(estado_ready, pcbExec.id)
      /\ x \in consolas_conectadas => x < id_nuevo_proceso
  BY DEF CicloInv, Unicidad
<1>2. EnExec(x) => \/ En(estado_ready, x) \/ (TieneExec /\ pcbExec.id = x)
                   \/ (pcExec = "esperar_cpu" /\ dispatch.pcb.id = x)
  BY <1>1 DEF EnExec, TieneExec
<1>3. Copias(x) # 0
  <2>1. \/ En(estado_new, x) \/ En(estado_ready, x) \/ En(estado_susp_ready, x)
        \/ EnIO(estado_blocked, x) \/ (pcMain = "ingresar" /\ pcbMain.id = x)
        \/ (TieneExec /\ pcbExec.id = x) \/ (pcExec = "esperar_cpu" /\ dispatch.pcb.id = x)
        \/ (TieneBlock /\ ultimoIO.pcb.id = x)
    BY <1>2 DEF EsNuevo
  <2> QED
    BY <2>1 DEF Copias, Contar
<1>4. x < id_nuevo_proceso
  BY <1>1, <1>3 DEF Contar
<1> QED
  BY <1>4, ConstantesKernel DEF CicloInv, IdsAcotados, TypeOK, Procesos

-----------------------------------------------------------------------------
(* The steps of the kernel that move no process *)

Inmoviles ==
  \/ ingresarANew \/ ingresarANew_Post
  \/ Aready_EsperarProceso \/ Aready_EsperarGrado \/ obtenerSiguienteAready_Elegir
  \/ comunicacionMemoriaCreacionEstructuras
  \/ Aready_AgregarReady \/ Aready_Interrumpir \/ Aready_PostReady
  \/ readyAexec_EsperarReady \/ readyAexec_Quitar \/ ejecutarPCB
  \/ ejecutarPCB_PostBlock \/ ejecutarPCB_PostReady
  \/ execAexit_Notificar \/ execAexit_PostGrado
  \/ hilo_block_Esperar \/ hilo_block_Sacar \/ hilo_block_SinSuspender
  \/ hilo_block_SuspenderDespues \/ hilo_block_SuspenderYa \/ hacerIO
  \/ hacerIO_HastaMaximo \/ hilo_block_PostGrado \/ hilo_block_PostEsperando
  \/ hilo_block_Interrumpir \/ hilo_block_PostReady
  \/ CpuResponde \/ CpuLeeInterrupcion \/ UNCHANGED vars

\* The steps of the threads that move no process.
LEMMA PasoInmovil == CicloInv /\ Inmoviles => PasoCiclo
<1> SUFFICES ASSUME CicloInv, Inmoviles, NEW x \in Procesos PROVE MismoLugar(x)
  BY QuedanIgual
<1>0. TypeOK /\ Unicidad /\ Colas
  BY DEF CicloInv, Unicidad
<1> USE DEF MismoLugar, Termino, EnExec, EsNuevo, EsSuspendido, EsBloqueado, EnDispositivo
<1>1. CASE ingresarANew
  <2>1. /\ estado_new' = Append(estado_new, pcbMain) /\ pcMain = "ingresar"
        /\ pcMain' = "post_esperando"
    BY <1>1 DEF ingresarANew
  <2>2. En(estado_new', x) <=> En(estado_new, x) \/ x = pcbMain.id
    BY <1>0, <2>1, AppendIds DEF TypeOK
  <2> QED
    BY <1>1, <2>1, <2>2 DEF ingresarANew
<1>2. CASE \/ ingresarANew_Post
           \/ Aready_EsperarProceso \/ Aready_EsperarGrado \/ obtenerSiguienteAready_Elegir
           \/ comunicacionMemoriaCreacionEstructuras
           \/ Aready_AgregarReady \/ Aready_Interrumpir \/ Aready_PostReady
           \/ CpuLeeInterrupcion
  BY <1>2 DEF ingresarANew_Post, Aready_EsperarProceso, Aready_EsperarGrado,
     obtenerSiguienteAready_Elegir, comunicacionMemoriaCreacionEstructuras,
     Aready_AgregarReady, Aready_Interrumpir, Aready_PostReady, CpuLeeInterrupcion
<1>3. CASE \/ readyAexec_EsperarReady \/ readyAexec_Quitar \/ ejecutarPCB
           \/ ejecutarPCB_PostBlock \/ ejecutarPCB_PostReady \/ execAexit_PostGrado
  BY <1>3 DEF readyAexec_EsperarReady, readyAexec_Quitar, ejecutarPCB,
     ejecutarPCB_PostBlock, ejecutarPCB_PostReady, execAexit_PostGrado
<1>4. CASE execAexit_Notificar
  BY <1>4 DEF execAexit_Notificar
<1>5. CASE hilo_block_Sacar
  <2>1. /\ estado_blocked' = Tail(estado_blocked) /\ estado_blocked # <<>>
        /\ ultimoIO' = Head(estado_blocked)
        /\ pcBlock = "sacar_blocked" /\ pcBlock' = "decidir"
    BY <1>5 DEF hilo_block_Sacar
  <2>2. /\ EnIO(estado_blocked, ultimoIO'.pcb.id)
        /\ EnIO(estado_blocked', x) <=> EnIO(estado_blocked, x) /\ x # ultimoIO'.pcb.id
    BY <1>0, <2>1, TailIdsIO DEF TypeOK, Colas
  <2>3. EsBloqueado(x)' <=> EsBloqueado(x)
    BY <2>1, <2>2
  <2> QED
    BY <1>5, <2>1, <2>3 DEF hilo_block_Sacar
<1>6. CASE hacerIO
  <2>1. estado_blocked' = sumarEspera(estado_blocked, tick)
    BY <1>6 DEF hacerIO
  <2>2. EnIO(estado_blocked', x) <=> EnIO(estado_blocked, x)
    BY <1>0, <2>1, sumarEsperaIds DEF TypeOK
  <2> QED
    BY <1>6, <2>2 DEF hacerIO
<1>7. CASE \/ hilo_block_Esperar \/ hilo_block_SinSuspender
           \/ hilo_block_SuspenderDespues \/ hilo_block_SuspenderYa
           \/ hacerIO_HastaMaximo \/ hilo_block_PostGrado \/ hilo_block_PostEsperando
           \/ hilo_block_Interrumpir \/ hilo_block_PostReady
  BY <1>7 DEF hilo_block_Esperar, hilo_block_SinSuspender, hilo_block_SuspenderDespues,
     hilo_block_SuspenderYa, hacerIO_HastaMaximo, hilo_block_PostGrado,
     hilo_block_PostEsperando, hilo_block_Interrumpir, hilo_block_PostReady
<1>8. CASE CpuResponde
  <2>1. PICK fin \in Paradas(dispatch.pcb) : dispatch' = Respuesta(dispatch.pcb, fin)
    BY <1>8 DEF CpuResponde
  <2>2. dispatch.pcb \in PCB
    BY <1>0, <1>8, DespachoDeReq DEF CpuResponde
  <2>3. dispatch'.pcb.id = dispatch.pcb.id
    BY <2>1, <2>2, RespuestaProperties
  <2> QED
    BY <1>8, <2>3 DEF CpuResponde
<1>9. CASE UNCHANGED vars
  BY <1>9 DEF vars
<1> QED
  BY <1>1, <1>2, <1>3, <1>4, <1>5, <1>6, <1>7, <1>8, <1>9 DEF Inmoviles

-----------------------------------------------------------------------------
(* The steps that move one *)

\* A new process: NONE to NEW.
LEMMA PasoLlegar == CicloInv /\ CicloInv' /\ manejarProceso => PasoCiclo
<1> SUFFICES ASSUME CicloInv, CicloInv', manejarProceso PROVE PasoCiclo
  OBVIOUS
<1>p. PICK p : p = id_nuevo_proceso
  OBVIOUS
<1> USE <1>p
<1>1. p \in Procesos /\ p \in Nat
  BY ConstantesKernel DEF manejarProceso, CicloInv, TypeOK, Procesos
<1>2. EstadoDe(p) = "NONE"
  BY <1>1, EstadoTodos
<1>3. pcMain = "esperar_consola" /\ pcMain' = "ingresar" /\ pcbMain'.id = p
  BY DEF manejarProceso, iniciarPcb
<1>4. EstadoDe(p)' = "NEW"
  <2>1. EsNuevo(p)'
    BY <1>3 DEF EsNuevo
  <2> QED
    BY <1>1, <2>1, EstadosDespues DEF EstadosPorLugar
<1>5. ASSUME NEW y \in Procesos, y # p PROVE MismoLugar(y)
  <2>1. (y >= id_nuevo_proceso') <=> (y >= id_nuevo_proceso)
    BY <1>1, <1>5, ConstantesKernel DEF manejarProceso, Procesos
  <2> QED
    BY <1>3, <1>5, <2>1 DEF manejarProceso, MismoLugar, Termino, EnExec, EsNuevo,
       EsSuspendido, EsBloqueado, EnDispositivo
<1>6. Ciclo!Llegar(p)
  BY <1>1, <1>2, <1>4, <1>5, PasaDe DEF Ciclo!Llegar
<1> QED
  BY <1>1, <1>6 DEF PasoCiclo, Ciclo!Next, Procesos

\* A dispatch: READY to EXEC, whichever algorithm chose.
LEMMA PasoDespachar ==
  CicloInv /\ CicloInv' /\ (planificacionFIFO \/ planificacionSRT) => PasoCiclo
<1> SUFFICES ASSUME CicloInv, CicloInv', planificacionFIFO \/ planificacionSRT
             PROVE  PasoCiclo
  OBVIOUS
<1>0. TypeOK /\ Unicidad /\ Colas
  BY DEF CicloInv, Unicidad
<1>p. PICK p : p = pcbExec'.id
  OBVIOUS
<1> USE <1>p
<1>1. pcExec = "planificar" /\ pcExec' = "quitar"
  BY DEF planificacionFIFO, planificacionSRT
<1>2. En(estado_ready, p) /\ p \in Nat
  <2>1. CASE planificacionFIFO
    <3>1. Head(estado_ready) \in PCB /\ En(estado_ready, Head(estado_ready).id)
      BY <1>0, <2>1, TailIds DEF planificacionFIFO, TypeOK, Colas
    <3> QED
      BY <2>1, <3>1 DEF planificacionFIFO, PCB
  <2>2. CASE planificacionSRT
    <3>1. IndiceSRT(estado_ready, id_pcb_ejecutando) \in DOMAIN estado_ready
      BY <1>0, <2>2, IndiceSRTProperties DEF planificacionSRT, TypeOK
    <3>2. pcbExec' \in PCB
      BY <1>0, <2>2, <3>1, EnRango DEF planificacionSRT, TypeOK
    <3> QED
      BY <2>2, <3>1, <3>2 DEF planificacionSRT, En, PCB
  <2> QED
    BY <2>1, <2>2
<1>3. p \in Procesos
  BY <1>2, Acotado
<1>4. \A q : ~EnExec(q)
  BY <1>1 DEF EnExec
<1>5. EstadoDe(p) = "READY"
  BY <1>2, <1>4, EstadosDeAhora DEF EnReady, EstadosPorLugar
<1>6. EstadoDe(p)' = "EXEC"
  <2>1. EnExec(p)'
    BY <1>1 DEF EnExec
  <2> QED
    BY <1>2, <2>1, EstadosDespues DEF EstadosPorLugar
<1>7. ASSUME NEW y \in Procesos, y # p PROVE MismoLugar(y)
  BY <1>1, <1>7 DEF planificacionFIFO, planificacionSRT, MismoLugar, Termino, EnExec,
     EsNuevo, EsSuspendido, EsBloqueado, EnDispositivo
<1>8. \A q \in Procesos : EstadoDe(q) # "EXEC"
  BY <1>4, EstadoTodos
<1>9. Ciclo!Despachar(p)
  BY <1>3, <1>5, <1>6, <1>7, <1>8, PasaDe DEF Ciclo!Despachar, Procesos
<1> QED
  BY <1>3, <1>9 DEF PasoCiclo, Ciclo!Next, Procesos

\* The answer of the CPU takes the process of the message out of EXEC.
LEMMA PasoDeExec ==
  CicloInv /\ CicloInv' /\ (ejecutarPCB_IO \/ ejecutarPCB_Interrupcion \/ execAexit_Finalizar)
    => PasoCiclo
<1> SUFFICES ASSUME CicloInv, CicloInv',
                    ejecutarPCB_IO \/ ejecutarPCB_Interrupcion \/ execAexit_Finalizar
             PROVE  PasoCiclo
  OBVIOUS
<1>0. TypeOK /\ Unicidad /\ Colas
  BY DEF CicloInv, Unicidad
<1>p. PICK p : p = dispatch.pcb.id
  OBVIOUS
<1> USE <1>p
<1>1. /\ pcExec = "esperar_cpu" /\ dispatch.op # "CERRADO"
      /\ pcExec' \in {"post_block", "post_ready", "notificar"}
  BY DEF ejecutarPCB_IO, ejecutarPCB_Interrupcion, execAexit_Finalizar
<1>2. dispatch.pcb \in PCB /\ p \in Nat
  BY <1>0, <1>1, DespachoDeReq
<1>3. EnExec(p)
  BY <1>1 DEF EnExec
<1>4. p \in Procesos /\ EstadoDe(p) = "EXEC"
  BY <1>2, <1>3, Acotado, EstadosDeAhora DEF EstadosPorLugar
<1>5. CASE ejecutarPCB_IO
  <2> DEFINE actual == [dispatch.pcb EXCEPT
                       !.estimacionRafaga = EstimacionPromedio(dispatch.pcb)]
             io == [pcb |-> actual, tiempoBloqueo |-> dispatch.tiempoBloqueo,
                    tiempoEspera |-> 0]
  <2>1. dispatch \in Mensaje
    BY <1>0, <1>1 DEF TypeOK, SinMensaje
  <2>2. io \in IO
    BY <1>0, <2>1, ElementosAgregados
  <2>3. io.pcb.id = p /\ estado_blocked' = Append(estado_blocked, io)
    BY <1>2, <1>5 DEF ejecutarPCB_IO, PCB
  <2> HIDE DEF io
  <2>4. \A x : EnIO(estado_blocked', x) <=> EnIO(estado_blocked, x) \/ x = p
    BY <1>0, <2>2, <2>3, AppendIdsIO DEF TypeOK
  <2>5. EstadoDe(p)' = "BLOCKED"
    <3>1. EsBloqueado(p)'
      BY <2>4 DEF EsBloqueado
    <3> QED
      BY <1>2, <3>1, EstadosDespues DEF EstadosPorLugar
  <2>6. ASSUME NEW y \in Procesos, y # p PROVE MismoLugar(y)
    BY <1>1, <1>5, <2>4, <2>6 DEF ejecutarPCB_IO, MismoLugar, Termino, EnExec,
       EsNuevo, EsSuspendido, EsBloqueado, EnDispositivo
  <2>7. Ciclo!Bloquear(p)
    BY <1>4, <2>5, <2>6, PasaDe DEF Ciclo!Bloquear
  <2> QED
    BY <1>4, <2>7 DEF PasoCiclo, Ciclo!Next, Procesos
<1>6. CASE ejecutarPCB_Interrupcion
  <2> DEFINE desalojado == [dispatch.pcb EXCEPT
                       !.estimacionRafaga = EstimacionRestante(dispatch.pcb)]
  <2>1. dispatch \in Mensaje
    BY <1>0, <1>1 DEF TypeOK, SinMensaje
  <2>2. desalojado \in PCB
    BY <1>0, <2>1, ElementosAgregados
  <2>3. desalojado.id = p /\ estado_ready' = Append(estado_ready, desalojado)
    BY <1>2, <1>6 DEF ejecutarPCB_Interrupcion, PCB
  <2> HIDE DEF desalojado
  <2>4. \A x : En(estado_ready', x) <=> En(estado_ready, x) \/ x = p
    BY <1>0, <2>2, <2>3, AppendIds DEF TypeOK
  <2>5. EstadoDe(p)' = "READY"
    <3>1. EnReady(p)'
      BY <1>6, <2>4 DEF EnReady, EnExec, ejecutarPCB_Interrupcion
    <3> QED
      BY <1>2, <3>1, EstadosDespues DEF EstadosPorLugar
  <2>6. ASSUME NEW y \in Procesos, y # p PROVE MismoLugar(y)
    BY <1>1, <1>6, <2>6 DEF ejecutarPCB_Interrupcion, MismoLugar, Termino, EnExec,
       EsNuevo, EsSuspendido, EsBloqueado, EnDispositivo
  <2>7. Ciclo!Desalojar(p)
    BY <1>4, <2>5, <2>6, PasaDe DEF Ciclo!Desalojar
  <2> QED
    BY <1>4, <2>7 DEF PasoCiclo, Ciclo!Next, Procesos
<1>7. CASE execAexit_Finalizar
  <2>1. EstadoDe(p)' = "EXIT"
    <3>1. Termino(p)'
      BY <1>7 DEF Termino, execAexit_Finalizar
    <3> QED
      BY <1>2, <3>1, EstadosDespues DEF EstadosPorLugar
  <2>2. ASSUME NEW y \in Procesos, y # p PROVE MismoLugar(y)
    BY <1>1, <1>7, <2>2 DEF execAexit_Finalizar, MismoLugar, Termino, EnExec,
       EsNuevo, EsSuspendido, EsBloqueado, EnDispositivo
  <2>3. Ciclo!Terminar(p)
    BY <1>4, <2>1, <2>2, PasaDe DEF Ciclo!Terminar
  <2> QED
    BY <1>4, <2>3 DEF PasoCiclo, Ciclo!Next, Procesos
<1> QED
  BY <1>5, <1>6, <1>7

\* The device lets its process go, or it is suspended.
LEMMA PasoDeBlocked ==
  CicloInv /\ CicloInv'
    /\ (comunicacionMemoriaSuspender \/ addEstadoSuspReady \/ hilo_block_AgregarReady)
  => PasoCiclo
<1> SUFFICES ASSUME CicloInv, CicloInv',
                    \/ comunicacionMemoriaSuspender \/ addEstadoSuspReady
                    \/ hilo_block_AgregarReady
             PROVE  PasoCiclo
  OBVIOUS
<1>0. TypeOK /\ Unicidad /\ Colas
  BY DEF CicloInv, Unicidad
<1>p. PICK p : p = ultimoIO.pcb.id
  OBVIOUS
<1> USE <1>p
<1>1. pcBlock \in {"suspender", "io_suspendido", "io_en_memoria"}
  BY DEF comunicacionMemoriaSuspender, addEstadoSuspReady, hilo_block_AgregarReady
<1>2. ultimoIO.pcb \in PCB /\ p \in Nat
  BY <1>0, <1>1 DEF TypeOK, IO, PCB
<1>3. TieneBlock
  BY <1>1 DEF TieneBlock
<1>4. p \in Procesos
  BY <1>2, <1>3, Acotado
<1>5. CASE comunicacionMemoriaSuspender
  <2>1. EsBloqueado(p) /\ EsSuspendido(p)'
    BY <1>5 DEF EsBloqueado, EsSuspendido, EnDispositivo, comunicacionMemoriaSuspender
  <2>2. EstadoDe(p) = "BLOCKED" /\ EstadoDe(p)' = "SUSP_BLOCKED"
    BY <1>2, <2>1, EstadosDeAhora, EstadosDespues DEF EstadosPorLugar
  <2>3. ASSUME NEW y \in Procesos, y # p PROVE MismoLugar(y)
    BY <1>5, <2>3 DEF comunicacionMemoriaSuspender, MismoLugar, Termino, EnExec,
       EsNuevo, EsSuspendido, EsBloqueado, EnDispositivo
  <2>4. Ciclo!Suspender(p)
    BY <1>4, <2>2, <2>3, PasaDe DEF Ciclo!Suspender
  <2> QED
    BY <1>4, <2>4 DEF PasoCiclo, Ciclo!Next, Procesos
<1>6. CASE addEstadoSuspReady
  <2>1. \A x : En(estado_susp_ready', x) <=> En(estado_susp_ready, x) \/ x = p
    BY <1>0, <1>2, <1>6, AppendIds DEF TypeOK, addEstadoSuspReady
  <2>2. EsSuspendido(p) /\ En(estado_susp_ready', p)
    BY <1>6, <2>1 DEF EsSuspendido, EnDispositivo, addEstadoSuspReady
  <2>3. EstadoDe(p) = "SUSP_BLOCKED" /\ EstadoDe(p)' = "SUSP_READY"
    <3>1. En(estado_susp_ready, p)'
      BY <2>2 DEF En
    <3> QED
      BY <1>2, <2>2, <3>1, EstadosDeAhora, EstadosDespues DEF EstadosPorLugar
  <2>4. ASSUME NEW y \in Procesos, y # p PROVE MismoLugar(y)
    BY <1>6, <2>1, <2>4 DEF addEstadoSuspReady, MismoLugar, Termino, EnExec,
       EsNuevo, EsSuspendido, EsBloqueado, EnDispositivo
  <2>5. Ciclo!TerminarIOSuspendido(p)
    BY <1>4, <2>3, <2>4, PasaDe DEF Ciclo!TerminarIOSuspendido
  <2> QED
    BY <1>4, <2>5 DEF PasoCiclo, Ciclo!Next, Procesos
<1>7. CASE hilo_block_AgregarReady
  <2>1. \A x : En(estado_ready', x) <=> En(estado_ready, x) \/ x = p
    BY <1>0, <1>2, <1>7, AppendIds DEF TypeOK, hilo_block_AgregarReady
  <2>2. EsBloqueado(p)
    BY <1>7 DEF EsBloqueado, EnDispositivo, hilo_block_AgregarReady
  <2>3. EstadoDe(p) = "BLOCKED"
    BY <1>2, <2>2, EstadosDeAhora DEF EstadosPorLugar
  <2>4. ~EnExec(p)
    BY <1>2, <2>3, EstadosDeAhora DEF EstadosPorLugar
  <2>5. EnReady(p)'
    BY <1>7, <2>1, <2>4 DEF EnReady, EnExec, hilo_block_AgregarReady
  <2>6. EstadoDe(p)' = "READY"
    BY <1>2, <2>5, EstadosDespues DEF EstadosPorLugar
  <2>7. ASSUME NEW y \in Procesos, y # p PROVE MismoLugar(y)
    BY <1>7, <2>7 DEF hilo_block_AgregarReady, MismoLugar, Termino, EnExec,
       EsNuevo, EsSuspendido, EsBloqueado, EnDispositivo
  <2>8. Ciclo!TerminarIO(p)
    BY <1>4, <2>3, <2>6, <2>7, PasaDe DEF Ciclo!TerminarIO
  <2> QED
    BY <1>4, <2>8 DEF PasoCiclo, Ciclo!Next, Procesos
<1> QED
  BY <1>5, <1>6, <1>7

-----------------------------------------------------------------------------
(* Admission: what counts for the degree *)

\* A process in state READY is in the ready list and not yet taken out of it,
\* or is on its way into it.
LEMMA ReadyEnLugar ==
  ASSUME CicloInv, NEW x \in Nat, EstadoDe(x) = "READY"
  PROVE  EnReady(x)
<1>1. /\ x < id_nuevo_proceso /\ ~Termino(x) /\ ~EnExec(x) /\ ~EsNuevo(x)
      /\ ~En(estado_susp_ready, x) /\ ~EsSuspendido(x) /\ ~EsBloqueado(x)
  <2>1. id_nuevo_proceso \in Nat
    BY DEF CicloInv, TypeOK
  <2> QED
    BY <2>1, EstadoTodos
<1>2. x \in consolas_conectadas
  <2>1. x \in 0 .. id_nuevo_proceso - 1
    BY <1>1 DEF CicloInv, TypeOK
  <2> QED
    BY <1>1, <2>1 DEF CicloInv, ConsolasPorExit, Termino
<1>3. Copias(x) = 1
  BY <1>2 DEF CicloInv, Unicidad, Contar
<1>4. /\ ~En(estado_new, x) /\ ~(pcMain = "ingresar" /\ pcbMain.id = x)
      /\ ~EnIO(estado_blocked, x)
  BY <1>1 DEF EsNuevo, EsBloqueado
<1>5. /\ ~(TieneExec /\ pcbExec.id = x)
      /\ ~(pcExec = "esperar_cpu" /\ dispatch.pcb.id = x)
  BY <1>1 DEF TieneExec, EnExec, Termino
<1>6. ~(TieneBlock /\ ultimoIO.pcb.id = x)
  BY <1>1 DEF TieneBlock, EsSuspendido, EsBloqueado, EnDispositivo
<1>7. En(estado_ready, x) \/ (TieneAready /\ pcbAready.id = x)
  BY <1>1, <1>3, <1>4, <1>5, <1>6 DEF Copias, Contar
<1> QED
  BY <1>1, <1>7 DEF EnReady

\* The size of a union is at most the sum of the sizes.
LEMMA CardinalUnion ==
  ASSUME NEW S, NEW T, NEW a \in Nat, NEW b \in Nat,
         IsFiniteSet(S), Cardinality(S) <= a, IsFiniteSet(T), Cardinality(T) <= b
  PROVE  IsFiniteSet(S \cup T) /\ Cardinality(S \cup T) <= a + b
<1>1. /\ IsFiniteSet(S \cup T)
      /\ Cardinality(S \cup T) = Cardinality(S) + Cardinality(T) - Cardinality(S \cap T)
  BY FS_Union
<1>2. IsFiniteSet(S \cap T)
  BY FS_Intersection
<1>3. Cardinality(S) \in Nat /\ Cardinality(T) \in Nat /\ Cardinality(S \cap T) \in Nat
  BY <1>2, FS_CardinalityType
<1> QED
  BY <1>1, <1>3

\* The processes in memory are at most the places taken.
LEMMA ResidentesEnMemoria ==
  ASSUME CicloInv, pcAready \in {"sacar_susp", "sacar_new"}
  PROVE  Cardinality(Ciclo!Residentes) < GRADO_MULTIPROGRAMACION
<1>0. TypeOK /\ Unicidad /\ Colas
  BY DEF CicloInv, Unicidad
<1> DEFINE ocupado == TieneExec \/ pcExec \in {"esperar_cpu", "post_grado"}
           enDispositivo == TieneBlock /\ pcBlock # "io_suspendido"
           R == {x \in Nat : En(estado_ready, x)}
           B == {x \in Nat : EnIO(estado_blocked, x)}
           X == {x \in Nat : TieneExec /\ pcbExec.id = x}
           C == {x \in Nat : pcExec = "esperar_cpu" /\ dispatch.pcb.id = x}
           D == {x \in Nat : enDispositivo /\ ultimoIO.pcb.id = x}
<1>1. Ciclo!Residentes \subseteq R \cup B \cup X \cup C \cup D
  <2> SUFFICES ASSUME NEW x \in Procesos, EstadoDe(x) \in {"READY", "EXEC", "BLOCKED"}
               PROVE  x \in R \cup B \cup X \cup C \cup D
    BY DEF Ciclo!Residentes, Procesos
  <2>0. x \in Nat
    BY DEF Procesos
  <2>1. CASE EstadoDe(x) = "READY"
    <3>1. EnReady(x)
      BY <2>0, <2>1, ReadyEnLugar
    <3>2. ~TieneAready
      BY DEF TieneAready
    <3> QED
      BY <2>0, <3>1, <3>2 DEF EnReady
  <2>2. CASE EstadoDe(x) = "EXEC"
    <3>1. EnExec(x)
      BY <2>2, EstadoTodos
    <3>2. pcExec = "quitar" /\ EsSRT => En(estado_ready, pcbExec.id)
      BY <1>0 DEF Unicidad
    <3> QED
      BY <2>0, <3>1, <3>2 DEF EnExec, TieneExec
  <2>3. CASE EstadoDe(x) = "BLOCKED"
    <3>1. EsBloqueado(x)
      BY <2>3, EstadoTodos
    <3>2. EnIO(estado_blocked, x) \/ (enDispositivo /\ ultimoIO.pcb.id = x)
      BY <3>1 DEF EsBloqueado, EnDispositivo, TieneBlock
    <3> QED
      BY <2>0, <3>2
  <2> QED
    BY <2>1, <2>2, <2>3
<1>2. IsFiniteSet(R) /\ Cardinality(R) = Len(estado_ready) /\ Len(estado_ready) \in Nat
  <2>1. Lista(Ids(estado_ready), R) /\ Len(estado_ready) \in Nat
    BY <1>0, ListaIds DEF TypeOK, Colas
  <2>2. Len(Ids(estado_ready)) = Len(estado_ready)
    BY <1>0 DEF TypeOK, Ids
  <2> QED
    BY <2>1, <2>2, ListaCardinal
<1>3. IsFiniteSet(B) /\ Cardinality(B) = Len(estado_blocked) /\ Len(estado_blocked) \in Nat
  <2>1. Lista(IdsBloqueados, B) /\ Len(estado_blocked) \in Nat
    BY <1>0, ListaBloqueados DEF TypeOK, Colas
  <2>2. Len(IdsBloqueados) = Len(estado_blocked)
    BY <1>0 DEF TypeOK, IdsBloqueados
  <2> QED
    BY <2>1, <2>2, ListaCardinal
<1>4. IsFiniteSet(X) /\ Cardinality(X) <= Contar(TieneExec)
  <2>1. TieneExec \in BOOLEAN /\ (TieneExec => pcbExec.id \in Nat)
    BY <1>0 DEF TypeOK, PCB, TieneExec
  <2>2. Lista(IdSi(TieneExec, pcbExec), X)
    BY <2>1, ListaIdSi
  <2>3. Len(IdSi(TieneExec, pcbExec)) = Contar(TieneExec)
    BY DEF IdSi, Contar
  <2>4. \A b : Contar(b) \in Nat
    BY DEF Contar
  <2> QED
    BY <2>2, <2>3, <2>4, ListaCardinal
<1>5. IsFiniteSet(C) /\ Cardinality(C) <= Contar(pcExec = "esperar_cpu")
  <2>1. dispatch.pcb.id \in Nat
    BY <1>0 DEF TypeOK, Mensaje, SinMensaje, SinPcb, PCB
  <2>2. Lista(IdSi(pcExec = "esperar_cpu", dispatch.pcb), C)
    BY <2>1, ListaIdSi
  <2>3. Len(IdSi(pcExec = "esperar_cpu", dispatch.pcb)) = Contar(pcExec = "esperar_cpu")
    BY DEF IdSi, Contar
  <2>4. \A b : Contar(b) \in Nat
    BY DEF Contar
  <2> QED
    BY <2>2, <2>3, <2>4, ListaCardinal
<1>6. IsFiniteSet(D) /\ Cardinality(D) <= Contar(enDispositivo)
  <2>1. enDispositivo \in BOOLEAN /\ (enDispositivo => ultimoIO.pcb.id \in Nat)
    BY <1>0 DEF TypeOK, PCB, IO, TieneBlock
  <2> HIDE DEF enDispositivo
  <2>2. Lista(IdSi(enDispositivo, ultimoIO.pcb), D)
    BY <2>1, ListaIdSi
  <2>3. Len(IdSi(enDispositivo, ultimoIO.pcb)) = Contar(enDispositivo)
    BY DEF IdSi, Contar
  <2>4. \A b : Contar(b) \in Nat
    BY DEF Contar
  <2> QED
    BY <2>2, <2>3, <2>4, ListaCardinal
<1>7. /\ sem_multiprogramacion \in Nat /\ GRADO_MULTIPROGRAMACION \in Nat
      /\ sem_multiprogramacion + (Len(estado_ready) + Len(estado_blocked)
            + Contar(TieneAready) + Contar(ocupado) + Contar(enDispositivo)) + 1
           = GRADO_MULTIPROGRAMACION
  <2>1. Contar(pcAready \in {"elegir", "sacar_susp", "sacar_new"}) = 1
    BY DEF Contar
  <2> QED
    BY <1>0, <2>1, ConstantesKernel DEF CicloInv, Cuentas, GradoRespetado, EnMemoria, TypeOK
<1>8. /\ Contar(TieneExec) + Contar(pcExec = "esperar_cpu") <= Contar(ocupado)
      /\ Contar(TieneExec) \in Nat /\ Contar(pcExec = "esperar_cpu") \in Nat
      /\ Contar(ocupado) \in Nat /\ Contar(enDispositivo) \in Nat
      /\ Contar(TieneAready) \in Nat
  BY DEF Contar, TieneExec
<1> HIDE DEF R, B, X, C, D, ocupado, enDispositivo
<1> DEFINE S2 == R \cup B
           S3 == S2 \cup X
           S4 == S3 \cup C
           S5 == S4 \cup D
           n2 == Len(estado_ready) + Len(estado_blocked)
           n3 == n2 + Contar(TieneExec)
           n4 == n3 + Contar(pcExec = "esperar_cpu")
           n5 == n4 + Contar(enDispositivo)
<1>9. IsFiniteSet(S5) /\ Cardinality(S5) <= n5 /\ n5 \in Nat
  <2>1. n2 \in Nat /\ n3 \in Nat /\ n4 \in Nat /\ n5 \in Nat
    BY SMTT(30), <1>2, <1>3, <1>8
  <2>2. Cardinality(R) <= Len(estado_ready) /\ Cardinality(B) <= Len(estado_blocked)
    BY <1>2, <1>3
  <2>3. IsFiniteSet(S2) /\ Cardinality(S2) <= n2
    BY <1>2, <1>3, <2>2, CardinalUnion
  <2> HIDE DEF S2, n2
  <2>4. IsFiniteSet(S3) /\ Cardinality(S3) <= n3
    BY <1>4, <1>8, <2>1, <2>3, CardinalUnion
  <2> HIDE DEF S3, n3
  <2>5. IsFiniteSet(S4) /\ Cardinality(S4) <= n4
    BY <1>5, <1>8, <2>1, <2>4, CardinalUnion
  <2> HIDE DEF S4, n4
  <2>6. IsFiniteSet(S5) /\ Cardinality(S5) <= n5
    BY <1>6, <1>8, <2>1, <2>5, CardinalUnion
  <2> QED
    BY <2>1, <2>6
<1>10. /\ Cardinality(Ciclo!Residentes) <= Cardinality(S5)
       /\ Cardinality(Ciclo!Residentes) \in Nat /\ Cardinality(S5) \in Nat
  <2>1. Ciclo!Residentes \subseteq S5
    BY <1>1
  <2> HIDE DEF S5, Ciclo!Residentes
  <2> QED
    BY <1>9, <2>1, FS_Subset, FS_CardinalityType
<1>11. n5 < GRADO_MULTIPROGRAMACION
  <2> DEFINE libres == sem_multiprogramacion
             ready == Len(estado_ready)
             blocked == Len(estado_blocked)
             aready == Contar(TieneAready)
             exec == Contar(TieneExec)
             enCpu == Contar(pcExec = "esperar_cpu")
             cOcupado == Contar(ocupado)
             cDispositivo == Contar(enDispositivo)
  <2>1. /\ n5 = ready + blocked + exec + enCpu + cDispositivo
        /\ libres \in Nat /\ ready \in Nat /\ blocked \in Nat /\ aready \in Nat
        /\ exec \in Nat /\ enCpu \in Nat /\ cOcupado \in Nat /\ cDispositivo \in Nat
        /\ exec + enCpu <= cOcupado
    BY <1>2, <1>3, <1>7, <1>8
  <2>2. libres + (ready + blocked + aready + cOcupado + cDispositivo) + 1
          = GRADO_MULTIPROGRAMACION
    BY <1>7
  <2> HIDE DEF n5, libres, ready, blocked, aready, exec, enCpu, cOcupado, cDispositivo
  <2> QED
    BY <2>1, <2>2
<1> HIDE DEF S5, n5, Ciclo!Residentes
<1> QED
  BY <1>9, <1>10, <1>11, ConstantesKernel

\* Cardinality is the same operator in the abstract specification.
LEMMA CardinalDelCiclo == \A S : Ciclo!Cardinality(S) = Cardinality(S)
  BY DEF Ciclo!Cardinality, Cardinality

\* An admission: SUSP_READY or NEW to READY, within the multiprogramming
\* degree.
LEMMA PasoAdmitir ==
  CicloInv /\ CicloInv' /\ (obtenerSiguienteAready_Susp \/ obtenerSiguienteAready_New)
    => PasoCiclo
<1> SUFFICES ASSUME CicloInv, CicloInv',
                    obtenerSiguienteAready_Susp \/ obtenerSiguienteAready_New
             PROVE  PasoCiclo
  OBVIOUS
<1>0. TypeOK /\ Unicidad /\ Colas
  BY DEF CicloInv, Unicidad
<1>p. PICK p : p = pcbAready'.id
  OBVIOUS
<1> USE <1>p
<1>1. Cardinality(Ciclo!Residentes) < GRADO_MULTIPROGRAMACION
  BY ResidentesEnMemoria DEF obtenerSiguienteAready_Susp, obtenerSiguienteAready_New
<1>2. EnReady(p)'
  BY DEF EnReady, TieneAready, obtenerSiguienteAready_Susp, obtenerSiguienteAready_New
<1>3. CASE obtenerSiguienteAready_Susp
  <2>1. /\ En(estado_susp_ready, p) /\ p \in Nat
        /\ \A x : En(estado_susp_ready', x) <=> En(estado_susp_ready, x) /\ x # p
    BY <1>0, <1>3, TailIds DEF TypeOK, Colas, obtenerSiguienteAready_Susp, PCB
  <2>2. p \in Procesos
    BY <2>1, Acotado
  <2>3. EstadoDe(p) = "SUSP_READY" /\ EstadoDe(p)' = "READY"
    BY <1>2, <2>1, EstadosDeAhora, EstadosDespues DEF EstadosPorLugar
  <2>4. ASSUME NEW y \in Procesos, y # p PROVE MismoLugar(y)
    BY <1>3, <2>1, <2>4 DEF obtenerSiguienteAready_Susp, MismoLugar, Termino, EnExec,
       EsNuevo, EsSuspendido, EsBloqueado, EnDispositivo
  <2>5. Ciclo!Pasa(p, "SUSP_READY", "READY")
    BY <2>2, <2>3, <2>4, PasaDe
  <2>6. Ciclo!Admitir(p)
    BY <1>1, <2>5, CardinalDelCiclo DEF Ciclo!Admitir
  <2> QED
    BY <2>2, <2>6 DEF PasoCiclo, Ciclo!Next, Procesos
<1>4. CASE obtenerSiguienteAready_New
  <2>1. /\ En(estado_new, p) /\ p \in Nat
        /\ \A x : En(estado_new', x) <=> En(estado_new, x) /\ x # p
    BY <1>0, <1>4, TailIds DEF TypeOK, Colas, obtenerSiguienteAready_New, PCB
  <2>2. EsNuevo(p)
    BY <2>1 DEF EsNuevo
  <2>3. p \in Procesos
    BY <2>1, <2>2, Acotado
  <2>4. EstadoDe(p) = "NEW" /\ EstadoDe(p)' = "READY"
    BY <1>2, <2>1, <2>2, EstadosDeAhora, EstadosDespues DEF EstadosPorLugar
  <2>5. ASSUME NEW y \in Procesos, y # p PROVE MismoLugar(y)
    BY <1>4, <2>1, <2>5 DEF obtenerSiguienteAready_New, MismoLugar, Termino, EnExec,
       EsNuevo, EsSuspendido, EsBloqueado, EnDispositivo
  <2>6. Ciclo!Pasa(p, "NEW", "READY")
    BY <2>3, <2>4, <2>5, PasaDe
  <2>7. Ciclo!Admitir(p)
    BY <1>1, <2>6, CardinalDelCiclo DEF Ciclo!Admitir
  <2> QED
    BY <2>3, <2>7 DEF PasoCiclo, Ciclo!Next, Procesos
<1> QED
  BY <1>3, <1>4

-----------------------------------------------------------------------------
(* The refinement *)

\* The invariant under which a step of the kernel is one of the life cycle.
LEMMA CicloInvariante == Spec => []CicloInv
<1>1. Init => IdsAcotados
  BY ConstantesKernel DEF Init, IdsAcotados
<1>2. IdsAcotados /\ [Next]_vars => IdsAcotados'
  <2> SUFFICES ASSUME IdsAcotados, [Next]_vars PROVE IdsAcotados'
    OBVIOUS
  <2>1. manejarProceso \/ id_nuevo_proceso' = id_nuevo_proceso
    BY DEF Next, Main, ingresarANew, ingresarANew_Post, Aready, Aready_EsperarProceso,
     Aready_EsperarGrado, obtenerSiguienteAready_Elegir, obtenerSiguienteAready_Susp,
     obtenerSiguienteAready_New, comunicacionMemoriaCreacionEstructuras,
     Aready_AgregarReady, Aready_Interrumpir, Aready_PostReady,
     readyAexec, readyAexec_EsperarReady, planificacionFIFO, planificacionSRT,
     readyAexec_Quitar, ejecutarPCB, ejecutarPCB_IO, ejecutarPCB_PostBlock,
     ejecutarPCB_Interrupcion, ejecutarPCB_PostReady, execAexit_Finalizar,
     execAexit_Notificar, execAexit_PostGrado,
     hilo_block, hilo_block_Esperar, hilo_block_Sacar, hilo_block_SinSuspender,
     hilo_block_SuspenderDespues, hilo_block_SuspenderYa, hacerIO, hacerIO_HastaMaximo,
     comunicacionMemoriaSuspender, hilo_block_PostGrado, addEstadoSuspReady,
     hilo_block_PostEsperando, hilo_block_AgregarReady, hilo_block_Interrumpir,
     hilo_block_PostReady, CpuResponde, CpuLeeInterrupcion, vars
  <2>2. ASSUME manejarProceso PROVE IdsAcotados'
    <3>1. id_nuevo_proceso < MaxProcesos /\ id_nuevo_proceso' = id_nuevo_proceso + 1
      BY <2>2 DEF manejarProceso
    <3> QED
      BY <3>1, ConstantesKernel DEF IdsAcotados
  <2> QED
    BY <2>1, <2>2 DEF IdsAcotados
<1>3. Spec => []IdsAcotados
  BY <1>1, <1>2, PTL DEF Spec
<1> QED
  BY <1>3, TipoCorrecto, Conservacion, SalidaUnica, CuentasInductivo, PTL DEF CicloInv

\* Whatever its threads interleave, the kernel takes every process through the
\* seven states of the life cycle and no other way, with one in EXEC and no
\* admission beyond the degree: for any number of processes and any degree.
THEOREM KernelImplementaCiclo == Spec => ImplementaCiclo
<1>1. Init => Ciclo!Init
  BY ConstantesKernel, EstadoTodos DEF Init, Ciclo!Init
<1>2. CicloInv /\ CicloInv' /\ [Next]_vars => PasoCiclo
  BY PasoInmovil, PasoLlegar, PasoDespachar, PasoDeExec, PasoDeBlocked, PasoAdmitir
     DEF Next, Main, Aready, readyAexec, hilo_block, Inmoviles
<1> QED
  BY <1>1, <1>2, CicloInvariante, PTL DEF Spec, ImplementaCiclo, Ciclo!Spec, PasoCiclo

\* So the kernel with the CPU of cicloInstruccion.c does too.
COROLLARY SistemaImplementaCiclo == SpecSistema => ImplementaCiclo
  BY CpuCorrecta, KernelImplementaCiclo, PTL DEF ImplementaKernel
=============================================================================
