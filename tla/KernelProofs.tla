---------------------------- MODULE KernelProofs ----------------------------
(* What the data operators of Kernel return, and for every value of the     *)
(* constants: its type invariant; that no process is lost or duplicated,    *)
(* the number of places that hold a PCB of an id being one while its        *)
(* console waits, and none before and after; that the waits of BLOCKED keep *)
(* their order; and that the counting semaphores count.                     *)
EXTENDS Kernel, TLAPS, SequenceTheorems, FiniteSetTheorems,
        WellFoundedInduction

\* A non-empty set of naturals has a minimum, and Min returns it.  The initial
\* segments below its members are finite, and strict inclusion is well founded.
LEMMA MinimoExiste ==
  ASSUME NEW S \in SUBSET Nat, S # {}
  PROVE  Min(S) \in S /\ \A y \in S : Min(S) <= y
<1> DEFINE Segmentos == {0 .. (x - 1) : x \in S}
<1>1. Segmentos \subseteq FiniteSubsetsOf(Nat)
  <2>1. ASSUME NEW x \in S PROVE 0 .. (x - 1) \in SUBSET Nat /\ IsFiniteSet(0 .. (x - 1))
    BY FS_Interval
  <2> QED
    BY <2>1 DEF FiniteSubsetsOf
<1>2. PICK A \in Segmentos : \A B \in Segmentos : <<B, A>> \notin StrictSubsetOrdering(Nat)
  <2>1. IsWellFoundedOn(StrictSubsetOrdering(Nat), FiniteSubsetsOf(Nat))
    BY FS_StrictSubsetOrderingWellFounded
  <2> HIDE DEF Segmentos
  <2>2. Segmentos # {}
    BY DEF Segmentos
  <2> QED
    BY <1>1, <2>1, <2>2, WFMin
<1>3. PICK x \in S : A = 0 .. (x - 1)
  OBVIOUS
<1>4. ASSUME NEW y \in S PROVE x <= y
  <2>1. <<0 .. (y - 1), A>> \notin StrictSubsetOrdering(Nat)
    BY <1>2
  <2>2. SUFFICES ASSUME y < x PROVE FALSE
    OBVIOUS
  <2>3. 0 .. (y - 1) \subseteq A /\ A \subseteq Nat /\ y \in A /\ y \notin 0 .. (y - 1)
    BY <1>3, <2>2
  <2> QED
    BY <2>1, <2>3 DEF StrictSubsetOrdering
<1> QED
  BY <1>4 DEF Min

LEMMA EnRango ==
  ASSUME NEW T, NEW q \in Seq(T), NEW i \in DOMAIN q
  PROVE  i \in 1 .. Len(q) /\ i \in Nat /\ q[i] \in T
  OBVIOUS

\* Removing an element of a sequence leaves the others, in their order.
LEMMA RemoveAtProperties ==
  ASSUME NEW T, NEW q \in Seq(T), NEW i \in 1 .. Len(q)
  PROVE  /\ RemoveAt(q, i) \in Seq(T)
         /\ Len(RemoveAt(q, i)) = Len(q) - 1
         /\ \A j \in 1 .. Len(q) - 1 :
              RemoveAt(q, i)[j] = IF j < i THEN q[j] ELSE q[j + 1]
<1> DEFINE a == SubSeq(q, 1, i - 1)
           b == SubSeq(q, i + 1, Len(q))
<1>1. a \in Seq(T) /\ Len(a) = i - 1 /\ \A j \in 1 .. i - 1 : a[j] = q[j]
  BY SubSeqProperties
<1>2. b \in Seq(T) /\ Len(b) = Len(q) - i
      /\ \A j \in 1 .. Len(q) - i : b[j] = q[i + j]
  BY SubSeqProperties
<1>3. RemoveAt(q, i) = a \o b
  BY DEF RemoveAt
<1>4. Len(q) \in Nat /\ i \in Nat
  OBVIOUS
<1> HIDE DEF a, b
<1>5. /\ a \o b \in Seq(T) /\ Len(a \o b) = Len(a) + Len(b)
      /\ \A j \in 1 .. Len(a) + Len(b) :
           (a \o b)[j] = IF j <= Len(a) THEN a[j] ELSE b[j - Len(a)]
  BY <1>1, <1>2, ConcatProperties
<1>6. ASSUME NEW j \in 1 .. Len(q) - 1
      PROVE  (a \o b)[j] = IF j < i THEN q[j] ELSE q[j + 1]
  <2>0. j \in Nat /\ (j < i \/ j >= i)
    BY <1>4
  <2>1. CASE j < i
    BY <2>1, <1>1, <1>2, <1>4, <1>5
  <2>2. CASE j >= i
    <3>1. j - Len(a) = j - (i - 1) /\ j - (i - 1) \in 1 .. Len(q) - i
      BY <2>2, <1>1, <1>4
    <3>2. (a \o b)[j] = b[j - (i - 1)]
      BY <2>2, <3>1, <1>1, <1>2, <1>4, <1>5
    <3>3. b[j - (i - 1)] = q[i + (j - (i - 1))] /\ i + (j - (i - 1)) = j + 1
      BY <3>1, <1>2, <1>4
    <3> QED
      BY <2>2, <3>2, <3>3, <1>4
  <2> QED
    BY <2>0, <2>1, <2>2
<1> QED
  BY <1>1, <1>2, <1>3, <1>4, <1>5, <1>6

\* Removing by id takes out one PCB with that id, when there is one.
LEMMA QuitarPorIdIndice ==
  ASSUME NEW q \in Seq(PCB), NEW id, \E i \in DOMAIN q : q[i].id = id
  PROVE  \E k \in 1 .. Len(q) :
           q[k].id = id /\ QuitarPorId(q, id) = RemoveAt(q, k)
<1> DEFINE iguales == {i \in DOMAIN q : q[i].id = id}
<1>1. iguales \in SUBSET Nat /\ iguales \subseteq 1 .. Len(q) /\ iguales # {}
  OBVIOUS
<1>2. Min(iguales) \in iguales
  <2> HIDE DEF iguales
  <2> QED
    BY <1>1, MinimoExiste
<1>3. QuitarPorId(q, id) = RemoveAt(q, Min(iguales))
  BY <1>1 DEF QuitarPorId
<1>4. ASSUME NEW k \in iguales PROVE k \in 1 .. Len(q) /\ q[k].id = id
  BY <1>1
<1> HIDE DEF iguales
<1> QED
  BY <1>2, <1>3, <1>4

LEMMA QuitarPorIdProperties ==
  ASSUME NEW q \in Seq(PCB), NEW id
  PROVE  /\ QuitarPorId(q, id) \in Seq(PCB)
         /\ (\E i \in DOMAIN q : q[i].id = id) =>
              Len(QuitarPorId(q, id)) = Len(q) - 1
         /\ (\A i \in DOMAIN q : q[i].id # id) => QuitarPorId(q, id) = q
<1>1. CASE \E i \in DOMAIN q : q[i].id = id
  BY <1>1, QuitarPorIdIndice, RemoveAtProperties
<1>2. CASE \A i \in DOMAIN q : q[i].id # id
  BY <1>2 DEF QuitarPorId
<1> QED
  BY <1>1, <1>2

\* SRT picks a PCB that is in READY.
LEMMA IndiceSRTProperties ==
  ASSUME NEW q \in Seq(PCB), q # <<>>, NEW ejecutando
  PROVE  IndiceSRT(q, ejecutando) \in DOMAIN q
<1> DEFINE estimacion(i) == q[i].estimacionRafaga
           delUltimo == {i \in DOMAIN q : q[i].id = ejecutando}
           estimaciones == {estimacion(i) : i \in DOMAIN q}
           minimos == {i \in DOMAIN q : estimacion(i) = Min(estimaciones)}
<1>1. Len(q) \in Nat /\ Len(q) # 0 /\ DOMAIN q = 1 .. Len(q)
  OBVIOUS
<1>2. 1 \in DOMAIN q
  BY <1>1
<1>3. estimaciones \in SUBSET Nat /\ estimaciones # {}
  <2>1. ASSUME NEW i \in DOMAIN q PROVE estimacion(i) \in Nat
    <3>1. q[i] \in PCB
      BY <1>1
    <3> QED
      BY <3>1 DEF PCB
  <2> HIDE DEF estimacion
  <2> QED
    BY <1>2, <2>1
<1>4. Min(estimaciones) \in estimaciones
  <2> HIDE DEF estimaciones
  <2> QED
    BY <1>3, MinimoExiste
<1>5. minimos # {} /\ minimos \in SUBSET Nat
  <2>1. PICK i \in DOMAIN q : estimacion(i) = Min(estimaciones)
    BY <1>4
  <2>2. i \in minimos
    BY <2>1
  <2>3. minimos \subseteq DOMAIN q
    OBVIOUS
  <2> HIDE DEF minimos
  <2> QED
    BY <1>1, <2>2, <2>3
<1>6. Min(minimos) \in minimos
  <2> HIDE DEF minimos
  <2> QED
    BY <1>5, MinimoExiste
<1>7. ASSUME delUltimo # {} PROVE Min(delUltimo) \in delUltimo
  <2>1. delUltimo \in SUBSET Nat
    BY <1>1
  <2> HIDE DEF delUltimo
  <2> QED
    BY <1>7, <2>1, MinimoExiste
<1>8. IndiceSRT(q, ejecutando) =
        IF delUltimo = {} THEN 1
        ELSE IF Min(estimaciones) < estimacion(Min(delUltimo))
               THEN Min(minimos) ELSE Min(delUltimo)
  BY DEF IndiceSRT
<1>9. minimos \subseteq DOMAIN q /\ delUltimo \subseteq DOMAIN q
  OBVIOUS
<1> HIDE DEF minimos, delUltimo, estimaciones
<1> QED
  BY <1>2, <1>6, <1>7, <1>8, <1>9

LEMMA EstimacionesNaturales ==
  ASSUME NEW pcb \in PCB
  PROVE  EstimacionPromedio(pcb) \in Nat /\ EstimacionRestante(pcb) \in Nat
<1>1. pcb.lengthUltimaRafaga \in Nat /\ pcb.estimacionRafaga \in Nat
  BY DEF PCB
<1>2. ALFA_NUM * pcb.lengthUltimaRafaga \in Nat
  BY <1>1, ConstantesKernel
<1>3. ALFA_DEN - ALFA_NUM \in Nat
  BY ConstantesKernel
<1>4. (ALFA_DEN - ALFA_NUM) * pcb.estimacionRafaga \in Nat
  BY <1>1, <1>3
<1>5. ASSUME NEW x \in Nat PROVE x \div ALFA_DEN \in Nat
  BY ConstantesKernel
<1>6. EstimacionPromedio(pcb) \in Nat
  BY <1>2, <1>4, <1>5 DEF EstimacionPromedio
<1>7. EstimacionRestante(pcb) \in Nat
  BY <1>1, ConstantesKernel DEF EstimacionRestante
<1> QED
  BY <1>6, <1>7

LEMMA PcbConEstimacion ==
  ASSUME NEW pcb \in PCB, NEW e \in Nat
  PROVE  [pcb EXCEPT !.estimacionRafaga = e] \in PCB
  BY DEF PCB

LEMMA sumarEsperaProperties ==
  ASSUME NEW cola \in Seq(IO), NEW ms \in Nat
  PROVE  /\ sumarEspera(cola, ms) \in Seq(IO)
         /\ Len(sumarEspera(cola, ms)) = Len(cola)
<1>1. Len(cola) \in Nat /\ DOMAIN cola = 1 .. Len(cola)
  OBVIOUS
<1>2. ASSUME NEW i \in 1 .. Len(cola)
      PROVE  [cola[i] EXCEPT !.tiempoEspera = @ + ms] \in IO
  <2>1. cola[i] \in IO
    BY <1>1
  <2>2. cola[i].tiempoEspera + ms \in Nat
    BY <2>1 DEF IO
  <2>3. ASSUME NEW e \in Nat, NEW io \in IO
        PROVE  [io EXCEPT !.tiempoEspera = e] \in IO
    BY DEF IO
  <2> QED
    BY <2>1, <2>2, <2>3
<1>3. sumarEspera(cola, ms) \in [1 .. Len(cola) -> IO]
  BY <1>1, <1>2 DEF sumarEspera
<1> HIDE DEF sumarEspera
<1> QED
  BY <1>1, <1>3

LEMMA TicksNaturales ==
  ASSUME NEW ms \in Nat
  PROVE  CantidadTicks(ms) \in Nat /\ TamanioTick(ms) \in Nat
  BY DEF CantidadTicks, TamanioTick

\* What the CPU answers is a message, about the same process.
LEMMA RespuestaProperties ==
  ASSUME NEW pcb \in PCB, NEW fin \in Paradas(pcb)
  PROVE  Respuesta(pcb, fin) \in Mensaje /\ Respuesta(pcb, fin).pcb.id = pcb.id
<1>1. pcb.PC \in Nat /\ pcb.instrucciones \in Seq(Instruccion)
  BY ConstantesKernel DEF PCB
<1>2. fin \in pcb.PC + 1 .. Len(pcb.instrucciones)
  BY DEF Paradas
<1>3. fin \in Nat /\ fin - pcb.PC \in Nat /\ fin \in DOMAIN pcb.instrucciones
  BY <1>1, <1>2
<1>4. pcb.instrucciones[fin] \in Instruccion
  BY <1>1, <1>3
<1>5. [pcb EXCEPT !.PC = fin, !.lengthUltimaRafaga = fin - pcb.PC] \in PCB
  BY <1>3 DEF PCB
<1> QED
  BY <1>4, <1>5 DEF Respuesta, Mensaje, CodigoRespuesta, Instruccion, PCB

-----------------------------------------------------------------------------
(* Types, one lemma for each thread *)

USE DEF colas, semaforos, consolas, hiloMain, hiloAready, hiloExec, hiloBlock, cpu

LEMMA TipoMain == TypeOK /\ Main => TypeOK'
<1> SUFFICES ASSUME TypeOK, Main PROVE TypeOK'
  OBVIOUS
<1>1. CASE manejarProceso
  <2>1. pcbMain' \in PCB
    BY <1>1, ConstantesKernel DEF manejarProceso, iniciarPcb, PCB, TypeOK
  <2> QED
    BY <1>1, <2>1 DEF manejarProceso, TypeOK
<1>2. CASE ingresarANew
  BY <1>2 DEF ingresarANew, TypeOK
<1>3. CASE ingresarANew_Post
  BY <1>3 DEF ingresarANew_Post, TypeOK
<1> QED
  BY <1>1, <1>2, <1>3 DEF Main

LEMMA TipoAready == TypeOK /\ Aready => TypeOK'
<1> SUFFICES ASSUME TypeOK, Aready PROVE TypeOK'
  OBVIOUS
<1>1. CASE Aready_EsperarProceso
  BY <1>1 DEF Aready_EsperarProceso, TypeOK
<1>2. CASE Aready_EsperarGrado
  BY <1>2 DEF Aready_EsperarGrado, TypeOK
<1>3. CASE obtenerSiguienteAready_Elegir
  BY <1>3 DEF obtenerSiguienteAready_Elegir, TypeOK
<1>4. CASE obtenerSiguienteAready_Susp
  BY <1>4 DEF obtenerSiguienteAready_Susp, TypeOK
<1>5. CASE obtenerSiguienteAready_New
  BY <1>5 DEF obtenerSiguienteAready_New, TypeOK
<1>6. CASE comunicacionMemoriaCreacionEstructuras
  BY <1>6 DEF comunicacionMemoriaCreacionEstructuras, TypeOK
<1>7. CASE Aready_AgregarReady
  BY <1>7 DEF Aready_AgregarReady, TypeOK
<1>8. CASE Aready_Interrumpir
  BY <1>8 DEF Aready_Interrumpir, TypeOK
<1>9. CASE Aready_PostReady
  BY <1>9 DEF Aready_PostReady, TypeOK
<1> QED
  BY <1>1, <1>2, <1>3, <1>4, <1>5, <1>6, <1>7, <1>8, <1>9 DEF Aready
LEMMA TipoExec == TypeOK /\ readyAexec => TypeOK'
<1> SUFFICES ASSUME TypeOK, readyAexec PROVE TypeOK'
  OBVIOUS
<1>1. CASE readyAexec_EsperarReady
  BY <1>1 DEF readyAexec_EsperarReady, TypeOK
<1>2. CASE planificacionFIFO
  BY <1>2 DEF planificacionFIFO, TypeOK
<1>3. CASE planificacionSRT
  <2>1. IndiceSRT(estado_ready, id_pcb_ejecutando) \in DOMAIN estado_ready
    BY <1>3, IndiceSRTProperties DEF planificacionSRT, TypeOK
  <2>2. pcbExec' \in PCB
    BY <1>3, <2>1, EnRango DEF planificacionSRT, TypeOK
  <2> QED
    BY <1>3, <2>2 DEF planificacionSRT, TypeOK
<1>4. CASE readyAexec_Quitar
  <2>1. estado_ready' \in Seq(PCB)
    BY <1>4, QuitarPorIdProperties DEF readyAexec_Quitar, TypeOK
  <2>2. id_pcb_ejecutando' \in Nat
    BY <1>4 DEF readyAexec_Quitar, TypeOK, PCB
  <2> QED
    BY <1>4, <2>1, <2>2 DEF readyAexec_Quitar, TypeOK
<1>5. CASE ejecutarPCB
  <2>1. dispatch' \in Mensaje
    BY <1>5 DEF ejecutarPCB, TypeOK, Mensaje
  <2> QED
    BY <1>5, <2>1 DEF ejecutarPCB, TypeOK
<1>6. CASE ejecutarPCB_IO
  <2>1. dispatch \in Mensaje
    BY <1>6 DEF ejecutarPCB_IO, TypeOK, SinMensaje
  <2>2. dispatch.pcb \in PCB /\ dispatch.tiempoBloqueo \in Nat
    BY <2>1 DEF Mensaje
  <2>3. [dispatch.pcb EXCEPT
           !.estimacionRafaga = EstimacionPromedio(dispatch.pcb)] \in PCB
    BY <2>2, EstimacionesNaturales, PcbConEstimacion
  <2>4. estado_blocked' \in Seq(IO)
    BY <1>6, <2>2, <2>3 DEF ejecutarPCB_IO, TypeOK, IO
  <2> QED
    BY <1>6, <2>4 DEF ejecutarPCB_IO, TypeOK
<1>7. CASE ejecutarPCB_PostBlock
  BY <1>7 DEF ejecutarPCB_PostBlock, TypeOK
<1>8. CASE ejecutarPCB_Interrupcion
  <2>1. dispatch \in Mensaje
    BY <1>8 DEF ejecutarPCB_Interrupcion, TypeOK, SinMensaje
  <2>2. dispatch.pcb \in PCB
    BY <2>1 DEF Mensaje
  <2>3. [dispatch.pcb EXCEPT
           !.estimacionRafaga = EstimacionRestante(dispatch.pcb)] \in PCB
    BY <2>2, EstimacionesNaturales, PcbConEstimacion
  <2>4. estado_ready' \in Seq(PCB)
    BY <1>8, <2>3 DEF ejecutarPCB_Interrupcion, TypeOK
  <2> QED
    BY <1>8, <2>4 DEF ejecutarPCB_Interrupcion, TypeOK
<1>9. CASE ejecutarPCB_PostReady
  BY <1>9 DEF ejecutarPCB_PostReady, TypeOK
<1>10. CASE execAexit_Finalizar
  <2>1. dispatch.pcb \in PCB
    BY <1>10 DEF execAexit_Finalizar, TypeOK, SinMensaje, Mensaje
  <2> QED
    BY <1>10, <2>1 DEF execAexit_Finalizar, TypeOK
<1>11. CASE execAexit_Notificar
  <2>1. consolas_conectadas' \subseteq Nat /\ notificadas' \subseteq Nat
    BY <1>11 DEF execAexit_Notificar, TypeOK
  <2> QED
    BY <1>11, <2>1 DEF execAexit_Notificar, TypeOK
<1>12. CASE execAexit_PostGrado
  BY <1>12 DEF execAexit_PostGrado, TypeOK
<1> QED
  BY <1>1, <1>2, <1>3, <1>4, <1>5, <1>6, <1>7, <1>8, <1>9, <1>10, <1>11,
     <1>12 DEF readyAexec

LEMMA TipoBlock == TypeOK /\ hilo_block => TypeOK'
<1> SUFFICES ASSUME TypeOK, hilo_block PROVE TypeOK'
  OBVIOUS
<1>1. CASE hilo_block_Esperar
  BY <1>1 DEF hilo_block_Esperar, TypeOK
<1>2. CASE hilo_block_Sacar
  BY <1>2 DEF hilo_block_Sacar, TypeOK
<1>3. CASE hilo_block_SinSuspender
  <2>1. ultimoIO.tiempoBloqueo \in Nat
    BY <1>3 DEF hilo_block_SinSuspender, TypeOK, IO
  <2>2. ticks' \in Nat /\ tick' \in Nat
    BY <1>3, <2>1, TicksNaturales DEF hilo_block_SinSuspender, IniciarIO
  <2> QED
    BY <1>3, <2>2 DEF hilo_block_SinSuspender, TypeOK
<1>4. CASE hilo_block_SuspenderDespues
  <2>1. ultimoIO.tiempoBloqueo \in Nat /\ ultimoIO.tiempoEspera \in Nat
    BY <1>4 DEF hilo_block_SuspenderDespues, TypeOK, IO
  <2>2. IOParaSuspender \in Nat /\ ultimoIO.tiempoBloqueo - IOParaSuspender \in Nat
    BY <1>4, <2>1, ConstantesKernel
       DEF hilo_block_SuspenderDespues, ExcedeMaximo, IOParaSuspender
  <2>3. ticks' \in Nat /\ tick' \in Nat
    BY <1>4, <2>2, TicksNaturales DEF hilo_block_SuspenderDespues, IniciarIO
  <2> QED
    BY <1>4, <2>2, <2>3 DEF hilo_block_SuspenderDespues, TypeOK
<1>5. CASE hilo_block_SuspenderYa
  <2>1. ultimoIO.tiempoBloqueo \in Nat
    BY <1>5 DEF hilo_block_SuspenderYa, TypeOK, IO
  <2> QED
    BY <1>5, <2>1 DEF hilo_block_SuspenderYa, TypeOK
<1>6. CASE hacerIO
  <2>1. estado_blocked' \in Seq(IO)
    BY <1>6, sumarEsperaProperties DEF hacerIO, TypeOK
  <2> QED
    BY <1>6, <2>1 DEF hacerIO, TypeOK
<1>7. CASE hacerIO_HastaMaximo
  BY <1>7 DEF hacerIO_HastaMaximo, TypeOK
<1>8. CASE comunicacionMemoriaSuspender
  BY <1>8 DEF comunicacionMemoriaSuspender, TypeOK
<1>9. CASE hilo_block_PostGrado
  <2>1. ticks' \in Nat /\ tick' \in Nat
    BY <1>9, TicksNaturales DEF hilo_block_PostGrado, IniciarIO, TypeOK
  <2> QED
    BY <1>9, <2>1 DEF hilo_block_PostGrado, TypeOK
<1>10. CASE addEstadoSuspReady
  <2>1. ultimoIO.pcb \in PCB
    BY <1>10 DEF addEstadoSuspReady, TypeOK, IO
  <2> QED
    BY <1>10, <2>1 DEF addEstadoSuspReady, TypeOK
<1>11. CASE hilo_block_PostEsperando
  BY <1>11 DEF hilo_block_PostEsperando, TypeOK
<1>12. CASE hilo_block_AgregarReady
  <2>1. ultimoIO.pcb \in PCB
    BY <1>12 DEF hilo_block_AgregarReady, TypeOK, IO
  <2> QED
    BY <1>12, <2>1 DEF hilo_block_AgregarReady, TypeOK
<1>13. CASE hilo_block_Interrumpir
  BY <1>13 DEF hilo_block_Interrumpir, TypeOK
<1>14. CASE hilo_block_PostReady
  BY <1>14 DEF hilo_block_PostReady, TypeOK
<1> QED
  BY <1>1, <1>2, <1>3, <1>4, <1>5, <1>6, <1>7, <1>8, <1>9, <1>10, <1>11,
     <1>12, <1>13, <1>14 DEF hilo_block

LEMMA TipoCpu == TypeOK /\ (CpuResponde \/ CpuLeeInterrupcion) => TypeOK'
<1> SUFFICES ASSUME TypeOK, CpuResponde \/ CpuLeeInterrupcion PROVE TypeOK'
  OBVIOUS
<1>1. CASE CpuResponde
  <2>1. dispatch.pcb \in PCB
    BY <1>1 DEF CpuResponde, TypeOK, SinMensaje, Mensaje
  <2>2. PICK fin \in Paradas(dispatch.pcb) : dispatch' = Respuesta(dispatch.pcb, fin)
    BY <1>1 DEF CpuResponde
  <2>3. dispatch' \in Mensaje
    BY <2>1, <2>2, RespuestaProperties
  <2> QED
    BY <1>1, <2>3 DEF CpuResponde, TypeOK
<1>2. CASE CpuLeeInterrupcion
  BY <1>2 DEF CpuLeeInterrupcion, TypeOK
<1> QED
  BY <1>1, <1>2

\* Whatever the threads, the consoles and the CPU do, and in whatever order,
\* every queue, semaphore, local variable and message of the kernel keeps its
\* type.
THEOREM TipoCorrecto == Spec => []TypeOK
<1>1. Init => TypeOK
  BY ConstantesKernel DEF Init, TypeOK
<1>2. TypeOK /\ [Next]_vars => TypeOK'
  <2>1. TypeOK /\ UNCHANGED vars => TypeOK'
    BY DEF vars, TypeOK
  <2> QED
    BY <2>1, TipoMain, TipoAready, TipoExec, TipoBlock, TipoCpu DEF Next
<1> QED
  BY <1>1, <1>2, PTL DEF Spec

\* An entry appended with no wait at all does not disturb the order of the
\* waits, and neither does taking the head.
LEMMA EsperasDeCola ==
  ASSUME TypeOK, EsperasOrdenadas
  PROVE  /\ \A io \in IO : io.tiempoEspera = 0 /\ estado_blocked' = Append(estado_blocked, io)
                             => EsperasOrdenadas'
         /\ estado_blocked # <<>> /\ estado_blocked' = Tail(estado_blocked)
              => EsperasOrdenadas'
<1> USE DEF EsperasOrdenadas
<1>0. estado_blocked \in Seq(IO)
  BY DEF TypeOK
<1>1. ASSUME NEW io \in IO, io.tiempoEspera = 0,
             estado_blocked' = Append(estado_blocked, io)
      PROVE  EsperasOrdenadas'
  <2>1. SUFFICES ASSUME NEW i \in DOMAIN estado_blocked', NEW j \in DOMAIN estado_blocked', i < j
                 PROVE  estado_blocked'[i].tiempoEspera >= estado_blocked'[j].tiempoEspera
    OBVIOUS
  <2>2. i \in 1 .. Len(estado_blocked) /\ estado_blocked'[i] = estado_blocked[i]
        /\ estado_blocked[i] \in IO
    BY <1>0, <1>1, <2>1
  <2>3. estado_blocked[i].tiempoEspera \in Nat
    BY <2>2 DEF IO
  <2>4. CASE j = Len(estado_blocked) + 1
    <3>1. estado_blocked'[j].tiempoEspera = 0
      BY <1>0, <1>1, <2>4
    <3> QED
      BY <2>2, <2>3, <3>1
  <2>5. CASE j # Len(estado_blocked) + 1
    <3>1. j \in DOMAIN estado_blocked /\ estado_blocked'[j] = estado_blocked[j]
      BY <1>0, <1>1, <2>1, <2>5
    <3>2. i \in DOMAIN estado_blocked
      BY <1>0, <2>2
    <3> QED
      BY <2>1, <2>2, <3>1, <3>2
  <2> QED
    BY <2>4, <2>5
<1>2. ASSUME estado_blocked # <<>>, estado_blocked' = Tail(estado_blocked)
      PROVE  EsperasOrdenadas'
  <2>1. SUFFICES ASSUME NEW i \in DOMAIN estado_blocked', NEW j \in DOMAIN estado_blocked', i < j
                 PROVE  estado_blocked'[i].tiempoEspera >= estado_blocked'[j].tiempoEspera
    OBVIOUS
  <2>2. /\ i + 1 \in DOMAIN estado_blocked /\ estado_blocked'[i] = estado_blocked[i + 1]
        /\ j + 1 \in DOMAIN estado_blocked /\ estado_blocked'[j] = estado_blocked[j + 1]
        /\ i + 1 < j + 1
    BY <1>0, <1>2, <2>1
  <2> QED
    BY <2>2
<1> QED
  BY <1>1, <1>2

\* A tick of hacerIO adds the same to every wait.
LEMMA EsperasDeTick ==
  ASSUME TypeOK, EsperasOrdenadas, hacerIO
  PROVE  EsperasOrdenadas'
<1>1. SUFFICES ASSUME NEW i \in DOMAIN estado_blocked', NEW j \in DOMAIN estado_blocked', i < j
               PROVE  estado_blocked'[i].tiempoEspera >= estado_blocked'[j].tiempoEspera
  BY DEF EsperasOrdenadas
<1>2. DOMAIN estado_blocked' = DOMAIN estado_blocked
  BY DEF hacerIO, sumarEspera
<1>3. ASSUME NEW k \in DOMAIN estado_blocked
      PROVE  /\ estado_blocked[k].tiempoEspera \in Nat
             /\ estado_blocked'[k].tiempoEspera = estado_blocked[k].tiempoEspera + tick
  <2>1. estado_blocked[k] \in IO
    BY EnRango DEF TypeOK
  <2> QED
    BY <2>1 DEF hacerIO, sumarEspera, IO
<1>4. estado_blocked[i].tiempoEspera >= estado_blocked[j].tiempoEspera
  BY <1>1, <1>2 DEF EsperasOrdenadas
<1>5. tick \in Nat
  BY DEF TypeOK
<1> QED
  BY <1>1, <1>2, <1>3, <1>4, <1>5

\* Who writes BLOCKED: the dispatcher that appends, hilo_block that takes the
\* head, and the ticks of its hacerIO.
LEMMA EscritoresDeBlocked ==
  ASSUME Next
  PROVE  \/ ejecutarPCB_IO \/ hilo_block_Sacar \/ hacerIO
         \/ UNCHANGED estado_blocked
<1>1. CASE Main
  BY <1>1 DEF Main, manejarProceso, ingresarANew, ingresarANew_Post
<1>2. CASE Aready
  BY <1>2 DEF Aready, Aready_EsperarProceso, Aready_EsperarGrado,
     obtenerSiguienteAready_Elegir, obtenerSiguienteAready_Susp,
     obtenerSiguienteAready_New, comunicacionMemoriaCreacionEstructuras,
     Aready_AgregarReady, Aready_Interrumpir, Aready_PostReady
<1>3. CASE readyAexec
  BY <1>3 DEF readyAexec, readyAexec_EsperarReady, planificacionFIFO,
     planificacionSRT, readyAexec_Quitar, ejecutarPCB, ejecutarPCB_PostBlock,
     ejecutarPCB_Interrupcion, ejecutarPCB_PostReady, execAexit_Finalizar,
     execAexit_Notificar, execAexit_PostGrado
<1>4. CASE hilo_block
  BY <1>4 DEF hilo_block, hilo_block_Esperar, hilo_block_SinSuspender,
     hilo_block_SuspenderDespues, hilo_block_SuspenderYa, hacerIO_HastaMaximo,
     comunicacionMemoriaSuspender, hilo_block_PostGrado, addEstadoSuspReady,
     hilo_block_PostEsperando, hilo_block_AgregarReady, hilo_block_Interrumpir,
     hilo_block_PostReady
<1>5. CASE CpuResponde \/ CpuLeeInterrupcion
  BY <1>5 DEF CpuResponde, CpuLeeInterrupcion
<1> QED
  BY <1>1, <1>2, <1>3, <1>4, <1>5 DEF Next

\* However the ticks of the device interleave with the arrivals to BLOCKED,
\* a process that entered later has never waited longer than one before it.
THEOREM EsperasEnOrden == Spec => []EsperasOrdenadas
<1>1. Init => EsperasOrdenadas
  BY DEF Init, EsperasOrdenadas
<1>2. TypeOK /\ EsperasOrdenadas /\ [Next]_vars => EsperasOrdenadas'
  <2> SUFFICES ASSUME TypeOK, EsperasOrdenadas, [Next]_vars
               PROVE  EsperasOrdenadas'
    OBVIOUS
  <2>1. CASE ejecutarPCB_IO
    <3> DEFINE io == [pcb |-> [dispatch.pcb EXCEPT
                                 !.estimacionRafaga = EstimacionPromedio(dispatch.pcb)],
                      tiempoEspera |-> 0, tiempoBloqueo |-> dispatch.tiempoBloqueo]
    <3>1. dispatch.pcb \in PCB /\ dispatch.tiempoBloqueo \in Nat
      BY <2>1 DEF ejecutarPCB_IO, TypeOK, SinMensaje, Mensaje
    <3>2. io \in IO
      BY <3>1, EstimacionesNaturales, PcbConEstimacion DEF IO
    <3>3. estado_blocked' = Append(estado_blocked, io) /\ io.tiempoEspera = 0
      BY <2>1 DEF ejecutarPCB_IO
    <3> HIDE DEF io
    <3> QED
      BY <3>2, <3>3, EsperasDeCola
  <2>2. CASE hilo_block_Sacar
    BY <2>2, EsperasDeCola DEF hilo_block_Sacar
  <2>3. CASE hacerIO
    BY <2>3, EsperasDeTick
  <2>4. CASE UNCHANGED estado_blocked
    BY <2>4 DEF EsperasOrdenadas
  <2> QED
    BY <2>1, <2>2, <2>3, <2>4, EscritoresDeBlocked DEF vars
<1> QED
  BY <1>1, <1>2, TipoCorrecto, PTL DEF Spec

-----------------------------------------------------------------------------
(* One copy of each process *)


En(q, x) == \E i \in DOMAIN q : q[i].id = x
EnIO(q, x) == \E i \in DOMAIN q : q[i].pcb.id = x

SinRepetir(q) == \A i, j \in DOMAIN q : q[i].id = q[j].id => i = j
SinRepetirIO(q) == \A i, j \in DOMAIN q : q[i].pcb.id = q[j].pcb.id => i = j

\* How many queues and threads hold a PCB of process x.
Copias(x) ==
  Contar(En(estado_new, x)) + Contar(En(estado_ready, x))
    + Contar(En(estado_susp_ready, x)) + Contar(EnIO(estado_blocked, x))
    + Contar(pcMain = "ingresar" /\ pcbMain.id = x)
    + Contar(TieneAready /\ pcbAready.id = x)
    + Contar(TieneExec /\ pcbExec.id = x)
    + Contar(pcExec = "esperar_cpu" /\ dispatch.pcb.id = x)
    + Contar(TieneBlock /\ ultimoIO.pcb.id = x)

Colas ==
  /\ SinRepetir(estado_new) /\ SinRepetir(estado_ready)
  /\ SinRepetir(estado_susp_ready) /\ SinRepetirIO(estado_blocked)

Unicidad ==
  /\ \A x \in Nat : Copias(x) = Contar(x \in consolas_conectadas)
  /\ Colas
  /\ pcExec = "quitar" /\ EsSRT => En(estado_ready, pcbExec.id)
  /\ \A x \in consolas_conectadas : x < id_nuevo_proceso

-----------------------------------------------------------------------------
(* What the operations on queues do to the ids they hold *)

LEMMA AppendIds ==
  ASSUME NEW q \in Seq(PCB), NEW p \in PCB
  PROVE  /\ \A x : En(Append(q, p), x) <=> En(q, x) \/ x = p.id
         /\ SinRepetir(q) /\ ~En(q, p.id) => SinRepetir(Append(q, p))
<1> DEFINE r == Append(q, p)
<1>1. /\ Len(q) \in Nat /\ DOMAIN q = 1 .. Len(q)
      /\ DOMAIN r = 1 .. Len(q) + 1
      /\ \A i \in 1 .. Len(q) : r[i] = q[i]
      /\ r[Len(q) + 1] = p
  BY AppendProperties
<1> HIDE DEF r
<1>2. ASSUME NEW x PROVE En(r, x) <=> En(q, x) \/ x = p.id
  BY <1>1 DEF En
<1>3. ASSUME SinRepetir(q), ~En(q, p.id) PROVE SinRepetir(r)
  BY <1>1, <1>3 DEF En, SinRepetir
<1> QED
  BY <1>2, <1>3 DEF r

LEMMA AppendIdsIO ==
  ASSUME NEW q \in Seq(IO), NEW io \in IO
  PROVE  /\ \A x : EnIO(Append(q, io), x) <=> EnIO(q, x) \/ x = io.pcb.id
         /\ SinRepetirIO(q) /\ ~EnIO(q, io.pcb.id) => SinRepetirIO(Append(q, io))
<1> DEFINE r == Append(q, io)
<1>1. /\ Len(q) \in Nat /\ DOMAIN q = 1 .. Len(q)
      /\ DOMAIN r = 1 .. Len(q) + 1
      /\ \A i \in 1 .. Len(q) : r[i] = q[i]
      /\ r[Len(q) + 1] = io
  BY AppendProperties
<1> HIDE DEF r
<1>2. ASSUME NEW x PROVE EnIO(r, x) <=> EnIO(q, x) \/ x = io.pcb.id
  BY <1>1 DEF EnIO
<1>3. ASSUME SinRepetirIO(q), ~EnIO(q, io.pcb.id) PROVE SinRepetirIO(r)
  BY <1>1, <1>3 DEF EnIO, SinRepetirIO
<1> QED
  BY <1>2, <1>3 DEF r

LEMMA TailIds ==
  ASSUME NEW q \in Seq(PCB), q # <<>>, SinRepetir(q)
  PROVE  /\ Head(q) \in PCB /\ Tail(q) \in Seq(PCB)
         /\ En(q, Head(q).id)
         /\ \A x : En(Tail(q), x) <=> En(q, x) /\ x # Head(q).id
         /\ SinRepetir(Tail(q))
<1> DEFINE r == Tail(q)
<1>1. /\ Len(q) \in Nat \ {0} /\ DOMAIN q = 1 .. Len(q)
      /\ DOMAIN r = 1 .. Len(q) - 1
      /\ \A i \in 1 .. Len(q) - 1 : r[i] = q[i + 1]
      /\ Head(q) = q[1] /\ Head(q) \in PCB /\ r \in Seq(PCB)
  BY HeadTailProperties
<1> HIDE DEF r
<1>2. ASSUME NEW x PROVE En(r, x) <=> En(q, x) /\ x # Head(q).id
  <2>1. ASSUME En(r, x) PROVE En(q, x) /\ x # Head(q).id
    <3>1. PICK i \in 1 .. Len(q) - 1 : q[i + 1].id = x
      BY <1>1, <2>1 DEF En
    <3>2. i + 1 \in DOMAIN q /\ 1 \in DOMAIN q /\ i + 1 # 1
      BY <1>1
    <3> QED
      BY <1>1, <3>1, <3>2 DEF En, SinRepetir
  <2>2. ASSUME En(q, x), x # Head(q).id PROVE En(r, x)
    <3>1. PICK j \in 1 .. Len(q) : q[j].id = x
      BY <1>1, <2>2 DEF En
    <3>2. j - 1 \in 1 .. Len(q) - 1 /\ (j - 1) + 1 = j
      BY <1>1, <2>2, <3>1
    <3> QED
      BY <1>1, <3>1, <3>2 DEF En
  <2> QED
    BY <2>1, <2>2
<1>3. SinRepetir(r)
  <2>1. ASSUME NEW i \in DOMAIN r, NEW j \in DOMAIN r, r[i].id = r[j].id
        PROVE  i = j
    <3>1. /\ i + 1 \in DOMAIN q /\ j + 1 \in DOMAIN q /\ i \in Nat /\ j \in Nat
          /\ r[i] = q[i + 1] /\ r[j] = q[j + 1]
      BY <1>1
    <3>2. i + 1 = j + 1
      BY <2>1, <3>1 DEF SinRepetir
    <3> QED
      BY <3>1, <3>2
  <2> QED
    BY <2>1 DEF SinRepetir
<1>4. En(q, Head(q).id)
  BY <1>1 DEF En
<1> QED
  BY <1>1, <1>2, <1>3, <1>4 DEF r

LEMMA TailIdsIO ==
  ASSUME NEW q \in Seq(IO), q # <<>>, SinRepetirIO(q)
  PROVE  /\ Head(q) \in IO /\ Tail(q) \in Seq(IO)
         /\ EnIO(q, Head(q).pcb.id)
         /\ \A x : EnIO(Tail(q), x) <=> EnIO(q, x) /\ x # Head(q).pcb.id
         /\ SinRepetirIO(Tail(q))
<1> DEFINE r == Tail(q)
<1>1. /\ Len(q) \in Nat \ {0} /\ DOMAIN q = 1 .. Len(q)
      /\ DOMAIN r = 1 .. Len(q) - 1
      /\ \A i \in 1 .. Len(q) - 1 : r[i] = q[i + 1]
      /\ Head(q) = q[1] /\ Head(q) \in IO /\ r \in Seq(IO)
  BY HeadTailProperties
<1> HIDE DEF r
<1>2. ASSUME NEW x PROVE EnIO(r, x) <=> EnIO(q, x) /\ x # Head(q).pcb.id
  <2>1. ASSUME EnIO(r, x) PROVE EnIO(q, x) /\ x # Head(q).pcb.id
    <3>1. PICK i \in 1 .. Len(q) - 1 : q[i + 1].pcb.id = x
      BY <1>1, <2>1 DEF EnIO
    <3>2. i + 1 \in DOMAIN q /\ 1 \in DOMAIN q /\ i + 1 # 1
      BY <1>1
    <3> QED
      BY <1>1, <3>1, <3>2 DEF EnIO, SinRepetirIO
  <2>2. ASSUME EnIO(q, x), x # Head(q).pcb.id PROVE EnIO(r, x)
    <3>1. PICK j \in 1 .. Len(q) : q[j].pcb.id = x
      BY <1>1, <2>2 DEF EnIO
    <3>2. j - 1 \in 1 .. Len(q) - 1 /\ (j - 1) + 1 = j
      BY <1>1, <2>2, <3>1
    <3> QED
      BY <1>1, <3>1, <3>2 DEF EnIO
  <2> QED
    BY <2>1, <2>2
<1>3. SinRepetirIO(r)
  <2>1. ASSUME NEW i \in DOMAIN r, NEW j \in DOMAIN r, r[i].pcb.id = r[j].pcb.id
        PROVE  i = j
    <3>1. /\ i + 1 \in DOMAIN q /\ j + 1 \in DOMAIN q /\ i \in Nat /\ j \in Nat
          /\ r[i] = q[i + 1] /\ r[j] = q[j + 1]
      BY <1>1
    <3>2. i + 1 = j + 1
      BY <2>1, <3>1 DEF SinRepetirIO
    <3> QED
      BY <3>1, <3>2
  <2> QED
    BY <2>1 DEF SinRepetirIO
<1>4. EnIO(q, Head(q).pcb.id)
  BY <1>1 DEF EnIO
<1> QED
  BY <1>1, <1>2, <1>3, <1>4 DEF r


LEMMA QuitarIds ==
  ASSUME NEW q \in Seq(PCB), NEW id, SinRepetir(q)
  PROVE  /\ \A x : En(QuitarPorId(q, id), x) <=> En(q, x) /\ x # id
         /\ SinRepetir(QuitarPorId(q, id))
<1>1. CASE ~En(q, id)
  BY <1>1, QuitarPorIdProperties DEF En
<1>2. CASE En(q, id)
  <2>1. PICK k \in 1 .. Len(q) : q[k].id = id /\ QuitarPorId(q, id) = RemoveAt(q, k)
    BY <1>2, QuitarPorIdIndice DEF En
  <2> DEFINE r == QuitarPorId(q, id)
  <2>2. /\ Len(q) \in Nat /\ DOMAIN q = 1 .. Len(q) /\ k \in Nat
        /\ DOMAIN r = 1 .. Len(q) - 1
        /\ \A j \in 1 .. Len(q) - 1 : r[j] = IF j < k THEN q[j] ELSE q[j + 1]
    <3>1. Len(q) \in Nat /\ DOMAIN q = 1 .. Len(q) /\ k \in Nat
      OBVIOUS
    <3>2. /\ r = RemoveAt(q, k) /\ r \in Seq(PCB) /\ Len(r) = Len(q) - 1
          /\ \A j \in 1 .. Len(q) - 1 : r[j] = IF j < k THEN q[j] ELSE q[j + 1]
      BY <2>1, RemoveAtProperties
    <3> HIDE DEF r
    <3> QED
      BY <3>1, <3>2
  <2> HIDE DEF r
  <2> DEFINE f(j) == IF j < k THEN j ELSE j + 1
  <2>3. ASSUME NEW j \in 1 .. Len(q) - 1
        PROVE  f(j) \in DOMAIN q /\ f(j) # k /\ r[j] = q[f(j)]
    BY <2>2
  <2>4. ASSUME NEW x PROVE En(r, x) <=> En(q, x) /\ x # id
    <3>1. ASSUME En(r, x) PROVE En(q, x) /\ x # id
      <4>1. PICK j \in 1 .. Len(q) - 1 : r[j].id = x
        BY <2>2, <3>1 DEF En
      <4>2. f(j) \in DOMAIN q /\ f(j) # k /\ q[f(j)].id = x
        BY <2>3, <4>1
      <4> HIDE DEF f
      <4> QED
        BY <2>1, <2>2, <4>2 DEF En, SinRepetir
    <3>2. ASSUME En(q, x), x # id PROVE En(r, x)
      <4>1. PICK m \in 1 .. Len(q) : q[m].id = x
        BY <2>2, <3>2 DEF En
      <4>2. m \in Nat /\ m # k
        BY <2>1, <3>2, <4>1
      <4>3. CASE m < k
        <5>1. m \in 1 .. Len(q) - 1
          BY <2>2, <4>2, <4>3
        <5> QED
          BY <2>2, <4>1, <4>3, <5>1 DEF En
      <4>4. CASE m > k
        <5>1. m - 1 \in 1 .. Len(q) - 1 /\ ~(m - 1 < k) /\ (m - 1) + 1 = m
          BY <2>2, <4>2, <4>4
        <5>2. r[m - 1] = q[m]
          BY <2>2, <5>1
        <5> QED
          BY <2>2, <4>1, <5>1, <5>2 DEF En
      <4> QED
        BY <2>2, <4>2, <4>3, <4>4
    <3> QED
      BY <3>1, <3>2
  <2>5. SinRepetir(r)
    <3>1. SUFFICES ASSUME NEW i \in 1 .. Len(q) - 1, NEW j \in 1 .. Len(q) - 1,
                          r[i].id = r[j].id
                   PROVE  i = j
      BY <2>2 DEF SinRepetir
    <3>2. f(i) = f(j)
      <4>1. /\ f(i) \in DOMAIN q /\ f(j) \in DOMAIN q
            /\ q[f(i)].id = q[f(j)].id
        BY <2>3, <3>1
      <4> HIDE DEF f
      <4> QED
        BY <4>1 DEF SinRepetir
    <3> QED
      BY <2>2, <3>2
  <2> QED
    BY <2>4, <2>5 DEF r
<1> QED
  BY <1>1, <1>2

LEMMA sumarEsperaIds ==
  ASSUME NEW q \in Seq(IO), NEW ms \in Nat
  PROVE  /\ \A x : EnIO(sumarEspera(q, ms), x) <=> EnIO(q, x)
         /\ SinRepetirIO(q) => SinRepetirIO(sumarEspera(q, ms))
<1> DEFINE r == sumarEspera(q, ms)
<1>1. DOMAIN r = DOMAIN q
  BY DEF sumarEspera
<1>2. ASSUME NEW i \in DOMAIN q PROVE r[i].pcb = q[i].pcb
  <2>1. q[i] \in IO
    BY EnRango
  <2> QED
    BY <2>1 DEF sumarEspera, IO
<1> HIDE DEF r
<1> QED
  BY <1>1, <1>2 DEF EnIO, SinRepetirIO, r
-----------------------------------------------------------------------------
(* The invariant *)

\* A process that a thread holds is in no queue.
LEMMA SoloUno ==
  ASSUME TypeOK, Unicidad
  PROVE  /\ pcMain = "ingresar" /\ pcbMain.id \in Nat => ~En(estado_new, pcbMain.id)
         /\ TieneAready /\ pcbAready.id \in Nat => ~En(estado_ready, pcbAready.id)
         /\ pcExec = "esperar_cpu" /\ dispatch.pcb.id \in Nat =>
              ~En(estado_ready, dispatch.pcb.id) /\ ~EnIO(estado_blocked, dispatch.pcb.id)
         /\ TieneExec /\ pcbExec.id \in Nat => ~En(estado_ready, pcbExec.id)
         /\ TieneBlock /\ ultimoIO.pcb.id \in Nat =>
              ~En(estado_ready, ultimoIO.pcb.id) /\ ~En(estado_susp_ready, ultimoIO.pcb.id)
  BY DEF Unicidad, Copias, Contar

LEMMA UnicidadMain == TypeOK /\ Unicidad /\ Main => Unicidad'
<1> SUFFICES ASSUME TypeOK, Unicidad, Main PROVE Unicidad'
  OBVIOUS
<1>1. CASE manejarProceso
  <2>1. pcbMain'.id = id_nuevo_proceso /\ id_nuevo_proceso \in Nat
    BY <1>1 DEF manejarProceso, iniciarPcb, TypeOK
  <2>2. id_nuevo_proceso \notin consolas_conectadas
    BY <2>1 DEF Unicidad
  <2>3. \A x \in consolas_conectadas' : x < id_nuevo_proceso'
    BY <1>1, <2>1 DEF manejarProceso, Unicidad, TypeOK
  <2>4. ASSUME NEW x \in Nat
        PROVE  Copias(x)' = Contar(x \in consolas_conectadas)'
    BY <1>1, <2>1, <2>2, <2>3 DEF manejarProceso, Unicidad, Copias, Colas, TieneAready, TieneExec,
       TieneBlock, Contar
  <2> QED
    BY <1>1, <2>1, <2>2, <2>3, <2>4 DEF manejarProceso, Unicidad, Colas
<1>2. CASE ingresarANew
  <2>1. pcbMain \in PCB /\ pcbMain.id \in Nat /\ estado_new \in Seq(PCB)
    BY <1>2 DEF ingresarANew, TypeOK, PCB
  <2>2. ~En(estado_new, pcbMain.id)
    BY <1>2, <2>1, SoloUno DEF ingresarANew, TieneAready, TieneBlock
  <2>3. /\ \A x : En(estado_new', x) <=> En(estado_new, x) \/ x = pcbMain.id
        /\ SinRepetir(estado_new')
    BY <1>2, <2>1, <2>2, AppendIds DEF ingresarANew, Unicidad, Colas
  <2>4. ASSUME NEW x \in Nat
        PROVE  Copias(x)' = Contar(x \in consolas_conectadas)'
    BY <1>2, <2>3 DEF ingresarANew, Unicidad, Copias, Colas, TieneAready, TieneExec,
       TieneBlock, Contar
  <2> QED
    BY <1>2, <2>3, <2>4 DEF ingresarANew, Unicidad, Colas
<1>3. CASE ingresarANew_Post
  BY <1>3 DEF ingresarANew_Post, Unicidad, Copias, Colas, TieneAready, TieneExec,
       TieneBlock
<1> QED
  BY <1>1, <1>2, <1>3 DEF Main

LEMMA UnicidadAready == TypeOK /\ Unicidad /\ Aready => Unicidad'
<1> SUFFICES ASSUME TypeOK, Unicidad, Aready PROVE Unicidad'
  OBVIOUS
<1>1. CASE Aready_EsperarProceso
  BY <1>1 DEF Aready_EsperarProceso, Unicidad, Copias, Colas, TieneAready, TieneExec,
       TieneBlock
<1>2. CASE Aready_EsperarGrado
  BY <1>2 DEF Aready_EsperarGrado, Unicidad, Copias, Colas, TieneAready, TieneExec,
       TieneBlock
<1>3. CASE obtenerSiguienteAready_Elegir
  BY <1>3 DEF obtenerSiguienteAready_Elegir, Unicidad, Copias, Colas, TieneAready, TieneExec,
       TieneBlock
<1>4. CASE obtenerSiguienteAready_Susp
  <2>1. /\ En(estado_susp_ready, Head(estado_susp_ready).id)
        /\ \A x : En(estado_susp_ready', x) <=>
                    En(estado_susp_ready, x) /\ x # Head(estado_susp_ready).id
        /\ SinRepetir(estado_susp_ready')
    BY <1>4, TailIds DEF obtenerSiguienteAready_Susp, TypeOK, Unicidad, Colas
  <2>2. ASSUME NEW x \in Nat
        PROVE  Copias(x)' = Contar(x \in consolas_conectadas)'
    BY <1>4, <2>1 DEF obtenerSiguienteAready_Susp, Unicidad, Copias, Colas, TieneAready, TieneExec,
       TieneBlock, Contar
  <2> QED
    BY <1>4, <2>1, <2>2 DEF obtenerSiguienteAready_Susp, Unicidad, Colas
<1>5. CASE obtenerSiguienteAready_New
  <2>1. /\ En(estado_new, Head(estado_new).id)
        /\ \A x : En(estado_new', x) <=>
                    En(estado_new, x) /\ x # Head(estado_new).id
        /\ SinRepetir(estado_new')
    BY <1>5, TailIds DEF obtenerSiguienteAready_New, TypeOK, Unicidad, Colas
  <2>2. ASSUME NEW x \in Nat
        PROVE  Copias(x)' = Contar(x \in consolas_conectadas)'
    BY <1>5, <2>1 DEF obtenerSiguienteAready_New, Unicidad, Copias, Colas, TieneAready, TieneExec,
       TieneBlock, Contar
  <2> QED
    BY <1>5, <2>1, <2>2 DEF obtenerSiguienteAready_New, Unicidad, Colas
<1>6. CASE comunicacionMemoriaCreacionEstructuras
  BY <1>6 DEF comunicacionMemoriaCreacionEstructuras, Unicidad, Copias, Colas,
     TieneAready, TieneExec,
       TieneBlock
<1>7. CASE Aready_AgregarReady
  <2>1. pcbAready \in PCB /\ pcbAready.id \in Nat /\ estado_ready \in Seq(PCB)
    BY <1>7 DEF Aready_AgregarReady, TypeOK, PCB
  <2>2. ~En(estado_ready, pcbAready.id)
    BY <1>7, <2>1, SoloUno DEF Aready_AgregarReady, TieneAready, TieneBlock
  <2>3. /\ \A x : En(estado_ready', x) <=> En(estado_ready, x) \/ x = pcbAready.id
        /\ SinRepetir(estado_ready')
    BY <1>7, <2>1, <2>2, AppendIds DEF Aready_AgregarReady, Unicidad, Colas
  <2>4. ASSUME NEW x \in Nat
        PROVE  Copias(x)' = Contar(x \in consolas_conectadas)'
    BY <1>7, <2>3 DEF Aready_AgregarReady, Unicidad, Copias, Colas, TieneAready, TieneExec,
       TieneBlock, Contar
  <2> QED
    BY <1>7, <2>3, <2>4 DEF Aready_AgregarReady, Unicidad, Colas
<1>8. CASE Aready_Interrumpir
  BY <1>8 DEF Aready_Interrumpir, Unicidad, Copias, Colas, TieneAready, TieneExec,
       TieneBlock
<1>9. CASE Aready_PostReady
  BY <1>9 DEF Aready_PostReady, Unicidad, Copias, Colas, TieneAready, TieneExec,
       TieneBlock
<1> QED
  BY <1>1, <1>2, <1>3, <1>4, <1>5, <1>6, <1>7, <1>8, <1>9 DEF Aready

LEMMA UnicidadExec == TypeOK /\ Unicidad /\ readyAexec => Unicidad'
<1> SUFFICES ASSUME TypeOK, Unicidad, readyAexec PROVE Unicidad'
  OBVIOUS
<1>1. CASE readyAexec_EsperarReady
  BY <1>1 DEF readyAexec_EsperarReady, Unicidad, Copias, Colas, TieneAready, TieneExec,
       TieneBlock
<1>2. CASE planificacionFIFO
  <2>1. /\ En(estado_ready, Head(estado_ready).id)
        /\ \A x : En(estado_ready', x) <=>
                    En(estado_ready, x) /\ x # Head(estado_ready).id
        /\ SinRepetir(estado_ready')
    BY <1>2, TailIds DEF planificacionFIFO, TypeOK, Unicidad, Colas
  <2>2. ASSUME NEW x \in Nat
        PROVE  Copias(x)' = Contar(x \in consolas_conectadas)'
    BY <1>2, <2>1 DEF planificacionFIFO, Unicidad, Copias, Colas, TieneAready, TieneExec,
       TieneBlock, Contar
  <2> QED
    BY <1>2, <2>1, <2>2 DEF planificacionFIFO, Unicidad, Colas
<1>3. CASE planificacionSRT
  <2>1. IndiceSRT(estado_ready, id_pcb_ejecutando) \in DOMAIN estado_ready
    BY <1>3, IndiceSRTProperties DEF planificacionSRT, TypeOK
  <2>2. En(estado_ready, pcbExec'.id)
    BY <1>3, <2>1 DEF planificacionSRT, En
  <2>3. ASSUME NEW x \in Nat
        PROVE  Copias(x)' = Contar(x \in consolas_conectadas)'
    BY <1>3, <2>2 DEF planificacionSRT, Unicidad, Copias, Colas, TieneAready, TieneExec,
       TieneBlock, Contar
  <2> QED
    BY <1>3, <2>2, <2>3 DEF planificacionSRT, Unicidad, Colas
<1>4. CASE readyAexec_Quitar
  <2>1. /\ \A x : En(estado_ready', x) <=> En(estado_ready, x) /\ x # pcbExec.id
        /\ SinRepetir(estado_ready')
    BY <1>4, QuitarIds DEF readyAexec_Quitar, TypeOK, Unicidad, Colas
  <2>2. pcbExec.id \in Nat
    BY <1>4 DEF readyAexec_Quitar, TypeOK, PCB
  <2>3. ASSUME NEW x \in Nat
        PROVE  Copias(x)' = Contar(x \in consolas_conectadas)'
    BY <1>4, <2>1, <2>2 DEF readyAexec_Quitar, Unicidad, Copias, Colas, TieneAready, TieneExec,
       TieneBlock, Contar
  <2> QED
    BY <1>4, <2>1, <2>2, <2>3 DEF readyAexec_Quitar, Unicidad, Colas
<1>5. CASE ejecutarPCB
  BY <1>5 DEF ejecutarPCB, Unicidad, Copias, Colas, TieneAready, TieneExec,
       TieneBlock, Contar
<1>6. CASE ejecutarPCB_IO
  <2>1. dispatch.pcb \in PCB /\ dispatch.tiempoBloqueo \in Nat
    BY <1>6 DEF ejecutarPCB_IO, TypeOK, SinMensaje, Mensaje
  <2> DEFINE pcb == [dispatch.pcb EXCEPT
                       !.estimacionRafaga = EstimacionPromedio(dispatch.pcb)]
             io == [pcb |-> pcb, tiempoBloqueo |-> dispatch.tiempoBloqueo,
                    tiempoEspera |-> 0]
  <2>2. pcb \in PCB /\ pcb.id = dispatch.pcb.id /\ pcb.id \in Nat
    BY <2>1, EstimacionesNaturales, PcbConEstimacion DEF PCB
  <2>3. io \in IO /\ io.pcb.id = dispatch.pcb.id
    BY <2>1, <2>2 DEF IO
  <2>4. estado_blocked' = Append(estado_blocked, io)
    BY <1>6 DEF ejecutarPCB_IO
  <2> HIDE DEF pcb, io
  <2>5. ~EnIO(estado_blocked, io.pcb.id)
    BY <1>6, <2>2, <2>3, SoloUno DEF ejecutarPCB_IO
  <2>6. /\ \A x : EnIO(estado_blocked', x) <=>
                    EnIO(estado_blocked, x) \/ x = dispatch.pcb.id
        /\ SinRepetirIO(estado_blocked')
    BY <2>3, <2>4, <2>5, AppendIdsIO DEF TypeOK, Unicidad, Colas
  <2>7. ASSUME NEW x \in Nat
        PROVE  Copias(x)' = Contar(x \in consolas_conectadas)'
    BY <1>6, <2>6 DEF ejecutarPCB_IO, Unicidad, Copias, Colas, TieneAready, TieneExec,
       TieneBlock, Contar
  <2> QED
    BY <1>6, <2>6, <2>7 DEF ejecutarPCB_IO, Unicidad, Colas
<1>7. CASE ejecutarPCB_PostBlock
  BY <1>7 DEF ejecutarPCB_PostBlock, Unicidad, Copias, Colas, TieneAready, TieneExec,
       TieneBlock
<1>8. CASE ejecutarPCB_Interrupcion
  <2>1. dispatch.pcb \in PCB
    BY <1>8 DEF ejecutarPCB_Interrupcion, TypeOK, SinMensaje, Mensaje
  <2> DEFINE pcb == [dispatch.pcb EXCEPT
                       !.estimacionRafaga = EstimacionRestante(dispatch.pcb)]
  <2>2. pcb \in PCB /\ pcb.id = dispatch.pcb.id /\ pcb.id \in Nat
    BY <2>1, EstimacionesNaturales, PcbConEstimacion DEF PCB
  <2>3. estado_ready' = Append(estado_ready, pcb)
    BY <1>8 DEF ejecutarPCB_Interrupcion
  <2> HIDE DEF pcb
  <2>4. ~En(estado_ready, pcb.id)
    BY <1>8, <2>2, SoloUno DEF ejecutarPCB_Interrupcion
  <2>5. /\ \A x : En(estado_ready', x) <=>
                    En(estado_ready, x) \/ x = dispatch.pcb.id
        /\ SinRepetir(estado_ready')
    BY <2>2, <2>3, <2>4, AppendIds DEF TypeOK, Unicidad, Colas
  <2>6. ASSUME NEW x \in Nat
        PROVE  Copias(x)' = Contar(x \in consolas_conectadas)'
    BY <1>8, <2>5 DEF ejecutarPCB_Interrupcion, Unicidad, Copias, Colas, TieneAready, TieneExec,
       TieneBlock, Contar
  <2> QED
    BY <1>8, <2>5, <2>6 DEF ejecutarPCB_Interrupcion, Unicidad, Colas
<1>9. CASE ejecutarPCB_PostReady
  BY <1>9 DEF ejecutarPCB_PostReady, Unicidad, Copias, Colas, TieneAready, TieneExec,
       TieneBlock
<1>10. CASE execAexit_Finalizar
  BY <1>10 DEF execAexit_Finalizar, Unicidad, Copias, Colas, TieneAready, TieneExec,
       TieneBlock, Contar
<1>11. CASE execAexit_Notificar
  <2>1. pcbExec.id \in Nat
    BY <1>11 DEF execAexit_Notificar, TypeOK, PCB
  <2>2. ASSUME NEW x \in Nat
        PROVE  Copias(x)' = Contar(x \in consolas_conectadas)'
    BY <1>11, <2>1 DEF execAexit_Notificar, Unicidad, Copias, Colas, TieneAready, TieneExec,
       TieneBlock, Contar
  <2> QED
    BY <1>11, <2>1, <2>2 DEF execAexit_Notificar, Unicidad, Colas
<1>12. CASE execAexit_PostGrado
  BY <1>12 DEF execAexit_PostGrado, Unicidad, Copias, Colas, TieneAready, TieneExec,
       TieneBlock
<1> QED
  BY <1>1, <1>2, <1>3, <1>4, <1>5, <1>6, <1>7, <1>8, <1>9, <1>10, <1>11,
     <1>12 DEF readyAexec

LEMMA UnicidadBlock == TypeOK /\ Unicidad /\ hilo_block => Unicidad'
<1> SUFFICES ASSUME TypeOK, Unicidad, hilo_block PROVE Unicidad'
  OBVIOUS
<1>1. CASE hilo_block_Esperar
  BY <1>1 DEF hilo_block_Esperar, Unicidad, Copias, Colas, TieneAready, TieneExec,
       TieneBlock
<1>2. CASE hilo_block_Sacar
  <2>1. /\ EnIO(estado_blocked, Head(estado_blocked).pcb.id)
        /\ \A x : EnIO(estado_blocked', x) <=>
                    EnIO(estado_blocked, x) /\ x # Head(estado_blocked).pcb.id
        /\ SinRepetirIO(estado_blocked')
    BY <1>2, TailIdsIO DEF hilo_block_Sacar, TypeOK, Unicidad, Colas
  <2>2. ASSUME NEW x \in Nat
        PROVE  Copias(x)' = Contar(x \in consolas_conectadas)'
    BY <1>2, <2>1 DEF hilo_block_Sacar, Unicidad, Copias, Colas, TieneAready, TieneExec,
       TieneBlock, Contar
  <2> QED
    BY <1>2, <2>1, <2>2 DEF hilo_block_Sacar, Unicidad, Colas
<1>3. CASE hilo_block_SinSuspender
  BY <1>3 DEF hilo_block_SinSuspender, Unicidad, Copias, Colas, TieneAready, TieneExec,
       TieneBlock
<1>4. CASE hilo_block_SuspenderDespues
  BY <1>4 DEF hilo_block_SuspenderDespues, Unicidad, Copias, Colas, TieneAready, TieneExec,
       TieneBlock
<1>5. CASE hilo_block_SuspenderYa
  BY <1>5 DEF hilo_block_SuspenderYa, Unicidad, Copias, Colas, TieneAready, TieneExec,
       TieneBlock
<1>6. CASE hacerIO
  <2>1. /\ \A x : EnIO(estado_blocked', x) <=> EnIO(estado_blocked, x)
        /\ SinRepetirIO(estado_blocked')
    BY <1>6, sumarEsperaIds DEF hacerIO, TypeOK, Unicidad, Colas
  <2>2. ASSUME NEW x \in Nat
        PROVE  Copias(x)' = Contar(x \in consolas_conectadas)'
    BY <1>6, <2>1 DEF hacerIO, Unicidad, Copias, Colas, TieneAready, TieneExec,
       TieneBlock, Contar
  <2> QED
    BY <1>6, <2>1, <2>2 DEF hacerIO, Unicidad, Colas
<1>7. CASE hacerIO_HastaMaximo
  BY <1>7 DEF hacerIO_HastaMaximo, Unicidad, Copias, Colas, TieneAready, TieneExec,
       TieneBlock
<1>8. CASE comunicacionMemoriaSuspender
  BY <1>8 DEF comunicacionMemoriaSuspender, Unicidad, Copias, Colas, TieneAready, TieneExec,
       TieneBlock
<1>9. CASE hilo_block_PostGrado
  BY <1>9 DEF hilo_block_PostGrado, Unicidad, Copias, Colas, TieneAready, TieneExec,
       TieneBlock
<1>10. CASE addEstadoSuspReady
  <2>1. ultimoIO.pcb \in PCB /\ ultimoIO.pcb.id \in Nat /\ estado_susp_ready \in Seq(PCB)
    BY <1>10 DEF addEstadoSuspReady, TypeOK, PCB, IO
  <2>2. ~En(estado_susp_ready, ultimoIO.pcb.id)
    BY <1>10, <2>1, SoloUno DEF addEstadoSuspReady, TieneAready, TieneBlock
  <2>3. /\ \A x : En(estado_susp_ready', x) <=> En(estado_susp_ready, x) \/ x = ultimoIO.pcb.id
        /\ SinRepetir(estado_susp_ready')
    BY <1>10, <2>1, <2>2, AppendIds DEF addEstadoSuspReady, Unicidad, Colas
  <2>4. ASSUME NEW x \in Nat
        PROVE  Copias(x)' = Contar(x \in consolas_conectadas)'
    BY <1>10, <2>3 DEF addEstadoSuspReady, Unicidad, Copias, Colas, TieneAready, TieneExec,
       TieneBlock, Contar
  <2> QED
    BY <1>10, <2>3, <2>4 DEF addEstadoSuspReady, Unicidad, Colas
<1>11. CASE hilo_block_PostEsperando
  BY <1>11 DEF hilo_block_PostEsperando, Unicidad, Copias, Colas, TieneAready, TieneExec,
       TieneBlock
<1>12. CASE hilo_block_AgregarReady
  <2>1. ultimoIO.pcb \in PCB /\ ultimoIO.pcb.id \in Nat /\ estado_ready \in Seq(PCB)
    BY <1>12 DEF hilo_block_AgregarReady, TypeOK, PCB, IO
  <2>2. ~En(estado_ready, ultimoIO.pcb.id)
    BY <1>12, <2>1, SoloUno DEF hilo_block_AgregarReady, TieneAready, TieneBlock
  <2>3. /\ \A x : En(estado_ready', x) <=> En(estado_ready, x) \/ x = ultimoIO.pcb.id
        /\ SinRepetir(estado_ready')
    BY <1>12, <2>1, <2>2, AppendIds DEF hilo_block_AgregarReady, Unicidad, Colas
  <2>4. ASSUME NEW x \in Nat
        PROVE  Copias(x)' = Contar(x \in consolas_conectadas)'
    BY <1>12, <2>3 DEF hilo_block_AgregarReady, Unicidad, Copias, Colas, TieneAready, TieneExec,
       TieneBlock, Contar
  <2> QED
    BY <1>12, <2>3, <2>4 DEF hilo_block_AgregarReady, Unicidad, Colas
<1>13. CASE hilo_block_Interrumpir
  BY <1>13 DEF hilo_block_Interrumpir, Unicidad, Copias, Colas, TieneAready, TieneExec,
       TieneBlock
<1>14. CASE hilo_block_PostReady
  BY <1>14 DEF hilo_block_PostReady, Unicidad, Copias, Colas, TieneAready, TieneExec,
       TieneBlock
<1> QED
  BY <1>1, <1>2, <1>3, <1>4, <1>5, <1>6, <1>7, <1>8, <1>9, <1>10, <1>11,
     <1>12, <1>13, <1>14 DEF hilo_block

LEMMA UnicidadCpu ==
  TypeOK /\ Unicidad /\ (CpuResponde \/ CpuLeeInterrupcion) => Unicidad'
<1> SUFFICES ASSUME TypeOK, Unicidad, CpuResponde \/ CpuLeeInterrupcion PROVE Unicidad'
  OBVIOUS
<1>1. CASE CpuResponde
  <2>1. dispatch.pcb \in PCB
    BY <1>1 DEF CpuResponde, TypeOK, SinMensaje, Mensaje
  <2>2. dispatch'.pcb.id = dispatch.pcb.id
    BY <1>1, <2>1, RespuestaProperties DEF CpuResponde
  <2>3. ASSUME NEW x \in Nat
        PROVE  Copias(x)' = Contar(x \in consolas_conectadas)'
    BY <1>1, <2>2 DEF CpuResponde, Unicidad, Copias, Colas, TieneAready, TieneExec,
       TieneBlock, Contar
  <2> QED
    BY <1>1, <2>2, <2>3 DEF CpuResponde, Unicidad, Colas
<1>2. CASE CpuLeeInterrupcion
  BY <1>2 DEF CpuLeeInterrupcion, Unicidad, Copias, Colas, TieneAready, TieneExec,
       TieneBlock
<1> QED
  BY <1>1, <1>2

\* In every reachable state each PCB is in one place, and the places hold
\* exactly the processes whose console is still waiting.
THEOREM Conservacion == Spec => []Unicidad
<1>1. Init => Unicidad
  <2>1. ASSUME Init, NEW x \in Nat
        PROVE  Copias(x) = 0 /\ Contar(x \in consolas_conectadas) = 0
    BY <2>1 DEF Init, Copias, Contar, En, EnIO, TieneAready, TieneExec, TieneBlock
  <2>2. Init => Colas
    BY DEF Init, Colas, SinRepetir, SinRepetirIO
  <2> QED
    BY <2>1, <2>2 DEF Init, Unicidad
<1>2. TypeOK /\ Unicidad /\ [Next]_vars => Unicidad'
  <2>1. Unicidad /\ UNCHANGED vars => Unicidad'
    BY DEF vars, Unicidad, Copias, Colas, TieneAready, TieneExec,
       TieneBlock
  <2> QED
    BY <2>1, UnicidadMain, UnicidadAready, UnicidadExec, UnicidadBlock,
       UnicidadCpu DEF Next
<1> QED
  BY <1>1, <1>2, TipoCorrecto, PTL DEF Spec

-----------------------------------------------------------------------------
(* From the count of copies to the property the runs check: the sequence of *)
(* all the ids the kernel holds has no repetition, and its elements are the *)
(* consoles still waiting.                                                  *)

\* s lists the naturals that satisfy P, given as a set, each of them once.
Lista(s, P) == s \in Seq(Nat) /\ IsInjective(s) /\ ToSet(s) = P

LEMMA ListaConcat ==
  ASSUME NEW s, NEW t, NEW P, NEW Q, Lista(s, P), Lista(t, Q), P \cap Q = {}
  PROVE  Lista(s \o t, P \cup Q)
<1> DEFINE r == s \o t
<1>1. /\ s \in Seq(Nat) /\ t \in Seq(Nat)
      /\ Len(s) \in Nat /\ Len(t) \in Nat
      /\ DOMAIN s = 1 .. Len(s) /\ DOMAIN t = 1 .. Len(t)
  BY DEF Lista
<1>2. /\ r \in Seq(Nat) /\ DOMAIN r = 1 .. Len(s) + Len(t)
      /\ \A i \in 1 .. Len(s) + Len(t) :
           r[i] = IF i <= Len(s) THEN s[i] ELSE t[i - Len(s)]
  BY <1>1, ConcatProperties
<1> HIDE DEF r
<1>3. ASSUME NEW i \in DOMAIN r
      PROVE  \/ i \in DOMAIN s /\ r[i] = s[i] /\ r[i] \in P
             \/ i - Len(s) \in DOMAIN t /\ r[i] = t[i - Len(s)] /\ r[i] \in Q
  <2>1. i \in Nat
    BY <1>1, <1>2
  <2>2. CASE i <= Len(s)
    BY <1>1, <1>2, <2>1, <2>2 DEF Lista, ToSet
  <2>3. CASE ~(i <= Len(s))
    <3>1. i - Len(s) \in 1 .. Len(t)
      BY <1>1, <1>2, <2>1, <2>3
    <3> QED
      BY <1>1, <1>2, <2>3, <3>1 DEF Lista, ToSet
  <2> QED
    BY <2>2, <2>3
<1>4. IsInjective(r)
  <2>1. SUFFICES ASSUME NEW i \in DOMAIN r, NEW j \in DOMAIN r, r[i] = r[j]
                 PROVE  i = j
    BY DEF IsInjective
  <2>2. i \in Nat /\ j \in Nat
    BY <1>1, <1>2
  <2>3. CASE i \in DOMAIN s /\ j \in DOMAIN s /\ s[i] = s[j]
    BY <2>3 DEF Lista, IsInjective
  <2>4. CASE /\ i - Len(s) \in DOMAIN t /\ j - Len(s) \in DOMAIN t
             /\ t[i - Len(s)] = t[j - Len(s)]
    <3>1. i - Len(s) = j - Len(s)
      BY <2>4 DEF Lista, IsInjective
    <3> QED
      BY <1>1, <2>2, <3>1
  <2> QED
    BY <1>3, <2>1, <2>3, <2>4
<1>5. ToSet(r) = P \cup Q
  <2>1. ToSet(r) \subseteq P \cup Q
    BY <1>3 DEF ToSet
  <2>2. ASSUME NEW x \in P PROVE x \in ToSet(r)
    <3>1. PICK i \in DOMAIN s : s[i] = x
      BY DEF Lista, ToSet
    <3>2. i \in 1 .. Len(s) + Len(t) /\ i <= Len(s)
      BY <1>1
    <3> QED
      BY <1>2, <3>1, <3>2 DEF ToSet
  <2>3. ASSUME NEW x \in Q PROVE x \in ToSet(r)
    <3>1. PICK i \in DOMAIN t : t[i] = x
      BY DEF Lista, ToSet
    <3>2. /\ i + Len(s) \in 1 .. Len(s) + Len(t) /\ ~(i + Len(s) <= Len(s))
          /\ (i + Len(s)) - Len(s) = i
      BY <1>1
    <3>3. r[i + Len(s)] = t[(i + Len(s)) - Len(s)]
      BY <1>2, <3>2
    <3>4. r[i + Len(s)] = x /\ i + Len(s) \in DOMAIN r
      BY <1>2, <3>1, <3>2, <3>3
    <3> QED
      BY <3>4 DEF ToSet
  <2> QED
    BY <2>1, <2>2, <2>3
<1> QED
  BY <1>2, <1>4, <1>5 DEF Lista, r

LEMMA ListaCardinal ==
  ASSUME NEW s, NEW P, Lista(s, P)
  PROVE  IsFiniteSet(P) /\ Cardinality(P) = Len(s)
<1>1. s \in Seq(Nat) /\ Len(s) \in Nat /\ DOMAIN s = 1 .. Len(s)
  BY DEF Lista
<1>2. s \in Bijection(1 .. Len(s), P)
  BY <1>1 DEF Lista, ToSet, Bijection, Injection, Surjection
<1>3. IsFiniteSet(1 .. Len(s)) /\ Cardinality(1 .. Len(s)) = Len(s)
  <2>1. 1 \in Int /\ Len(s) \in Int
    BY <1>1
  <2>2. /\ IsFiniteSet(1 .. Len(s))
        /\ Cardinality(1 .. Len(s)) = IF 1 > Len(s) THEN 0 ELSE Len(s) - 1 + 1
    BY <2>1, FS_Interval, Zenon
  <2> QED BY <1>1, <2>2
<1>4. ExistsBijection(1 .. Len(s), P)
  BY <1>2 DEF ExistsBijection
<1> QED
  BY <1>3, <1>4, FS_Bijection

LEMMA ListaIds ==
  ASSUME NEW q \in Seq(PCB), SinRepetir(q)
  PROVE  Lista(Ids(q), {x \in Nat : En(q, x)})
<1>1. ASSUME NEW i \in DOMAIN q PROVE q[i].id \in Nat
  <2>1. q[i] \in PCB
    BY EnRango
  <2> QED
    BY <2>1 DEF PCB
<1>2. Len(q) \in Nat /\ DOMAIN q = 1 .. Len(q)
  OBVIOUS
<1>3. Ids(q) \in [1 .. Len(q) -> Nat]
  BY <1>1, <1>2 DEF Ids
<1>4. Ids(q) \in Seq(Nat)
  <2> HIDE DEF Ids
  <2> QED
    BY <1>2, <1>3
<1>5. IsInjective(Ids(q))
  BY DEF SinRepetir, IsInjective, Ids
<1>6. ToSet(Ids(q)) = {x \in Nat : En(q, x)}
  BY <1>1 DEF ToSet, Ids, En
<1> QED
  BY <1>4, <1>5, <1>6 DEF Lista

LEMMA ListaIdSi ==
  ASSUME NEW b \in BOOLEAN, NEW pcb, b => pcb.id \in Nat
  PROVE  Lista(IdSi(b, pcb), {x \in Nat : b /\ pcb.id = x})
  BY DEF Lista, IdSi, IsInjective, ToSet

IdsBloqueados == [i \in DOMAIN estado_blocked |-> estado_blocked[i].pcb.id]

LEMMA ListaBloqueados ==
  ASSUME estado_blocked \in Seq(IO), SinRepetirIO(estado_blocked)
  PROVE  Lista(IdsBloqueados, {x \in Nat : EnIO(estado_blocked, x)})
<1>1. ASSUME NEW i \in DOMAIN estado_blocked
      PROVE  estado_blocked[i].pcb.id \in Nat
  <2>1. estado_blocked[i] \in IO
    BY EnRango
  <2> QED
    BY <2>1 DEF IO, PCB
<1>2. /\ Len(estado_blocked) \in Nat
      /\ DOMAIN estado_blocked = 1 .. Len(estado_blocked)
  OBVIOUS
<1>3. IdsBloqueados \in [1 .. Len(estado_blocked) -> Nat]
  BY <1>1, <1>2 DEF IdsBloqueados
<1>4. IdsBloqueados \in Seq(Nat)
  BY <1>2, <1>3
<1>5. IsInjective(IdsBloqueados)
  BY DEF SinRepetirIO, IsInjective, IdsBloqueados
<1>6. ToSet(IdsBloqueados) = {x \in Nat : EnIO(estado_blocked, x)}
  BY <1>1 DEF ToSet, IdsBloqueados, EnIO
<1> QED
  BY <1>4, <1>5, <1>6 DEF Lista

\* The ids of one place, of two places, and so on.
LEMMA UnicidadImplica == TypeOK /\ Unicidad => UnaCopiaPorConsola
<1> SUFFICES ASSUME TypeOK, Unicidad PROVE UnaCopiaPorConsola
  OBVIOUS
<1> DEFINE P1 == {x \in Nat : En(estado_new, x)}
           P2 == {x \in Nat : En(estado_ready, x)}
           P3 == {x \in Nat : En(estado_susp_ready, x)}
           P4 == {x \in Nat : EnIO(estado_blocked, x)}
           P5 == {x \in Nat : pcMain = "ingresar" /\ pcbMain.id = x}
           P6 == {x \in Nat : TieneAready /\ pcbAready.id = x}
           P7 == {x \in Nat : TieneExec /\ pcbExec.id = x}
           P8 == {x \in Nat : pcExec = "esperar_cpu" /\ dispatch.pcb.id = x}
           P9 == {x \in Nat : TieneBlock /\ ultimoIO.pcb.id = x}
<1>1. /\ Lista(Ids(estado_new), P1) /\ Lista(Ids(estado_ready), P2)
      /\ Lista(Ids(estado_susp_ready), P3)
  BY ListaIds DEF TypeOK, Unicidad, Colas
<1>2. Lista(IdsBloqueados, P4)
  BY ListaBloqueados DEF TypeOK, Unicidad, Colas
<1>3. Lista(IdSi(pcMain = "ingresar", pcbMain), P5)
  <2>1. pcMain = "ingresar" => pcbMain.id \in Nat
    BY DEF TypeOK, PCB
  <2> QED
    BY <2>1, ListaIdSi
<1>4. Lista(IdSi(TieneAready, pcbAready), P6)
  <2>1. TieneAready \in BOOLEAN /\ (TieneAready => pcbAready.id \in Nat)
    BY DEF TypeOK, PCB, TieneAready
  <2> QED
    BY <2>1, ListaIdSi
<1>5. Lista(IdSi(TieneExec, pcbExec), P7)
  <2>1. TieneExec \in BOOLEAN /\ (TieneExec => pcbExec.id \in Nat)
    BY DEF TypeOK, PCB, TieneExec
  <2> QED
    BY <2>1, ListaIdSi
<1>6. Lista(IdSi(pcExec = "esperar_cpu", dispatch.pcb), P8)
  <2>1. dispatch.pcb.id \in Nat
    BY DEF TypeOK, Mensaje, SinMensaje, SinPcb, PCB
  <2> QED
    BY <2>1, ListaIdSi
<1>7. Lista(IdSi(TieneBlock, ultimoIO.pcb), P9)
  <2>1. TieneBlock \in BOOLEAN /\ (TieneBlock => ultimoIO.pcb.id \in Nat)
    BY DEF TypeOK, IO, PCB, TieneBlock
  <2> QED
    BY <2>1, ListaIdSi
<1>8. ASSUME NEW x \in Nat
      PROVE  Contar(x \in P1) + Contar(x \in P2) + Contar(x \in P3)
               + Contar(x \in P4) + Contar(x \in P5) + Contar(x \in P6)
               + Contar(x \in P7) + Contar(x \in P8) + Contar(x \in P9)
               = Contar(x \in consolas_conectadas)
  <2>1. Copias(x) = Contar(x \in consolas_conectadas)
    BY DEF Unicidad
  <2>2. /\ Contar(x \in P1) = Contar(En(estado_new, x))
        /\ Contar(x \in P2) = Contar(En(estado_ready, x))
        /\ Contar(x \in P3) = Contar(En(estado_susp_ready, x))
        /\ Contar(x \in P4) = Contar(EnIO(estado_blocked, x))
        /\ Contar(x \in P5) = Contar(pcMain = "ingresar" /\ pcbMain.id = x)
        /\ Contar(x \in P6) = Contar(TieneAready /\ pcbAready.id = x)
        /\ Contar(x \in P7) = Contar(TieneExec /\ pcbExec.id = x)
        /\ Contar(x \in P8) = Contar(pcExec = "esperar_cpu" /\ dispatch.pcb.id = x)
        /\ Contar(x \in P9) = Contar(TieneBlock /\ ultimoIO.pcb.id = x)
    BY DEF Contar
  <2> HIDE DEF P1, P2, P3, P4, P5, P6, P7, P8, P9
  <2> QED
    BY <2>1, <2>2 DEF Copias
<1>9. P1 \subseteq Nat /\ P2 \subseteq Nat /\ P3 \subseteq Nat /\ P4 \subseteq Nat
      /\ P5 \subseteq Nat /\ P6 \subseteq Nat /\ P7 \subseteq Nat /\ P8 \subseteq Nat
      /\ P9 \subseteq Nat /\ consolas_conectadas \subseteq Nat
  BY DEF TypeOK
<1> HIDE DEF P1, P2, P3, P4, P5, P6, P7, P8, P9
<1>10. /\ P1 \cap P2 = {}
       /\ (P1 \cup P2) \cap P3 = {}
       /\ (P1 \cup P2 \cup P3) \cap P4 = {}
       /\ (P1 \cup P2 \cup P3 \cup P4) \cap P5 = {}
  BY <1>8, <1>9 DEF Contar
<1>11. /\ (P1 \cup P2 \cup P3 \cup P4 \cup P5) \cap P6 = {}
       /\ (P1 \cup P2 \cup P3 \cup P4 \cup P5 \cup P6) \cap P7 = {}
       /\ (P1 \cup P2 \cup P3 \cup P4 \cup P5 \cup P6 \cup P7) \cap P8 = {}
       /\ (P1 \cup P2 \cup P3 \cup P4 \cup P5 \cup P6 \cup P7 \cup P8) \cap P9 = {}
  BY <1>8, <1>9 DEF Contar
<1>12. P1 \cup P2 \cup P3 \cup P4 \cup P5 \cup P6 \cup P7 \cup P8 \cup P9
         = consolas_conectadas
  <2>1. ASSUME NEW x \in Nat
        PROVE  x \in consolas_conectadas <=>
                 x \in P1 \cup P2 \cup P3 \cup P4 \cup P5 \cup P6 \cup P7 \cup P8 \cup P9
    BY <1>8 DEF Contar
  <2> QED
    BY <1>9, <2>1
<1>13. Lista(Ids(estado_new) \o Ids(estado_ready) \o Ids(estado_susp_ready)
               \o IdsBloqueados, P1 \cup P2 \cup P3 \cup P4)
  BY <1>1, <1>2, <1>10, ListaConcat
<1> DEFINE q4 == Ids(estado_new) \o Ids(estado_ready) \o Ids(estado_susp_ready)
                   \o IdsBloqueados
           i5 == IdSi(pcMain = "ingresar", pcbMain)
           i6 == IdSi(TieneAready, pcbAready)
           i7 == IdSi(TieneExec, pcbExec)
           i8 == IdSi(pcExec = "esperar_cpu", dispatch.pcb)
           i9 == IdSi(TieneBlock, ultimoIO.pcb)
<1>14. Lista(Todos, consolas_conectadas)
  <2>1. Todos = q4 \o i5 \o i6 \o i7 \o i8 \o i9
    BY DEF Todos, IdsBloqueados
  <2>2. Lista(q4, P1 \cup P2 \cup P3 \cup P4)
    BY <1>13
  <2>3. /\ Lista(i5, P5) /\ Lista(i6, P6) /\ Lista(i7, P7) /\ Lista(i8, P8)
        /\ Lista(i9, P9)
    BY <1>3, <1>4, <1>5, <1>6, <1>7
  <2> HIDE DEF q4, i5, i6, i7, i8, i9
  <2>4. Lista(q4 \o i5, P1 \cup P2 \cup P3 \cup P4 \cup P5)
    BY <1>10, <2>2, <2>3, ListaConcat
  <2>5. Lista(q4 \o i5 \o i6, P1 \cup P2 \cup P3 \cup P4 \cup P5 \cup P6)
    BY <1>11, <2>3, <2>4, ListaConcat
  <2>6. Lista(q4 \o i5 \o i6 \o i7, P1 \cup P2 \cup P3 \cup P4 \cup P5 \cup P6 \cup P7)
    BY <1>11, <2>3, <2>5, ListaConcat
  <2>7. Lista(q4 \o i5 \o i6 \o i7 \o i8,
              P1 \cup P2 \cup P3 \cup P4 \cup P5 \cup P6 \cup P7 \cup P8)
    BY <1>11, <2>3, <2>6, ListaConcat
  <2>8. Lista(q4 \o i5 \o i6 \o i7 \o i8 \o i9,
              P1 \cup P2 \cup P3 \cup P4 \cup P5 \cup P6 \cup P7 \cup P8 \cup P9)
    BY <1>11, <2>3, <2>7, ListaConcat
  <2> QED BY <1>12, <2>1, <2>8
<1> QED
  BY <1>14, ListaCardinal DEF UnaCopiaPorConsola, Lista

\* No process is lost or duplicated by the four threads, whatever the number
\* of consoles, the programs and the interleaving: the property the runs
\* check on three processes, for any number of them.
THEOREM SinPerdidas == Spec => []UnaCopiaPorConsola
  BY TipoCorrecto, Conservacion, UnicidadImplica, PTL

\* A console is released by the EXIT of its own process only, and only once.
THEOREM SalidaUnica == Spec => []ConsolasPorExit
<1>1. Init => ConsolasPorExit
  BY DEF Init, ConsolasPorExit
<1>2. TypeOK /\ ConsolasPorExit /\ [Next]_vars => ConsolasPorExit'
  <2> SUFFICES ASSUME TypeOK, ConsolasPorExit, [Next]_vars
               PROVE  ConsolasPorExit'
    OBVIOUS
  <2>1. CASE manejarProceso
    BY <2>1 DEF manejarProceso, ConsolasPorExit, TypeOK
  <2>2. CASE execAexit_Notificar
    BY <2>2 DEF execAexit_Notificar, ConsolasPorExit, TypeOK
  <2>3. ASSUME ~manejarProceso, ~execAexit_Notificar
        PROVE  UNCHANGED <<consolas_conectadas, notificadas, id_nuevo_proceso>>
    <3>1. ASSUME Main
          PROVE  UNCHANGED <<consolas_conectadas, notificadas, id_nuevo_proceso>>
      BY <2>3, <3>1 DEF Main, ingresarANew, ingresarANew_Post
    <3>2. ASSUME Aready
          PROVE  UNCHANGED <<consolas_conectadas, notificadas, id_nuevo_proceso>>
      BY <3>2 DEF Aready, Aready_EsperarProceso, Aready_EsperarGrado,
         obtenerSiguienteAready_Elegir, obtenerSiguienteAready_Susp,
         obtenerSiguienteAready_New, comunicacionMemoriaCreacionEstructuras,
         Aready_AgregarReady, Aready_Interrumpir, Aready_PostReady
    <3>3. ASSUME readyAexec
          PROVE  UNCHANGED <<consolas_conectadas, notificadas, id_nuevo_proceso>>
      BY <2>3, <3>3 DEF readyAexec, readyAexec_EsperarReady, planificacionFIFO,
         planificacionSRT, readyAexec_Quitar, ejecutarPCB, ejecutarPCB_IO,
         ejecutarPCB_PostBlock, ejecutarPCB_Interrupcion, ejecutarPCB_PostReady,
         execAexit_Finalizar, execAexit_PostGrado
    <3>4. ASSUME hilo_block
          PROVE  UNCHANGED <<consolas_conectadas, notificadas, id_nuevo_proceso>>
      BY <3>4 DEF hilo_block, hilo_block_Esperar, hilo_block_Sacar,
         hilo_block_SinSuspender, hilo_block_SuspenderDespues,
         hilo_block_SuspenderYa, hacerIO, hacerIO_HastaMaximo,
         comunicacionMemoriaSuspender, hilo_block_PostGrado, addEstadoSuspReady,
         hilo_block_PostEsperando, hilo_block_AgregarReady,
         hilo_block_Interrumpir, hilo_block_PostReady
    <3>5. ASSUME CpuResponde \/ CpuLeeInterrupcion
          PROVE  UNCHANGED <<consolas_conectadas, notificadas, id_nuevo_proceso>>
      BY <3>5 DEF CpuResponde, CpuLeeInterrupcion
    <3>6. ASSUME UNCHANGED vars
          PROVE  UNCHANGED <<consolas_conectadas, notificadas, id_nuevo_proceso>>
      BY <3>6 DEF vars
    <3> QED
      BY <3>1, <3>2, <3>3, <3>4, <3>5, <3>6 DEF Next
  <2> QED
    BY <2>1, <2>2, <2>3 DEF ConsolasPorExit
<1> QED
  BY <1>1, <1>2, TipoCorrecto, PTL DEF Spec
-----------------------------------------------------------------------------
\* The counting semaphores of the kernel count: no thread reaches a queue it
\* finds empty, and the degree of multiprogramming is never exceeded.

\* The choice Aready has made and not carried out yet stays good: nobody else
\* takes from the queue it chose.
EleccionVigente ==
  /\ pcAready = "sacar_susp" => estado_susp_ready # <<>>
  /\ pcAready = "sacar_new" => estado_new # <<>>

\* The inductive invariant.
Cuentas ==
  /\ SemaforosCuentan
  /\ GradoRespetado
  /\ EleccionVigente

LEMMA Longitudes ==
  TypeOK => /\ Len(estado_new) \in Nat /\ Len(estado_ready) \in Nat
            /\ Len(estado_susp_ready) \in Nat /\ Len(estado_blocked) \in Nat
            /\ sem_hay_pcb_esperando_ready \in Nat
            /\ sem_multiprogramacion \in Nat
            /\ sem_ready \in Nat /\ sem_block \in Nat
            /\ (estado_new = <<>> <=> Len(estado_new) = 0)
            /\ (estado_ready = <<>> <=> Len(estado_ready) = 0)
            /\ (estado_susp_ready = <<>> <=> Len(estado_susp_ready) = 0)
            /\ (estado_blocked = <<>> <=> Len(estado_blocked) = 0)
  BY EmptySeq DEF TypeOK

LEMMA LongitudAppend ==
  ASSUME NEW T, NEW q \in Seq(T), NEW e \in T
  PROVE  Len(Append(q, e)) = Len(q) + 1 /\ Append(q, e) # <<>>
  BY AppendProperties

\* What a thread adds to a queue has the type of the queue.
LEMMA ElementosAgregados ==
  TypeOK => /\ ultimoIO \in IO => ultimoIO.pcb \in PCB
            /\ dispatch \in Mensaje =>
                 /\ dispatch.pcb \in PCB
                 /\ [dispatch.pcb EXCEPT
                       !.estimacionRafaga = EstimacionRestante(dispatch.pcb)]
                      \in PCB
                 /\ [pcb |-> [dispatch.pcb EXCEPT !.estimacionRafaga =
                                EstimacionPromedio(dispatch.pcb)],
                     tiempoBloqueo |-> dispatch.tiempoBloqueo,
                     tiempoEspera |-> 0] \in IO
<1>1. ultimoIO \in IO => ultimoIO.pcb \in PCB
  BY DEF IO
<1>2. dispatch \in Mensaje => dispatch.pcb \in PCB /\ dispatch.tiempoBloqueo \in Nat
  BY DEF Mensaje
<1> QED
  BY <1>1, <1>2, EstimacionesNaturales, PcbConEstimacion DEF IO

LEMMA LongitudTail ==
  ASSUME NEW T, NEW q \in Seq(T), q # <<>>
  PROVE  Len(Tail(q)) = Len(q) - 1
  OBVIOUS

LEMMA CuentasMain ==
  TypeOK /\ Unicidad /\ Cuentas /\ Main => Cuentas'
<1> SUFFICES ASSUME TypeOK, Unicidad, Cuentas, Main
             PROVE  Cuentas'
  OBVIOUS
<1>0. /\ ReadyExacto /\ EsperandoExacto /\ BlockExacto
      /\ GradoRespetado /\ EleccionVigente
  BY DEF Cuentas, SemaforosCuentan
<1>1. CASE manejarProceso
  <2>1. ReadyExacto'
    BY <1>1, Longitudes, <1>0, SMTT(20)
       DEF manejarProceso, ReadyExacto, ReadyPendientes, Contar
  <2>2. EsperandoExacto'
    BY <1>1, Longitudes, <1>0, SMTT(20)
       DEF manejarProceso, EsperandoExacto, EsperandoPendientes, Contar
  <2>3. BlockExacto'
    BY <1>1, Longitudes, <1>0, SMTT(20)
       DEF manejarProceso, BlockExacto, BlockPendientes, Contar
  <2>4. GradoRespetado'
    BY <1>1, Longitudes, <1>0, SMTT(20)
       DEF manejarProceso, GradoRespetado, EnMemoria, TieneAready, TieneExec, TieneBlock,
         Contar
  <2>5. EleccionVigente'
    BY <1>1, Longitudes, <1>0, SMTT(20)
       DEF manejarProceso, EleccionVigente
  <2> QED
    BY <2>1, <2>2, <2>3, <2>4, <2>5 DEF Cuentas, SemaforosCuentan
<1>2. CASE ingresarANew
  <2>1. Len(estado_new') = Len(estado_new) + 1 /\ estado_new' # <<>>
    BY <1>2, LongitudAppend, ElementosAgregados DEF ingresarANew, TypeOK
  <2>2. ReadyExacto'
    BY <1>2, <2>1, Longitudes, <1>0, SMTT(20)
       DEF ingresarANew, ReadyExacto, ReadyPendientes, Contar
  <2>3. EsperandoExacto'
    BY <1>2, <2>1, Longitudes, <1>0, SMTT(20)
       DEF ingresarANew, EsperandoExacto, EsperandoPendientes, Contar
  <2>4. BlockExacto'
    BY <1>2, <2>1, Longitudes, <1>0, SMTT(20)
       DEF ingresarANew, BlockExacto, BlockPendientes, Contar
  <2>5. GradoRespetado'
    BY <1>2, <2>1, Longitudes, <1>0, SMTT(20)
       DEF ingresarANew, GradoRespetado, EnMemoria, TieneAready, TieneExec, TieneBlock,
         Contar
  <2>6. EleccionVigente'
    BY <1>2, <2>1, Longitudes, <1>0, SMTT(20)
       DEF ingresarANew, EleccionVigente
  <2> QED
    BY <2>2, <2>3, <2>4, <2>5, <2>6 DEF Cuentas, SemaforosCuentan
<1>3. CASE ingresarANew_Post
  <2>1. ReadyExacto'
    BY <1>3, Longitudes, <1>0, SMTT(20)
       DEF ingresarANew_Post, ReadyExacto, ReadyPendientes, Contar
  <2>2. EsperandoExacto'
    BY <1>3, Longitudes, <1>0, SMTT(30)
       DEF ingresarANew_Post, EsperandoExacto, EsperandoPendientes, Contar
  <2>3. BlockExacto'
    BY <1>3, Longitudes, <1>0, SMTT(20)
       DEF ingresarANew_Post, BlockExacto, BlockPendientes, Contar
  <2>4. GradoRespetado'
    BY <1>3, Longitudes, <1>0, SMTT(20)
       DEF ingresarANew_Post, GradoRespetado, EnMemoria, TieneAready, TieneExec, TieneBlock,
         Contar
  <2>5. EleccionVigente'
    BY <1>3, Longitudes, <1>0, SMTT(20)
       DEF ingresarANew_Post, EleccionVigente
  <2> QED
    BY <2>1, <2>2, <2>3, <2>4, <2>5 DEF Cuentas, SemaforosCuentan
<1> QED
  BY <1>1, <1>2, <1>3 DEF Main

LEMMA CuentasAready ==
  TypeOK /\ Unicidad /\ Cuentas /\ Aready => Cuentas'
<1> SUFFICES ASSUME TypeOK, Unicidad, Cuentas, Aready
             PROVE  Cuentas'
  OBVIOUS
<1>0. /\ ReadyExacto /\ EsperandoExacto /\ BlockExacto
      /\ GradoRespetado /\ EleccionVigente
  BY DEF Cuentas, SemaforosCuentan
<1>1. CASE Aready_EsperarProceso
  <2>1. ReadyExacto'
    BY <1>1, Longitudes, <1>0, SMTT(20)
       DEF Aready_EsperarProceso, ReadyExacto, ReadyPendientes, Contar
  <2>2. EsperandoExacto'
    BY <1>1, Longitudes, <1>0, SMTT(20)
       DEF Aready_EsperarProceso, EsperandoExacto, EsperandoPendientes, Contar
  <2>3. BlockExacto'
    BY <1>1, Longitudes, <1>0, SMTT(20)
       DEF Aready_EsperarProceso, BlockExacto, BlockPendientes, Contar
  <2>4. GradoRespetado'
    BY <1>1, Longitudes, <1>0, SMTT(20)
       DEF Aready_EsperarProceso, GradoRespetado, EnMemoria, TieneAready, TieneExec, TieneBlock,
         Contar
  <2>5. EleccionVigente'
    BY <1>1, Longitudes, <1>0, SMTT(20)
       DEF Aready_EsperarProceso, EleccionVigente
  <2> QED
    BY <2>1, <2>2, <2>3, <2>4, <2>5 DEF Cuentas, SemaforosCuentan
<1>2. CASE Aready_EsperarGrado
  <2>1. ReadyExacto'
    BY <1>2, Longitudes, <1>0, SMTT(20)
       DEF Aready_EsperarGrado, ReadyExacto, ReadyPendientes, Contar
  <2>2. EsperandoExacto'
    BY <1>2, Longitudes, <1>0, SMTT(20)
       DEF Aready_EsperarGrado, EsperandoExacto, EsperandoPendientes, Contar
  <2>3. BlockExacto'
    BY <1>2, Longitudes, <1>0, SMTT(20)
       DEF Aready_EsperarGrado, BlockExacto, BlockPendientes, Contar
  <2>4. GradoRespetado'
    BY <1>2, Longitudes, <1>0, SMTT(20)
       DEF Aready_EsperarGrado, GradoRespetado, EnMemoria, TieneAready, TieneExec, TieneBlock,
         Contar
  <2>5. EleccionVigente'
    BY <1>2, Longitudes, <1>0, SMTT(20)
       DEF Aready_EsperarGrado, EleccionVigente
  <2> QED
    BY <2>1, <2>2, <2>3, <2>4, <2>5 DEF Cuentas, SemaforosCuentan
<1>3. CASE obtenerSiguienteAready_Elegir
  <2>1. ReadyExacto'
    BY <1>3, Longitudes, <1>0, SMTT(20)
       DEF obtenerSiguienteAready_Elegir, ReadyExacto, ReadyPendientes, Contar
  <2>2. EsperandoExacto'
    BY <1>3, Longitudes, <1>0, SMTT(20)
       DEF obtenerSiguienteAready_Elegir, EsperandoExacto, EsperandoPendientes, Contar
  <2>3. BlockExacto'
    BY <1>3, Longitudes, <1>0, SMTT(20)
       DEF obtenerSiguienteAready_Elegir, BlockExacto, BlockPendientes, Contar
  <2>4. GradoRespetado'
    BY <1>3, Longitudes, <1>0, SMTT(20)
       DEF obtenerSiguienteAready_Elegir, GradoRespetado, EnMemoria, TieneAready,
          TieneExec, TieneBlock,
         Contar
  <2>5. EleccionVigente'
    BY <1>3, Longitudes, <1>0, SMTT(20)
       DEF obtenerSiguienteAready_Elegir, EleccionVigente, EsperandoExacto,
          EsperandoPendientes, Contar
  <2> QED
    BY <2>1, <2>2, <2>3, <2>4, <2>5 DEF Cuentas, SemaforosCuentan
<1>4. CASE obtenerSiguienteAready_Susp
  <2>1. Len(estado_susp_ready') = Len(estado_susp_ready) - 1
    BY <1>4, LongitudTail DEF obtenerSiguienteAready_Susp, TypeOK
  <2>2. ReadyExacto'
    BY <1>4, <2>1, Longitudes, <1>0, SMTT(20)
       DEF obtenerSiguienteAready_Susp, ReadyExacto, ReadyPendientes, Contar
  <2>3. EsperandoExacto'
    BY <1>4, <2>1, Longitudes, <1>0, SMTT(20)
       DEF obtenerSiguienteAready_Susp, EsperandoExacto, EsperandoPendientes, Contar
  <2>4. BlockExacto'
    BY <1>4, <2>1, Longitudes, <1>0, SMTT(20)
       DEF obtenerSiguienteAready_Susp, BlockExacto, BlockPendientes, Contar
  <2>5. GradoRespetado'
    BY <1>4, <2>1, Longitudes, <1>0, SMTT(20)
       DEF obtenerSiguienteAready_Susp, GradoRespetado, EnMemoria, TieneAready,
          TieneExec, TieneBlock,
         Contar
  <2>6. EleccionVigente'
    BY <1>4, <2>1, Longitudes, <1>0, SMTT(20)
       DEF obtenerSiguienteAready_Susp, EleccionVigente
  <2> QED
    BY <2>2, <2>3, <2>4, <2>5, <2>6 DEF Cuentas, SemaforosCuentan
<1>5. CASE obtenerSiguienteAready_New
  <2>1. Len(estado_new') = Len(estado_new) - 1
    BY <1>5, LongitudTail DEF obtenerSiguienteAready_New, TypeOK
  <2>2. ReadyExacto'
    BY <1>5, <2>1, Longitudes, <1>0, SMTT(20)
       DEF obtenerSiguienteAready_New, ReadyExacto, ReadyPendientes, Contar
  <2>3. EsperandoExacto'
    BY <1>5, <2>1, Longitudes, <1>0, SMTT(20)
       DEF obtenerSiguienteAready_New, EsperandoExacto, EsperandoPendientes, Contar
  <2>4. BlockExacto'
    BY <1>5, <2>1, Longitudes, <1>0, SMTT(20)
       DEF obtenerSiguienteAready_New, BlockExacto, BlockPendientes, Contar
  <2>5. GradoRespetado'
    BY <1>5, <2>1, Longitudes, <1>0, SMTT(20)
       DEF obtenerSiguienteAready_New, GradoRespetado, EnMemoria, TieneAready, TieneExec,
          TieneBlock,
         Contar
  <2>6. EleccionVigente'
    BY <1>5, <2>1, Longitudes, <1>0, SMTT(20)
       DEF obtenerSiguienteAready_New, EleccionVigente
  <2> QED
    BY <2>2, <2>3, <2>4, <2>5, <2>6 DEF Cuentas, SemaforosCuentan
<1>6. CASE comunicacionMemoriaCreacionEstructuras
  <2>1. ReadyExacto'
    BY <1>6, Longitudes, <1>0, SMTT(20)
       DEF comunicacionMemoriaCreacionEstructuras, ReadyExacto, ReadyPendientes, Contar
  <2>2. EsperandoExacto'
    BY <1>6, Longitudes, <1>0, SMTT(20)
       DEF comunicacionMemoriaCreacionEstructuras, EsperandoExacto, EsperandoPendientes, Contar
  <2>3. BlockExacto'
    BY <1>6, Longitudes, <1>0, SMTT(20)
       DEF comunicacionMemoriaCreacionEstructuras, BlockExacto, BlockPendientes, Contar
  <2>4. GradoRespetado'
    BY <1>6, Longitudes, <1>0, SMTT(20)
       DEF comunicacionMemoriaCreacionEstructuras, GradoRespetado, EnMemoria,
          TieneAready, TieneExec, TieneBlock,
         Contar
  <2>5. EleccionVigente'
    BY <1>6, Longitudes, <1>0, SMTT(20)
       DEF comunicacionMemoriaCreacionEstructuras, EleccionVigente
  <2> QED
    BY <2>1, <2>2, <2>3, <2>4, <2>5 DEF Cuentas, SemaforosCuentan
<1>7. CASE Aready_AgregarReady
  <2>1. Len(estado_ready') = Len(estado_ready) + 1 /\ estado_ready' # <<>>
    BY <1>7, LongitudAppend, ElementosAgregados DEF Aready_AgregarReady, TypeOK
  <2>2. ReadyExacto'
    BY <1>7, <2>1, Longitudes, <1>0, SMTT(20)
       DEF Aready_AgregarReady, ReadyExacto, ReadyPendientes, Contar
  <2>3. EsperandoExacto'
    BY <1>7, <2>1, Longitudes, <1>0, SMTT(20)
       DEF Aready_AgregarReady, EsperandoExacto, EsperandoPendientes, Contar
  <2>4. BlockExacto'
    BY <1>7, <2>1, Longitudes, <1>0, SMTT(20)
       DEF Aready_AgregarReady, BlockExacto, BlockPendientes, Contar
  <2>5. GradoRespetado'
    BY <1>7, <2>1, Longitudes, <1>0, SMTT(20)
       DEF Aready_AgregarReady, GradoRespetado, EnMemoria, TieneAready, TieneExec, TieneBlock,
         Contar
  <2>6. EleccionVigente'
    BY <1>7, <2>1, Longitudes, <1>0, SMTT(20)
       DEF Aready_AgregarReady, EleccionVigente
  <2> QED
    BY <2>2, <2>3, <2>4, <2>5, <2>6 DEF Cuentas, SemaforosCuentan
<1>8. CASE Aready_Interrumpir
  <2>1. ReadyExacto'
    BY <1>8, Longitudes, <1>0, SMTT(20)
       DEF Aready_Interrumpir, ReadyExacto, ReadyPendientes, Contar
  <2>2. EsperandoExacto'
    BY <1>8, Longitudes, <1>0, SMTT(20)
       DEF Aready_Interrumpir, EsperandoExacto, EsperandoPendientes, Contar
  <2>3. BlockExacto'
    BY <1>8, Longitudes, <1>0, SMTT(20)
       DEF Aready_Interrumpir, BlockExacto, BlockPendientes, Contar
  <2>4. GradoRespetado'
    BY <1>8, Longitudes, <1>0, SMTT(20)
       DEF Aready_Interrumpir, GradoRespetado, EnMemoria, TieneAready, TieneExec, TieneBlock,
         Contar
  <2>5. EleccionVigente'
    BY <1>8, Longitudes, <1>0, SMTT(20)
       DEF Aready_Interrumpir, EleccionVigente
  <2> QED
    BY <2>1, <2>2, <2>3, <2>4, <2>5 DEF Cuentas, SemaforosCuentan
<1>9. CASE Aready_PostReady
  <2>1. ReadyExacto'
    BY <1>9, Longitudes, <1>0, SMTT(20)
       DEF Aready_PostReady, ReadyExacto, ReadyPendientes, Contar
  <2>2. EsperandoExacto'
    BY <1>9, Longitudes, <1>0, SMTT(20)
       DEF Aready_PostReady, EsperandoExacto, EsperandoPendientes, Contar
  <2>3. BlockExacto'
    BY <1>9, Longitudes, <1>0, SMTT(20)
       DEF Aready_PostReady, BlockExacto, BlockPendientes, Contar
  <2>4. GradoRespetado'
    BY <1>9, Longitudes, <1>0, SMTT(20)
       DEF Aready_PostReady, GradoRespetado, EnMemoria, TieneAready, TieneExec, TieneBlock,
         Contar
  <2>5. EleccionVigente'
    BY <1>9, Longitudes, <1>0, SMTT(20)
       DEF Aready_PostReady, EleccionVigente
  <2> QED
    BY <2>1, <2>2, <2>3, <2>4, <2>5 DEF Cuentas, SemaforosCuentan
<1> QED
  BY <1>1, <1>2, <1>3, <1>4, <1>5, <1>6, <1>7, <1>8, <1>9 DEF Aready

LEMMA CuentasExec ==
  TypeOK /\ Unicidad /\ Cuentas /\ readyAexec => Cuentas'
<1> SUFFICES ASSUME TypeOK, Unicidad, Cuentas, readyAexec
             PROVE  Cuentas'
  OBVIOUS
<1>0. /\ ReadyExacto /\ EsperandoExacto /\ BlockExacto
      /\ GradoRespetado /\ EleccionVigente
  BY DEF Cuentas, SemaforosCuentan
<1>1. CASE readyAexec_EsperarReady
  <2>1. ReadyExacto'
    BY <1>1, Longitudes, <1>0, SMTT(20)
       DEF readyAexec_EsperarReady, ReadyExacto, ReadyPendientes, Contar
  <2>2. EsperandoExacto'
    BY <1>1, Longitudes, <1>0, SMTT(20)
       DEF readyAexec_EsperarReady, EsperandoExacto, EsperandoPendientes, Contar
  <2>3. BlockExacto'
    BY <1>1, Longitudes, <1>0, SMTT(20)
       DEF readyAexec_EsperarReady, BlockExacto, BlockPendientes, Contar
  <2>4. GradoRespetado'
    BY <1>1, Longitudes, <1>0, SMTT(20)
       DEF readyAexec_EsperarReady, GradoRespetado, EnMemoria, TieneAready, TieneExec, TieneBlock,
         Contar
  <2>5. EleccionVigente'
    BY <1>1, Longitudes, <1>0, SMTT(20)
       DEF readyAexec_EsperarReady, EleccionVigente
  <2> QED
    BY <2>1, <2>2, <2>3, <2>4, <2>5 DEF Cuentas, SemaforosCuentan
<1>2. CASE planificacionFIFO
  <2>1. Len(estado_ready') = Len(estado_ready) - 1
    BY <1>2, LongitudTail DEF planificacionFIFO, TypeOK
  <2>2. ReadyExacto'
    BY <1>2, <2>1, Longitudes, <1>0, SMTT(20)
       DEF planificacionFIFO, ReadyExacto, ReadyPendientes, Contar
  <2>3. EsperandoExacto'
    BY <1>2, <2>1, Longitudes, <1>0, SMTT(20)
       DEF planificacionFIFO, EsperandoExacto, EsperandoPendientes, Contar
  <2>4. BlockExacto'
    BY <1>2, <2>1, Longitudes, <1>0, SMTT(20)
       DEF planificacionFIFO, BlockExacto, BlockPendientes, Contar
  <2>5. GradoRespetado'
    BY <1>2, <2>1, Longitudes, <1>0, SMTT(20)
       DEF planificacionFIFO, GradoRespetado, EnMemoria, TieneAready, TieneExec, TieneBlock,
         Contar
  <2>6. EleccionVigente'
    BY <1>2, <2>1, Longitudes, <1>0, SMTT(20)
       DEF planificacionFIFO, EleccionVigente
  <2> QED
    BY <2>2, <2>3, <2>4, <2>5, <2>6 DEF Cuentas, SemaforosCuentan
<1>3. CASE planificacionSRT
  <2>1. ReadyExacto'
    BY <1>3, Longitudes, <1>0, SMTT(20)
       DEF planificacionSRT, ReadyExacto, ReadyPendientes, Contar
  <2>2. EsperandoExacto'
    BY <1>3, Longitudes, <1>0, SMTT(20)
       DEF planificacionSRT, EsperandoExacto, EsperandoPendientes, Contar
  <2>3. BlockExacto'
    BY <1>3, Longitudes, <1>0, SMTT(20)
       DEF planificacionSRT, BlockExacto, BlockPendientes, Contar
  <2>4. GradoRespetado'
    BY <1>3, Longitudes, <1>0, SMTT(20)
       DEF planificacionSRT, GradoRespetado, EnMemoria, TieneAready, TieneExec, TieneBlock,
         Contar
  <2>5. EleccionVigente'
    BY <1>3, Longitudes, <1>0, SMTT(20)
       DEF planificacionSRT, EleccionVigente
  <2> QED
    BY <2>1, <2>2, <2>3, <2>4, <2>5 DEF Cuentas, SemaforosCuentan
<1>4. CASE readyAexec_Quitar
  <2>1. CASE EsSRT
    <3>1. Len(estado_ready') = Len(estado_ready) - 1
      BY <1>4, <2>1, QuitarPorIdProperties DEF readyAexec_Quitar, TypeOK, Unicidad, En
    <3>2. ReadyExacto'
      BY <1>4, <2>1, <3>1, Longitudes, <1>0, SMTT(20)
         DEF readyAexec_Quitar, ReadyExacto, ReadyPendientes, Contar
    <3>3. EsperandoExacto'
      BY <1>4, <2>1, <3>1, Longitudes, <1>0, SMTT(20)
         DEF readyAexec_Quitar, EsperandoExacto, EsperandoPendientes, Contar
    <3>4. BlockExacto'
      BY <1>4, <2>1, <3>1, Longitudes, <1>0, SMTT(20)
         DEF readyAexec_Quitar, BlockExacto, BlockPendientes, Contar
    <3>5. GradoRespetado'
      BY <1>4, <2>1, <3>1, Longitudes, <1>0, SMTT(20)
         DEF readyAexec_Quitar, GradoRespetado, EnMemoria, TieneAready, TieneExec,
           TieneBlock, Contar
    <3>6. EleccionVigente'
      BY <1>4, <2>1, <3>1, Longitudes, <1>0, SMTT(20)
         DEF readyAexec_Quitar, EleccionVigente
    <3> QED
      BY <3>2, <3>3, <3>4, <3>5, <3>6 DEF Cuentas, SemaforosCuentan
  <2>2. CASE ~EsSRT
    <3>1. ~En(estado_ready, pcbExec.id)
      BY <1>4, <2>2, SoloUno DEF readyAexec_Quitar, TieneExec, TypeOK, PCB
    <3>2. Len(estado_ready') = Len(estado_ready)
      BY <1>4, <3>1, QuitarPorIdProperties DEF readyAexec_Quitar, TypeOK, En
    <3>3. ReadyExacto'
      BY <1>4, <2>2, <3>2, Longitudes, <1>0, SMTT(20)
         DEF readyAexec_Quitar, ReadyExacto, ReadyPendientes, Contar
    <3>4. EsperandoExacto'
      BY <1>4, <2>2, <3>2, Longitudes, <1>0, SMTT(20)
         DEF readyAexec_Quitar, EsperandoExacto, EsperandoPendientes, Contar
    <3>5. BlockExacto'
      BY <1>4, <2>2, <3>2, Longitudes, <1>0, SMTT(20)
         DEF readyAexec_Quitar, BlockExacto, BlockPendientes, Contar
    <3>6. GradoRespetado'
      BY <1>4, <2>2, <3>2, Longitudes, <1>0, SMTT(20)
         DEF readyAexec_Quitar, GradoRespetado, EnMemoria, TieneAready, TieneExec,
           TieneBlock, Contar
    <3>7. EleccionVigente'
      BY <1>4, <2>2, <3>2, Longitudes, <1>0, SMTT(20)
         DEF readyAexec_Quitar, EleccionVigente
    <3> QED
      BY <3>3, <3>4, <3>5, <3>6, <3>7 DEF Cuentas, SemaforosCuentan
  <2> QED
    BY <2>1, <2>2
<1>5. CASE ejecutarPCB
  <2>1. ReadyExacto'
    BY <1>5, Longitudes, <1>0, SMTT(20)
       DEF ejecutarPCB, ReadyExacto, ReadyPendientes, Contar
  <2>2. EsperandoExacto'
    BY <1>5, Longitudes, <1>0, SMTT(20)
       DEF ejecutarPCB, EsperandoExacto, EsperandoPendientes, Contar
  <2>3. BlockExacto'
    BY <1>5, Longitudes, <1>0, SMTT(20)
       DEF ejecutarPCB, BlockExacto, BlockPendientes, Contar
  <2>4. GradoRespetado'
    BY <1>5, Longitudes, <1>0, SMTT(20)
       DEF ejecutarPCB, GradoRespetado, EnMemoria, TieneAready, TieneExec, TieneBlock,
         Contar
  <2>5. EleccionVigente'
    BY <1>5, Longitudes, <1>0, SMTT(20)
       DEF ejecutarPCB, EleccionVigente
  <2> QED
    BY <2>1, <2>2, <2>3, <2>4, <2>5 DEF Cuentas, SemaforosCuentan
<1>6. CASE ejecutarPCB_IO
  <2>1. Len(estado_blocked') = Len(estado_blocked) + 1 /\ estado_blocked' # <<>>
    BY <1>6, LongitudAppend, ElementosAgregados, SMTT(30) DEF ejecutarPCB_IO, TypeOK
  <2>2. ReadyExacto'
    BY <1>6, <2>1, Longitudes, <1>0, SMTT(20)
       DEF ejecutarPCB_IO, ReadyExacto, ReadyPendientes, Contar
  <2>3. EsperandoExacto'
    BY <1>6, <2>1, Longitudes, <1>0, SMTT(20)
       DEF ejecutarPCB_IO, EsperandoExacto, EsperandoPendientes, Contar
  <2>4. BlockExacto'
    BY <1>6, <2>1, Longitudes, <1>0, SMTT(20)
       DEF ejecutarPCB_IO, BlockExacto, BlockPendientes, Contar
  <2>5. GradoRespetado'
    BY <1>6, <2>1, Longitudes, <1>0, SMTT(20)
       DEF ejecutarPCB_IO, GradoRespetado, EnMemoria, TieneAready, TieneExec, TieneBlock,
         Contar
  <2>6. EleccionVigente'
    BY <1>6, <2>1, Longitudes, <1>0, SMTT(20)
       DEF ejecutarPCB_IO, EleccionVigente
  <2> QED
    BY <2>2, <2>3, <2>4, <2>5, <2>6 DEF Cuentas, SemaforosCuentan
<1>7. CASE ejecutarPCB_PostBlock
  <2>1. ReadyExacto'
    BY <1>7, Longitudes, <1>0, SMTT(20)
       DEF ejecutarPCB_PostBlock, ReadyExacto, ReadyPendientes, Contar
  <2>2. EsperandoExacto'
    BY <1>7, Longitudes, <1>0, SMTT(20)
       DEF ejecutarPCB_PostBlock, EsperandoExacto, EsperandoPendientes, Contar
  <2>3. BlockExacto'
    BY <1>7, Longitudes, <1>0, SMTT(20)
       DEF ejecutarPCB_PostBlock, BlockExacto, BlockPendientes, Contar
  <2>4. GradoRespetado'
    BY <1>7, Longitudes, <1>0, SMTT(20)
       DEF ejecutarPCB_PostBlock, GradoRespetado, EnMemoria, TieneAready, TieneExec, TieneBlock,
         Contar
  <2>5. EleccionVigente'
    BY <1>7, Longitudes, <1>0, SMTT(20)
       DEF ejecutarPCB_PostBlock, EleccionVigente
  <2> QED
    BY <2>1, <2>2, <2>3, <2>4, <2>5 DEF Cuentas, SemaforosCuentan
<1>8. CASE ejecutarPCB_Interrupcion
  <2>1. Len(estado_ready') = Len(estado_ready) + 1 /\ estado_ready' # <<>>
    BY <1>8, LongitudAppend, ElementosAgregados, SMTT(30) DEF ejecutarPCB_Interrupcion, TypeOK
  <2>2. ReadyExacto'
    BY <1>8, <2>1, Longitudes, <1>0, SMTT(20)
       DEF ejecutarPCB_Interrupcion, ReadyExacto, ReadyPendientes, Contar
  <2>3. EsperandoExacto'
    BY <1>8, <2>1, Longitudes, <1>0, SMTT(20)
       DEF ejecutarPCB_Interrupcion, EsperandoExacto, EsperandoPendientes, Contar
  <2>4. BlockExacto'
    BY <1>8, <2>1, Longitudes, <1>0, SMTT(20)
       DEF ejecutarPCB_Interrupcion, BlockExacto, BlockPendientes, Contar
  <2>5. GradoRespetado'
    BY <1>8, <2>1, Longitudes, <1>0, SMTT(20)
       DEF ejecutarPCB_Interrupcion, GradoRespetado, EnMemoria, TieneAready, TieneExec, TieneBlock,
         Contar
  <2>6. EleccionVigente'
    BY <1>8, <2>1, Longitudes, <1>0, SMTT(20)
       DEF ejecutarPCB_Interrupcion, EleccionVigente
  <2> QED
    BY <2>2, <2>3, <2>4, <2>5, <2>6 DEF Cuentas, SemaforosCuentan
<1>9. CASE ejecutarPCB_PostReady
  <2>1. ReadyExacto'
    BY <1>9, Longitudes, <1>0, SMTT(20)
       DEF ejecutarPCB_PostReady, ReadyExacto, ReadyPendientes, Contar
  <2>2. EsperandoExacto'
    BY <1>9, Longitudes, <1>0, SMTT(20)
       DEF ejecutarPCB_PostReady, EsperandoExacto, EsperandoPendientes, Contar
  <2>3. BlockExacto'
    BY <1>9, Longitudes, <1>0, SMTT(20)
       DEF ejecutarPCB_PostReady, BlockExacto, BlockPendientes, Contar
  <2>4. GradoRespetado'
    BY <1>9, Longitudes, <1>0, SMTT(20)
       DEF ejecutarPCB_PostReady, GradoRespetado, EnMemoria, TieneAready, TieneExec, TieneBlock,
         Contar
  <2>5. EleccionVigente'
    BY <1>9, Longitudes, <1>0, SMTT(20)
       DEF ejecutarPCB_PostReady, EleccionVigente
  <2> QED
    BY <2>1, <2>2, <2>3, <2>4, <2>5 DEF Cuentas, SemaforosCuentan
<1>10. CASE execAexit_Finalizar
  <2>1. ReadyExacto'
    BY <1>10, Longitudes, <1>0, SMTT(20)
       DEF execAexit_Finalizar, ReadyExacto, ReadyPendientes, Contar
  <2>2. EsperandoExacto'
    BY <1>10, Longitudes, <1>0, SMTT(20)
       DEF execAexit_Finalizar, EsperandoExacto, EsperandoPendientes, Contar
  <2>3. BlockExacto'
    BY <1>10, Longitudes, <1>0, SMTT(20)
       DEF execAexit_Finalizar, BlockExacto, BlockPendientes, Contar
  <2>4. GradoRespetado'
    BY <1>10, Longitudes, <1>0, SMTT(20)
       DEF execAexit_Finalizar, GradoRespetado, EnMemoria, TieneAready, TieneExec, TieneBlock,
         Contar
  <2>5. EleccionVigente'
    BY <1>10, Longitudes, <1>0, SMTT(20)
       DEF execAexit_Finalizar, EleccionVigente
  <2> QED
    BY <2>1, <2>2, <2>3, <2>4, <2>5 DEF Cuentas, SemaforosCuentan
<1>11. CASE execAexit_Notificar
  <2>1. ReadyExacto'
    BY <1>11, Longitudes, <1>0, SMTT(20)
       DEF execAexit_Notificar, ReadyExacto, ReadyPendientes, Contar
  <2>2. EsperandoExacto'
    BY <1>11, Longitudes, <1>0, SMTT(20)
       DEF execAexit_Notificar, EsperandoExacto, EsperandoPendientes, Contar
  <2>3. BlockExacto'
    BY <1>11, Longitudes, <1>0, SMTT(20)
       DEF execAexit_Notificar, BlockExacto, BlockPendientes, Contar
  <2>4. GradoRespetado'
    BY <1>11, Longitudes, <1>0, SMTT(20)
       DEF execAexit_Notificar, GradoRespetado, EnMemoria, TieneAready, TieneExec, TieneBlock,
         Contar
  <2>5. EleccionVigente'
    BY <1>11, Longitudes, <1>0, SMTT(20)
       DEF execAexit_Notificar, EleccionVigente
  <2> QED
    BY <2>1, <2>2, <2>3, <2>4, <2>5 DEF Cuentas, SemaforosCuentan
<1>12. CASE execAexit_PostGrado
  <2>1. ReadyExacto'
    BY <1>12, Longitudes, <1>0, SMTT(20)
       DEF execAexit_PostGrado, ReadyExacto, ReadyPendientes, Contar
  <2>2. EsperandoExacto'
    BY <1>12, Longitudes, <1>0, SMTT(20)
       DEF execAexit_PostGrado, EsperandoExacto, EsperandoPendientes, Contar
  <2>3. BlockExacto'
    BY <1>12, Longitudes, <1>0, SMTT(20)
       DEF execAexit_PostGrado, BlockExacto, BlockPendientes, Contar
  <2>4. GradoRespetado'
    BY <1>12, Longitudes, <1>0, SMTT(20)
       DEF execAexit_PostGrado, GradoRespetado, EnMemoria, TieneAready, TieneExec, TieneBlock,
         Contar
  <2>5. EleccionVigente'
    BY <1>12, Longitudes, <1>0, SMTT(20)
       DEF execAexit_PostGrado, EleccionVigente
  <2> QED
    BY <2>1, <2>2, <2>3, <2>4, <2>5 DEF Cuentas, SemaforosCuentan
<1> QED
  BY <1>1, <1>2, <1>3, <1>4, <1>5, <1>6, <1>7, <1>8, <1>9, <1>10, <1>11,
     <1>12 DEF readyAexec

LEMMA CuentasBlock ==
  TypeOK /\ Unicidad /\ Cuentas /\ hilo_block => Cuentas'
<1> SUFFICES ASSUME TypeOK, Unicidad, Cuentas, hilo_block
             PROVE  Cuentas'
  OBVIOUS
<1>0. /\ ReadyExacto /\ EsperandoExacto /\ BlockExacto
      /\ GradoRespetado /\ EleccionVigente
  BY DEF Cuentas, SemaforosCuentan
<1>1. CASE hilo_block_Esperar
  <2>1. ReadyExacto'
    BY <1>1, Longitudes, <1>0, SMTT(20)
       DEF hilo_block_Esperar, ReadyExacto, ReadyPendientes, Contar
  <2>2. EsperandoExacto'
    BY <1>1, Longitudes, <1>0, SMTT(20)
       DEF hilo_block_Esperar, EsperandoExacto, EsperandoPendientes, Contar
  <2>3. BlockExacto'
    BY <1>1, Longitudes, <1>0, SMTT(20)
       DEF hilo_block_Esperar, BlockExacto, BlockPendientes, Contar
  <2>4. GradoRespetado'
    BY <1>1, Longitudes, <1>0, SMTT(20)
       DEF hilo_block_Esperar, GradoRespetado, EnMemoria, TieneAready, TieneExec, TieneBlock,
         Contar
  <2>5. EleccionVigente'
    BY <1>1, Longitudes, <1>0, SMTT(20)
       DEF hilo_block_Esperar, EleccionVigente
  <2> QED
    BY <2>1, <2>2, <2>3, <2>4, <2>5 DEF Cuentas, SemaforosCuentan
<1>2. CASE hilo_block_Sacar
  <2>1. Len(estado_blocked') = Len(estado_blocked) - 1
    BY <1>2, LongitudTail DEF hilo_block_Sacar, TypeOK
  <2>2. ReadyExacto'
    BY <1>2, <2>1, Longitudes, <1>0, SMTT(20)
       DEF hilo_block_Sacar, ReadyExacto, ReadyPendientes, Contar
  <2>3. EsperandoExacto'
    BY <1>2, <2>1, Longitudes, <1>0, SMTT(20)
       DEF hilo_block_Sacar, EsperandoExacto, EsperandoPendientes, Contar
  <2>4. BlockExacto'
    BY <1>2, <2>1, Longitudes, <1>0, SMTT(20)
       DEF hilo_block_Sacar, BlockExacto, BlockPendientes, Contar
  <2>5. GradoRespetado'
    BY <1>2, <2>1, Longitudes, <1>0, SMTT(20)
       DEF hilo_block_Sacar, GradoRespetado, EnMemoria, TieneAready, TieneExec, TieneBlock,
         Contar
  <2>6. EleccionVigente'
    BY <1>2, <2>1, Longitudes, <1>0, SMTT(20)
       DEF hilo_block_Sacar, EleccionVigente
  <2> QED
    BY <2>2, <2>3, <2>4, <2>5, <2>6 DEF Cuentas, SemaforosCuentan
<1>3. CASE hilo_block_SinSuspender
  <2>1. ReadyExacto'
    BY <1>3, Longitudes, <1>0, SMTT(20)
       DEF hilo_block_SinSuspender, ReadyExacto, ReadyPendientes, Contar
  <2>2. EsperandoExacto'
    BY <1>3, Longitudes, <1>0, SMTT(20)
       DEF hilo_block_SinSuspender, EsperandoExacto, EsperandoPendientes, Contar
  <2>3. BlockExacto'
    BY <1>3, Longitudes, <1>0, SMTT(20)
       DEF hilo_block_SinSuspender, BlockExacto, BlockPendientes, Contar
  <2>4. GradoRespetado'
    BY <1>3, Longitudes, <1>0, SMTT(20)
       DEF hilo_block_SinSuspender, GradoRespetado, EnMemoria, TieneAready, TieneExec, TieneBlock,
         Contar
  <2>5. EleccionVigente'
    BY <1>3, Longitudes, <1>0, SMTT(20)
       DEF hilo_block_SinSuspender, EleccionVigente
  <2> QED
    BY <2>1, <2>2, <2>3, <2>4, <2>5 DEF Cuentas, SemaforosCuentan
<1>4. CASE hilo_block_SuspenderDespues
  <2>1. ReadyExacto'
    BY <1>4, Longitudes, <1>0, SMTT(20)
       DEF hilo_block_SuspenderDespues, ReadyExacto, ReadyPendientes, Contar
  <2>2. EsperandoExacto'
    BY <1>4, Longitudes, <1>0, SMTT(20)
       DEF hilo_block_SuspenderDespues, EsperandoExacto, EsperandoPendientes, Contar
  <2>3. BlockExacto'
    BY <1>4, Longitudes, <1>0, SMTT(20)
       DEF hilo_block_SuspenderDespues, BlockExacto, BlockPendientes, Contar
  <2>4. GradoRespetado'
    BY <1>4, Longitudes, <1>0, SMTT(20)
       DEF hilo_block_SuspenderDespues, GradoRespetado, EnMemoria, TieneAready,
          TieneExec, TieneBlock,
         Contar
  <2>5. EleccionVigente'
    BY <1>4, Longitudes, <1>0, SMTT(20)
       DEF hilo_block_SuspenderDespues, EleccionVigente
  <2> QED
    BY <2>1, <2>2, <2>3, <2>4, <2>5 DEF Cuentas, SemaforosCuentan
<1>5. CASE hilo_block_SuspenderYa
  <2>1. ReadyExacto'
    BY <1>5, Longitudes, <1>0, SMTT(20)
       DEF hilo_block_SuspenderYa, ReadyExacto, ReadyPendientes, Contar
  <2>2. EsperandoExacto'
    BY <1>5, Longitudes, <1>0, SMTT(20)
       DEF hilo_block_SuspenderYa, EsperandoExacto, EsperandoPendientes, Contar
  <2>3. BlockExacto'
    BY <1>5, Longitudes, <1>0, SMTT(20)
       DEF hilo_block_SuspenderYa, BlockExacto, BlockPendientes, Contar
  <2>4. GradoRespetado'
    BY <1>5, Longitudes, <1>0, SMTT(20)
       DEF hilo_block_SuspenderYa, GradoRespetado, EnMemoria, TieneAready, TieneExec, TieneBlock,
         Contar
  <2>5. EleccionVigente'
    BY <1>5, Longitudes, <1>0, SMTT(20)
       DEF hilo_block_SuspenderYa, EleccionVigente
  <2> QED
    BY <2>1, <2>2, <2>3, <2>4, <2>5 DEF Cuentas, SemaforosCuentan
<1>6. CASE hacerIO
  <2>1. Len(estado_blocked') = Len(estado_blocked)
    BY <1>6, sumarEsperaProperties DEF hacerIO, TypeOK
  <2>2. ReadyExacto'
    BY <1>6, <2>1, Longitudes, <1>0, SMTT(20)
       DEF hacerIO, ReadyExacto, ReadyPendientes, Contar
  <2>3. EsperandoExacto'
    BY <1>6, <2>1, Longitudes, <1>0, SMTT(20)
       DEF hacerIO, EsperandoExacto, EsperandoPendientes, Contar
  <2>4. BlockExacto'
    BY <1>6, <2>1, Longitudes, <1>0, SMTT(20)
       DEF hacerIO, BlockExacto, BlockPendientes, Contar
  <2>5. GradoRespetado'
    BY <1>6, <2>1, Longitudes, <1>0, SMTT(20)
       DEF hacerIO, GradoRespetado, EnMemoria, TieneAready, TieneExec, TieneBlock,
         Contar
  <2>6. EleccionVigente'
    BY <1>6, <2>1, Longitudes, <1>0, SMTT(20)
       DEF hacerIO, EleccionVigente
  <2> QED
    BY <2>2, <2>3, <2>4, <2>5, <2>6 DEF Cuentas, SemaforosCuentan
<1>7. CASE hacerIO_HastaMaximo
  <2>1. ReadyExacto'
    BY <1>7, Longitudes, <1>0, SMTT(20)
       DEF hacerIO_HastaMaximo, ReadyExacto, ReadyPendientes, Contar
  <2>2. EsperandoExacto'
    BY <1>7, Longitudes, <1>0, SMTT(20)
       DEF hacerIO_HastaMaximo, EsperandoExacto, EsperandoPendientes, Contar
  <2>3. BlockExacto'
    BY <1>7, Longitudes, <1>0, SMTT(20)
       DEF hacerIO_HastaMaximo, BlockExacto, BlockPendientes, Contar
  <2>4. GradoRespetado'
    BY <1>7, Longitudes, <1>0, SMTT(20)
       DEF hacerIO_HastaMaximo, GradoRespetado, EnMemoria, TieneAready, TieneExec, TieneBlock,
         Contar
  <2>5. EleccionVigente'
    BY <1>7, Longitudes, <1>0, SMTT(20)
       DEF hacerIO_HastaMaximo, EleccionVigente
  <2> QED
    BY <2>1, <2>2, <2>3, <2>4, <2>5 DEF Cuentas, SemaforosCuentan
<1>8. CASE comunicacionMemoriaSuspender
  <2>1. ReadyExacto'
    BY <1>8, Longitudes, <1>0, SMTT(20)
       DEF comunicacionMemoriaSuspender, ReadyExacto, ReadyPendientes, Contar
  <2>2. EsperandoExacto'
    BY <1>8, Longitudes, <1>0, SMTT(20)
       DEF comunicacionMemoriaSuspender, EsperandoExacto, EsperandoPendientes, Contar
  <2>3. BlockExacto'
    BY <1>8, Longitudes, <1>0, SMTT(20)
       DEF comunicacionMemoriaSuspender, BlockExacto, BlockPendientes, Contar
  <2>4. GradoRespetado'
    BY <1>8, Longitudes, <1>0, SMTT(20)
       DEF comunicacionMemoriaSuspender, GradoRespetado, EnMemoria, TieneAready,
          TieneExec, TieneBlock,
         Contar
  <2>5. EleccionVigente'
    BY <1>8, Longitudes, <1>0, SMTT(20)
       DEF comunicacionMemoriaSuspender, EleccionVigente
  <2> QED
    BY <2>1, <2>2, <2>3, <2>4, <2>5 DEF Cuentas, SemaforosCuentan
<1>9. CASE hilo_block_PostGrado
  <2>1. ReadyExacto'
    BY <1>9, Longitudes, <1>0, SMTT(20)
       DEF hilo_block_PostGrado, ReadyExacto, ReadyPendientes, Contar
  <2>2. EsperandoExacto'
    BY <1>9, Longitudes, <1>0, SMTT(20)
       DEF hilo_block_PostGrado, EsperandoExacto, EsperandoPendientes, Contar
  <2>3. BlockExacto'
    BY <1>9, Longitudes, <1>0, SMTT(20)
       DEF hilo_block_PostGrado, BlockExacto, BlockPendientes, Contar
  <2>4. GradoRespetado'
    BY <1>9, Longitudes, <1>0, SMTT(20)
       DEF hilo_block_PostGrado, GradoRespetado, EnMemoria, TieneAready, TieneExec, TieneBlock,
         Contar
  <2>5. EleccionVigente'
    BY <1>9, Longitudes, <1>0, SMTT(20)
       DEF hilo_block_PostGrado, EleccionVigente
  <2> QED
    BY <2>1, <2>2, <2>3, <2>4, <2>5 DEF Cuentas, SemaforosCuentan
<1>10. CASE addEstadoSuspReady
  <2>1. Len(estado_susp_ready') = Len(estado_susp_ready) + 1 /\ estado_susp_ready' # <<>>
    BY <1>10, LongitudAppend, ElementosAgregados DEF addEstadoSuspReady, TypeOK
  <2>2. ReadyExacto'
    BY <1>10, <2>1, Longitudes, <1>0, SMTT(20)
       DEF addEstadoSuspReady, ReadyExacto, ReadyPendientes, Contar
  <2>3. EsperandoExacto'
    BY <1>10, <2>1, Longitudes, <1>0, SMTT(20)
       DEF addEstadoSuspReady, EsperandoExacto, EsperandoPendientes, Contar
  <2>4. BlockExacto'
    BY <1>10, <2>1, Longitudes, <1>0, SMTT(20)
       DEF addEstadoSuspReady, BlockExacto, BlockPendientes, Contar
  <2>5. GradoRespetado'
    BY <1>10, <2>1, Longitudes, <1>0, SMTT(20)
       DEF addEstadoSuspReady, GradoRespetado, EnMemoria, TieneAready, TieneExec, TieneBlock,
         Contar
  <2>6. EleccionVigente'
    BY <1>10, <2>1, Longitudes, <1>0, SMTT(20)
       DEF addEstadoSuspReady, EleccionVigente
  <2> QED
    BY <2>2, <2>3, <2>4, <2>5, <2>6 DEF Cuentas, SemaforosCuentan
<1>11. CASE hilo_block_PostEsperando
  <2>1. ReadyExacto'
    BY <1>11, Longitudes, <1>0, SMTT(20)
       DEF hilo_block_PostEsperando, ReadyExacto, ReadyPendientes, Contar
  <2>2. EsperandoExacto'
    BY <1>11, Longitudes, <1>0, SMTT(30)
       DEF hilo_block_PostEsperando, EsperandoExacto, EsperandoPendientes, Contar
  <2>3. BlockExacto'
    BY <1>11, Longitudes, <1>0, SMTT(20)
       DEF hilo_block_PostEsperando, BlockExacto, BlockPendientes, Contar
  <2>4. GradoRespetado'
    BY <1>11, Longitudes, <1>0, SMTT(20)
       DEF hilo_block_PostEsperando, GradoRespetado, EnMemoria, TieneAready, TieneExec, TieneBlock,
         Contar
  <2>5. EleccionVigente'
    BY <1>11, Longitudes, <1>0, SMTT(20)
       DEF hilo_block_PostEsperando, EleccionVigente
  <2> QED
    BY <2>1, <2>2, <2>3, <2>4, <2>5 DEF Cuentas, SemaforosCuentan
<1>12. CASE hilo_block_AgregarReady
  <2>1. Len(estado_ready') = Len(estado_ready) + 1 /\ estado_ready' # <<>>
    BY <1>12, LongitudAppend, ElementosAgregados DEF hilo_block_AgregarReady, TypeOK
  <2>2. ReadyExacto'
    BY <1>12, <2>1, Longitudes, <1>0, SMTT(20)
       DEF hilo_block_AgregarReady, ReadyExacto, ReadyPendientes, Contar
  <2>3. EsperandoExacto'
    BY <1>12, <2>1, Longitudes, <1>0, SMTT(20)
       DEF hilo_block_AgregarReady, EsperandoExacto, EsperandoPendientes, Contar
  <2>4. BlockExacto'
    BY <1>12, <2>1, Longitudes, <1>0, SMTT(20)
       DEF hilo_block_AgregarReady, BlockExacto, BlockPendientes, Contar
  <2>5. GradoRespetado'
    BY <1>12, <2>1, Longitudes, <1>0, SMTT(20)
       DEF hilo_block_AgregarReady, GradoRespetado, EnMemoria, TieneAready, TieneExec, TieneBlock,
         Contar
  <2>6. EleccionVigente'
    BY <1>12, <2>1, Longitudes, <1>0, SMTT(20)
       DEF hilo_block_AgregarReady, EleccionVigente
  <2> QED
    BY <2>2, <2>3, <2>4, <2>5, <2>6 DEF Cuentas, SemaforosCuentan
<1>13. CASE hilo_block_Interrumpir
  <2>1. ReadyExacto'
    BY <1>13, Longitudes, <1>0, SMTT(20)
       DEF hilo_block_Interrumpir, ReadyExacto, ReadyPendientes, Contar
  <2>2. EsperandoExacto'
    BY <1>13, Longitudes, <1>0, SMTT(20)
       DEF hilo_block_Interrumpir, EsperandoExacto, EsperandoPendientes, Contar
  <2>3. BlockExacto'
    BY <1>13, Longitudes, <1>0, SMTT(20)
       DEF hilo_block_Interrumpir, BlockExacto, BlockPendientes, Contar
  <2>4. GradoRespetado'
    BY <1>13, Longitudes, <1>0, SMTT(20)
       DEF hilo_block_Interrumpir, GradoRespetado, EnMemoria, TieneAready, TieneExec, TieneBlock,
         Contar
  <2>5. EleccionVigente'
    BY <1>13, Longitudes, <1>0, SMTT(20)
       DEF hilo_block_Interrumpir, EleccionVigente
  <2> QED
    BY <2>1, <2>2, <2>3, <2>4, <2>5 DEF Cuentas, SemaforosCuentan
<1>14. CASE hilo_block_PostReady
  <2>1. ReadyExacto'
    BY <1>14, Longitudes, <1>0, SMTT(20)
       DEF hilo_block_PostReady, ReadyExacto, ReadyPendientes, Contar
  <2>2. EsperandoExacto'
    BY <1>14, Longitudes, <1>0, SMTT(20)
       DEF hilo_block_PostReady, EsperandoExacto, EsperandoPendientes, Contar
  <2>3. BlockExacto'
    BY <1>14, Longitudes, <1>0, SMTT(20)
       DEF hilo_block_PostReady, BlockExacto, BlockPendientes, Contar
  <2>4. GradoRespetado'
    BY <1>14, Longitudes, <1>0, SMTT(20)
       DEF hilo_block_PostReady, GradoRespetado, EnMemoria, TieneAready, TieneExec, TieneBlock,
         Contar
  <2>5. EleccionVigente'
    BY <1>14, Longitudes, <1>0, SMTT(20)
       DEF hilo_block_PostReady, EleccionVigente
  <2> QED
    BY <2>1, <2>2, <2>3, <2>4, <2>5 DEF Cuentas, SemaforosCuentan
<1> QED
  BY <1>1, <1>2, <1>3, <1>4, <1>5, <1>6, <1>7, <1>8, <1>9, <1>10, <1>11,
     <1>12, <1>13, <1>14 DEF hilo_block

LEMMA CuentasCpu ==
  (TypeOK /\ Unicidad /\ Cuentas) /\ (CpuResponde \/ CpuLeeInterrupcion) => Cuentas'
<1> SUFFICES ASSUME TypeOK, Unicidad, Cuentas, CpuResponde \/ CpuLeeInterrupcion
             PROVE  Cuentas'
  OBVIOUS
<1>0. /\ ReadyExacto /\ EsperandoExacto /\ BlockExacto
      /\ GradoRespetado /\ EleccionVigente
  BY DEF Cuentas, SemaforosCuentan
<1>1. CASE CpuResponde
  <2>1. ReadyExacto'
    BY <1>1, Longitudes, <1>0, SMTT(20)
       DEF CpuResponde, ReadyExacto, ReadyPendientes, Contar
  <2>2. EsperandoExacto'
    BY <1>1, Longitudes, <1>0, SMTT(20)
       DEF CpuResponde, EsperandoExacto, EsperandoPendientes, Contar
  <2>3. BlockExacto'
    BY <1>1, Longitudes, <1>0, SMTT(20)
       DEF CpuResponde, BlockExacto, BlockPendientes, Contar
  <2>4. GradoRespetado'
    BY <1>1, Longitudes, <1>0, SMTT(20)
       DEF CpuResponde, GradoRespetado, EnMemoria, TieneAready, TieneExec, TieneBlock,
         Contar
  <2>5. EleccionVigente'
    BY <1>1, Longitudes, <1>0, SMTT(20)
       DEF CpuResponde, EleccionVigente
  <2> QED
    BY <2>1, <2>2, <2>3, <2>4, <2>5 DEF Cuentas, SemaforosCuentan
<1>2. CASE CpuLeeInterrupcion
  <2>1. ReadyExacto'
    BY <1>2, Longitudes, <1>0, SMTT(20)
       DEF CpuLeeInterrupcion, ReadyExacto, ReadyPendientes, Contar
  <2>2. EsperandoExacto'
    BY <1>2, Longitudes, <1>0, SMTT(20)
       DEF CpuLeeInterrupcion, EsperandoExacto, EsperandoPendientes, Contar
  <2>3. BlockExacto'
    BY <1>2, Longitudes, <1>0, SMTT(20)
       DEF CpuLeeInterrupcion, BlockExacto, BlockPendientes, Contar
  <2>4. GradoRespetado'
    BY <1>2, Longitudes, <1>0, SMTT(20)
       DEF CpuLeeInterrupcion, GradoRespetado, EnMemoria, TieneAready, TieneExec, TieneBlock,
         Contar
  <2>5. EleccionVigente'
    BY <1>2, Longitudes, <1>0, SMTT(20)
       DEF CpuLeeInterrupcion, EleccionVigente
  <2> QED
    BY <2>1, <2>2, <2>3, <2>4, <2>5 DEF Cuentas, SemaforosCuentan
<1> QED
  BY <1>1, <1>2

LEMMA CuentasInductivo == Spec => []Cuentas
<1>1. Init => Cuentas
  <2>1. Init => SemaforosCuentan
    BY DEF Init, SemaforosCuentan, ReadyExacto, EsperandoExacto, BlockExacto,
           ReadyPendientes, EsperandoPendientes, BlockPendientes, Contar
  <2>2. Init => GradoRespetado
    BY ConstantesKernel DEF Init, GradoRespetado, EnMemoria, TieneAready,
       TieneExec, TieneBlock, Contar
  <2>3. Init => EleccionVigente
    BY DEF Init, EleccionVigente
  <2> QED
    BY <2>1, <2>2, <2>3 DEF Cuentas
<1>2. TypeOK /\ Unicidad /\ Cuentas /\ [Next]_vars => Cuentas'
  <2>1. SemaforosCuentan /\ UNCHANGED vars => SemaforosCuentan'
    BY DEF vars, SemaforosCuentan, ReadyExacto, EsperandoExacto, BlockExacto,
           ReadyPendientes, EsperandoPendientes, BlockPendientes
  <2>2. GradoRespetado /\ UNCHANGED vars => GradoRespetado'
    BY DEF vars, GradoRespetado, EnMemoria, TieneAready, TieneExec, TieneBlock
  <2>3. EleccionVigente /\ UNCHANGED vars => EleccionVigente'
    BY DEF vars, EleccionVigente
  <2>4. Cuentas /\ UNCHANGED vars => Cuentas'
    BY <2>1, <2>2, <2>3 DEF Cuentas
  <2> QED
    BY <2>4, CuentasMain, CuentasAready, CuentasExec, CuentasBlock, CuentasCpu
       DEF Next
<1> QED
  BY <1>1, <1>2, TipoCorrecto, Conservacion, PTL DEF Spec

\* Every semaphore of the kernel equals what its queues hold less what the
\* threads have in transit, for any number of processes.
THEOREM SemaforosExactos == Spec => []SemaforosCuentan
<1>1. Cuentas => SemaforosCuentan
  BY DEF Cuentas
<1> QED
  BY <1>1, CuentasInductivo, PTL

\* The multiprogramming degree is respected, and no place of it is ever lost,
\* for any degree and any number of processes.
THEOREM GradoCorrecto == Spec => []GradoRespetado
<1>1. Cuentas => GradoRespetado
  BY DEF Cuentas
<1> QED
  BY <1>1, CuentasInductivo, PTL

\* No thread of the kernel takes the first element of an empty queue: the
\* equations make each signal it has taken stand for one PCB in its queue.
THEOREM SinNull == Spec => []SinPopVacio
<1>1. TypeOK /\ Cuentas => SinPopVacio
  <2> SUFFICES ASSUME TypeOK, Cuentas PROVE SinPopVacio
    OBVIOUS
  <2>1. ReadyExacto /\ EsperandoExacto /\ BlockExacto /\ EleccionVigente
    BY DEF Cuentas, SemaforosCuentan
  <2>2. pcAready \in {"esperar_grado", "elegir"} =>
          estado_new # <<>> \/ estado_susp_ready # <<>>
    BY <2>1, Longitudes DEF EsperandoExacto, EsperandoPendientes, Contar
  <2>3. pcExec = "planificar" => estado_ready # <<>>
    BY <2>1, Longitudes DEF ReadyExacto, ReadyPendientes, Contar
  <2>4. pcBlock = "sacar_blocked" => estado_blocked # <<>>
    BY <2>1, Longitudes DEF BlockExacto, BlockPendientes, Contar
  <2> QED
    BY <2>1, <2>2, <2>3, <2>4 DEF SinPopVacio, EleccionVigente
<1> QED
  BY <1>1, TipoCorrecto, CuentasInductivo, PTL
=============================================================================
