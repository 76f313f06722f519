---------------------------- MODULE KernelCiclo ----------------------------
(* Kernel implements CicloDeVida: the state of a process, read off the queue *)
(* or the thread that holds its PCB.                                         *)
EXTENDS Kernel

EnCola(p, cola) == \E i \in DOMAIN cola : cola[i].id = p

EnExec(p) ==
  \/ pcExec \in {"quitar", "ejecutar"} /\ pcbExec.id = p
  \/ pcExec = "esperar_cpu" /\ dispatch.pcb.id = p

EnDispositivo(p, etapas) == pcBlock \in etapas /\ ultimoIO.pcb.id = p

\* A PCB Aready holds is READY; one the dispatcher has picked is in EXEC,
\* even while SRT still has it in the list; a console is told after EXIT.
EstadoDe(p) ==
  LET terminado == p \in notificadas \/ (pcExec = "notificar" /\ pcbExec.id = p)
      nuevo == EnCola(p, estado_new) \/ (pcMain = "ingresar" /\ pcbMain.id = p)
      bloqueado ==
        \/ \E i \in DOMAIN estado_blocked : estado_blocked[i].pcb.id = p
        \/ EnDispositivo(p, {"decidir", "io_en_memoria", "io_hasta_maximo",
                             "suspender"})
  IN  IF p >= id_nuevo_proceso THEN "NONE"
      ELSE IF terminado THEN "EXIT"
      ELSE IF EnExec(p) THEN "EXEC"
      ELSE IF nuevo THEN "NEW"
      ELSE IF EnCola(p, estado_susp_ready) THEN "SUSP_READY"
      ELSE IF EnDispositivo(p, {"post_grado", "io_suspendido"}) THEN "SUSP_BLOCKED"
      ELSE IF bloqueado THEN "BLOCKED"
      ELSE "READY"

Ciclo == INSTANCE CicloDeVida WITH
  Procesos <- 0 .. MaxProcesos - 1,
  Grado <- GRADO_MULTIPROGRAMACION,
  estado <- [p \in 0 .. MaxProcesos - 1 |-> EstadoDe(p)]

\* Whatever the threads interleave, every process goes through the states of
\* the life cycle and no other way, the CPU has one process at a time, and a
\* process is admitted only while fewer than the degree are in memory.
ImplementaCiclo == Ciclo!Spec
=============================================================================
