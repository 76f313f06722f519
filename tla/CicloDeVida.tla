---------------------------- MODULE CicloDeVida ----------------------------
(***************************************************************************)
(* What the kernel promises of processes, with no threads, queues or       *)
(* semaphores: the seven-state life cycle, one process in EXEC, and at     *)
(* most Grado processes in main memory.                                    *)
(***************************************************************************)
EXTENDS Integers, FiniteSets

CONSTANTS Procesos, Grado

VARIABLE estado

Estados == {"NONE", "NEW", "READY", "EXEC", "BLOCKED", "SUSP_BLOCKED",
            "SUSP_READY", "EXIT"}

Residentes == {p \in Procesos : estado[p] \in {"READY", "EXEC", "BLOCKED"}}

Pasa(p, desde, hasta) ==
  /\ estado[p] = desde
  /\ estado' = [estado EXCEPT ![p] = hasta]

Init == estado = [p \in Procesos |-> "NONE"]

Llegar(p) == Pasa(p, "NONE", "NEW")

Admitir(p) ==
  /\ Cardinality(Residentes) < Grado
  /\ Pasa(p, "NEW", "READY") \/ Pasa(p, "SUSP_READY", "READY")

Despachar(p) ==
  /\ \A q \in Procesos : estado[q] # "EXEC"
  /\ Pasa(p, "READY", "EXEC")

Desalojar(p) == Pasa(p, "EXEC", "READY")
Bloquear(p) == Pasa(p, "EXEC", "BLOCKED")
Terminar(p) == Pasa(p, "EXEC", "EXIT")
TerminarIO(p) == Pasa(p, "BLOCKED", "READY")
Suspender(p) == Pasa(p, "BLOCKED", "SUSP_BLOCKED")
TerminarIOSuspendido(p) == Pasa(p, "SUSP_BLOCKED", "SUSP_READY")

Next ==
  \E p \in Procesos :
    \/ Llegar(p) \/ Admitir(p) \/ Despachar(p) \/ Desalojar(p) \/ Bloquear(p)
    \/ Terminar(p) \/ TerminarIO(p) \/ Suspender(p) \/ TerminarIOSuspendido(p)

Spec == Init /\ [][Next]_estado
=============================================================================
