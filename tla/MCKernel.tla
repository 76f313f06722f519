------------------------------ MODULE MCKernel ------------------------------
(* Small instances of Kernel for TLC. *)
EXTENDS KernelCiclo

NoOp == [id |-> "NO_OP", tiempo |-> 0]
ES(ms) == [id |-> "I/O", tiempo |-> ms]
Exit == [id |-> "EXIT", tiempo |-> 0]

\* A short I/O that fits in the maximum, and a long one that does not.
ProgramasES == {<<NoOp, ES(100), Exit>>, <<ES(300), Exit>>}

\* A burst that may be preempted, then an I/O that a wait puts over the maximum.
ProgramasSRT == {<<NoOp, ES(100), Exit>>}
=============================================================================
