---------------------------- MODULE MCKernelCpu ----------------------------
(* Small instances of KernelCpu for TLC. *)
EXTENDS KernelCpu

NoOp == [id |-> "NO_OP", tiempo |-> 0]
ES(ms) == [id |-> "I/O", tiempo |-> ms]
Exit == [id |-> "EXIT", tiempo |-> 0]

ProgramasSRT == {<<NoOp, NoOp, Exit>>, <<NoOp, ES(300), NoOp, Exit>>}
=============================================================================
