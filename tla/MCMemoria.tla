----------------------------- MODULE MCMemoria -----------------------------
(* Small instances of Memoria for TLC: the pages of each process. *)
EXTENDS Memoria

UnProceso == <<3>>
DosProcesos == <<3, 1>>
UnaYDos == <<1, 2>>
=============================================================================
