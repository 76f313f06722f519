------------------------------ MODULE MCReloj ------------------------------
(* The pages of one process with four frames, under CLOCK-M. *)
EXTENDS Reloj
=============================================================================
