---------------------------- MODULE MCMemoriaMmu ----------------------------
(* Small instances of MemoriaMmu for TLC: the bytes of each process, and the *)
(* pages they take.                                                          *)
EXTENDS MemoriaMmu

BytesDeUno == <<20>>
BytesDeDos == <<20, 8>>
PaginasNecesarias == [p \in DOMAIN PROCESS_SIZE |-> PaginasDeProceso(p)]
=============================================================================
