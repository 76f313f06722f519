------------------------------ MODULE MCCanal ------------------------------
(* A small instance of Canal for TLC: one request of each operation. *)
EXTENDS Canal

LargoDeIds ==
  ("NO_OP" :> 5) @@ ("I/O" :> 3) @@ ("COPY" :> 4) @@ ("EXIT" :> 4)

Linea(id, params) == [id |-> id, params |-> params]

Archivo ==
  [lineas |-> <<Linea("NO_OP", <<2>>), Linea("", <<>>), Linea("COPY", <<8, 4>>),
                Linea("NO_OP", <<0>>), Linea("I/O", <<7>>), Linea("EXIT", <<>>)>>,
   process_size |-> 64]

Proceso == recibir_paquete_proceso(
             serialize_instructions_list(parse_pseudocode_file(Archivo)),
             bytes_instructions_list(parse_pseudocode_file(Archivo)))

Pcb == [iniciarPcb(Proceso, 1, 10) EXCEPT !.tablaDePaginas = 3, !.PC = 2]

Conv(op, dato) == [op |-> op, dato |-> dato]

UnaDeCada ==
  {Conv("INSTRUCTIONS", Archivo),
   Conv("REQ_PCB_A_EJECUTAR_KERNEL_CPU", Pcb),
   Conv("REQ_INTERRUPCION_KERNEL_CPU", 1),
   Conv("GET_MEMORY_CONFIG_REQUEST", 1),
   Conv("READ_MEMORY_REQUEST", 9),
   Conv("WRITE_MEMORY_REQUEST", [fisical_address |-> 9, data |-> 5, pid |-> 2])}
    \cup {Conv(op, [pid |-> 2, process_size |-> 64,
                    first_level_table_number |-> 0]) : op \in OpsProceso}
    \cup {Conv(op, [table_number |-> 3, entry_number |-> 1, pid |-> 2]) :
            op \in OpsTabla}
=============================================================================
