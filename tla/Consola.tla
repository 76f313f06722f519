------------------------------ MODULE Consola ------------------------------
(***************************************************************************)
(* The console's parser (src/console/src/instructions_parser.c): from the  *)
(* lines of a pseudocode file to the program sent to the kernel.           *)
(*                                                                         *)
(* A line is the record of its identifier and of the numbers after it; an  *)
(* empty line has the identifier "".  The files are well formed: a line    *)
(* has at least the numbers its instruction takes, and they are not        *)
(* negative.                                                               *)
(***************************************************************************)
EXTENDS Integers, Sequences, SequencesExt

\* Numbers taken from the line: none for EXIT or for an unknown identifier.
Aridad(id) ==
  CASE id \in {"COPY", "WRITE"} -> 2
    [] id \in {"I/O", "READ", "NO_OP"} -> 1
    [] OTHER -> 0

parse_instruction(linea) ==
  [id |-> linea.id, parameters |-> SubSeq(linea.params, 1, Aridad(linea.id))]

\* Mutant: the copies are counted from 0.
add_instruction_UnaDeMas(linea) ==
  IF linea.id = ""
  THEN <<>>
  ELSE LET instruccion == parse_instruction(linea)
           copias == IF linea.id = "NO_OP" THEN instruccion.parameters[1] ELSE 0
       IN  [k \in 1 .. 1 + copias |-> instruccion]

\* A NO_OP of n is added once, and then copied for i = 1 .. n - 1, each copy
\* with its parameter n.
add_instruction(linea) ==
  IF linea.id = ""
  THEN <<>>
  ELSE LET instruccion == parse_instruction(linea)
           copias == IF linea.id = "NO_OP" /\ instruccion.parameters[1] > 1
                     THEN instruccion.parameters[1] - 1 ELSE 0
       IN  [k \in 1 .. 1 + copias |-> instruccion]

\* The program of a console: the instructions of its file and the size given
\* on its command line.
parse_pseudocode_file(archivo) ==
  [instructions |-> FlattenSeq([i \in DOMAIN archivo.lineas |->
                                  add_instruction(archivo.lineas[i])]),
   process_size |-> archivo.process_size]
=============================================================================
