--------------------------- MODULE Serializacion ---------------------------
(***************************************************************************)
(* How every process of the system writes its structures in a stream of    *)
(* bytes and reads them back (src/static/src/serialization.c and the       *)
(* bytes_ functions of src/static/src/tads).                               *)
(*                                                                         *)
(* A stream is a sequence of bytes, and a byte says what was written       *)
(* there: byte k of an integer v, a one-byte count n, or character k of an *)
(* identifier.  Reading gives back a value only where its bytes are all    *)
(* there, in order: what is read anywhere else, and memory nobody wrote,   *)
(* is BASURA.  A sum of offsets is a concatenation, an offset a position.  *)
(***************************************************************************)
EXTENDS Integers, Sequences, SequencesExt

CONSTANTS
  BASURA,     \* what memory nobody wrote, or wrote for something else, holds
  Largo       \* Largo[id]: string_length of an identifier of instruction

ASSUME ConstantesSerializacion ==
  /\ BASURA \notin Int
  /\ Largo \in [DOMAIN Largo -> 0 .. 126]

INT == 4      \* sizeof(uint32_t), sizeof(t_op_code), sizeof(t_parameter)

ByteSinEscribir == <<"basura", 0, BASURA>>

-----------------------------------------------------------------------------
(* Integers, counts, identifiers and lists *)

\* Integers one after the other, four bytes each.
Enteros(vs) ==
  [k \in 1 .. INT * Len(vs) |->
     <<"entero", ((k - 1) % INT) + 1, vs[((k - 1) \div INT) + 1]>>]

serialize_int(v) == Enteros(<<v>>)

\* Four bytes at offset o.
deserialize_int(s, o) ==
  IF /\ o + INT <= Len(s)
     /\ \A k \in 1 .. INT : s[o + k] = <<"entero", k, s[o + 1][3]>>
  THEN s[o + 1][3]
  ELSE BASURA

\* output[0] = n: a count goes in one byte, which is a signed char.
cuenta(n) == <<"octeto", 1, ((n + 128) % 256) - 128>>

leerCuenta(s, o) ==
  IF o < Len(s) /\ s[o + 1][1] = "octeto" THEN s[o + 1][3] ELSE BASURA

serialize_list(l) == <<cuenta(Len(l))>> \o Enteros(l)

bytes_list(l) == (Len(l) * INT) + 1

\* n elements after their count.
deserialize_parameters(s, o) ==
  [i \in 1 .. leerCuenta(s, o) |-> deserialize_int(s, o + 1 + ((i - 1) * INT))]

\* The characters and the NUL at the end.
serialize_string(id) ==
  <<cuenta(Largo[id] + 1)>> \o [k \in 1 .. Largo[id] + 1 |-> <<"texto", k, id>>]

EsTexto(s, o, id) ==
  \A k \in 1 .. Largo[id] + 1 :
    o + 1 + k <= Len(s) /\ s[o + 1 + k] = <<"texto", k, id>>

deserialize_string(s, o) ==
  LET ids == {id \in DOMAIN Largo : leerCuenta(s, o) = Largo[id] + 1
                                      /\ EsTexto(s, o, id)}
  IN  IF ids = {} THEN BASURA ELSE CHOOSE id \in ids : TRUE

-----------------------------------------------------------------------------
(* Instructions [id, parameters] and programs [instructions, process_size] *)

\* With their values in V.  A count of parameters is read from a signed char.
InstruccionesDe(V) ==
  {i \in [id : DOMAIN Largo, parameters : Seq(V)] : Len(i.parameters) \in 0 .. 127}

ProgramasDe(V) == [instructions : Seq(InstruccionesDe(V)), process_size : V]

ASSUME BasuraNoEsPrograma == BASURA \notin ProgramasDe(Int)

serialize_instruction(i) == serialize_string(i.id) \o serialize_list(i.parameters)

bytes_instruction(i) == 1 + Largo[i.id] + 1 + bytes_list(i.parameters)

\* Where the parameters of the instruction at offset o are, and where it
\* ends: BASURA if a count that says so is not there.
finDeId(s, o) ==
  IF leerCuenta(s, o) = BASURA THEN BASURA ELSE o + 1 + leerCuenta(s, o)

finDeLista(s, o) ==
  IF o = BASURA \/ leerCuenta(s, o) = BASURA
  THEN BASURA
  ELSE o + 1 + (leerCuenta(s, o) * INT)

deserialize_instruction(s, o) ==
  [id |-> deserialize_string(s, o),
   parameters |-> deserialize_parameters(s, finDeId(s, o))]

serialize_instructions_list(l) ==
  serialize_int(Len(l.instructions))
    \o FlattenSeq([i \in DOMAIN l.instructions |->
                     serialize_instruction(l.instructions[i])])
    \o serialize_int(l.process_size)

bytes_instructions_list(l) ==
  INT + FoldLeft(LAMBDA n, i : n + bytes_instruction(i), 0, l.instructions) + INT

\* Where each of n instructions one after the other ends: each starts where
\* the one before ended.
finales(s, o, n) ==
  LET tras[p \in Int \cup {BASURA}] ==
        IF p = BASURA THEN BASURA ELSE finDeLista(s, finDeId(s, p))
      fin[i \in 0 .. n] == IF i = 0 THEN o ELSE tras[fin[i - 1]]
  IN  fin

\* Mutant: the size of the process is read where the count is.
deserialize_instructions_list_SinDesplazar(s, o) ==
  LET cant == deserialize_int(s, o)
      fin == finales(s, o + INT, cant)
  IN  IF cant = BASURA \/ fin[cant] = BASURA
      THEN BASURA
      ELSE [instructions |-> [i \in 1 .. cant |-> deserialize_instruction(s, fin[i - 1])],
            process_size |-> deserialize_int(s, o)]

deserialize_instructions_list(s, o) ==
  LET cant == deserialize_int(s, o)
      fin == finales(s, o + INT, cant)
  IN  IF cant = BASURA \/ fin[cant] = BASURA
      THEN BASURA
      ELSE [instructions |-> [i \in 1 .. cant |-> deserialize_instruction(s, fin[i - 1])],
            process_size |-> deserialize_int(s, fin[cant])]

-----------------------------------------------------------------------------
(* The structures of the requests to memory *)

serialize_process(p) ==
  Enteros(<<p.pid, p.process_size, p.first_level_table_number>>)

deserialize_process(s) ==
  [pid |-> deserialize_int(s, 0),
   process_size |-> deserialize_int(s, INT),
   first_level_table_number |-> deserialize_int(s, 2 * INT)]

serialize_memory_config(c) == Enteros(<<c.page_size, c.pages_per_table>>)

deserialize_memory_config(s) ==
  [page_size |-> deserialize_int(s, 0),
   pages_per_table |-> deserialize_int(s, INT)]

serialize_page_table_request(r) ==
  Enteros(<<r.table_number, r.entry_number, r.pid>>)

deserialize_page_table_request(s) ==
  [table_number |-> deserialize_int(s, 0),
   entry_number |-> deserialize_int(s, INT),
   pid |-> deserialize_int(s, 2 * INT)]

serialize_memory_write_request(w) ==
  Enteros(<<w.fisical_address, w.data, w.pid>>)

deserialize_memory_write_request(s) ==
  [fisical_address |-> deserialize_int(s, 0),
   data |-> deserialize_int(s, INT),
   pid |-> deserialize_int(s, 2 * INT)]

-----------------------------------------------------------------------------
(* Buffers [size, stream] and packages [operation_code, buffer] *)

\* memcpy of the size declared, whatever the stream has.
serialize_buffer_stream(b) ==
  IF b.size <= Len(b.stream)
  THEN SubSeq(b.stream, 1, b.size)
  ELSE b.stream \o [k \in 1 .. b.size - Len(b.stream) |-> ByteSinEscribir]

serialize_buffer(b) == serialize_int(b.size) \o serialize_buffer_stream(b)

serialize_package(p) ==
  serialize_int(p.operation_code) \o serialize_buffer(p.buffer)

new_package(b, op) == [operation_code |-> op, buffer |-> b]

new_instruction_buffer(l) ==
  [size |-> bytes_instructions_list(l), stream |-> serialize_instructions_list(l)]

-----------------------------------------------------------------------------
(* Properties *)

\* The size a buffer declares is the number of bytes its serializer writes in
\* it.  The two are computed apart (bytes_instructions_list against
\* serialize_instructions_list, instructions_list.c:35 and
\* serialization.c:95): one byte less and malloc'd memory is overrun, one more
\* and what follows the structure is sent.
BufferExacto(b) == b.size = Len(b.stream)
=============================================================================
