------------------------ MODULE SerializacionProofs ------------------------
(***************************************************************************)
(* The theorems about the bytes: integers, the structures made of them,    *)
(* the programs, of any length, and the PCBs that carry them are read back *)
(* as they were written, wherever they are in a stream, and the sizes      *)
(* declared for them are the bytes they take; and what is read of a stream *)
(* cut short.                                                              *)
(***************************************************************************)
EXTENDS Estructuras, SequenceTheorems, WellFoundedInduction, TLAPS

-----------------------------------------------------------------------------
(* Streams *)

\* A function from 1 to n is a stream of n bytes.
LEMMA FlujoDe ==
  ASSUME NEW S, NEW n \in Nat, NEW f \in [1 .. n -> S]
  PROVE  f \in Seq(S) /\ Len(f) = n /\ DOMAIN f = 1 .. n
<1>1. f = [i \in 1 .. n |-> f[i]] /\ \A i \in 1 .. n : f[i] \in S
  OBVIOUS
<1>2. f \in Seq(S)
  <2>1. [i \in 1 .. n |-> f[i]] \in Seq(S)
    BY <1>1, IsASeq
  <2> QED BY <2>1, <1>1
<1>3. Len(f) \in Nat /\ DOMAIN f = 1 .. Len(f)
  BY <1>2, LenProperties
<1> QED BY <1>2, <1>3

\* A stream of some bytes is one of those and others.
LEMMA FlujoMayor ==
  ASSUME NEW S, NEW T, NEW s \in Seq(S), S \subseteq T
  PROVE  s \in Seq(T)
<1>1. s \in [1 .. Len(s) -> S] /\ Len(s) \in Nat
  BY LenProperties
<1>2. s \in [1 .. Len(s) -> T]
  BY <1>1
<1> QED BY <1>1, <1>2, FlujoDe

\* What is written after n bytes starts at offset n.
LEMMA Tras ==
  ASSUME NEW S, NEW T, NEW s \in Seq(S), NEW t \in Seq(T)
  PROVE  /\ s \o t \in Seq(S \cup T)
         /\ Len(s \o t) = Len(s) + Len(t)
         /\ \A i \in 1 .. Len(s) : (s \o t)[i] = s[i]
         /\ \A i \in 1 .. Len(t) : (s \o t)[Len(s) + i] = t[i]
<1>1. s \in Seq(S \cup T) /\ t \in Seq(S \cup T)
  BY FlujoMayor
<1>2. Len(s) \in Nat /\ Len(t) \in Nat
  BY LenProperties
<1>3. /\ s \o t \in Seq(S \cup T)
      /\ Len(s \o t) = Len(s) + Len(t)
      /\ \A i \in 1 .. Len(s) + Len(t) :
           (s \o t)[i] = IF i <= Len(s) THEN s[i] ELSE t[i - Len(s)]
  BY <1>1, ConcatProperties
<1>4. ASSUME NEW i \in 1 .. Len(s) PROVE (s \o t)[i] = s[i]
  <2>1. i \in 1 .. Len(s) + Len(t) /\ i <= Len(s)
    BY <1>2
  <2> QED BY <2>1, <1>3
<1>5. ASSUME NEW i \in 1 .. Len(t) PROVE (s \o t)[Len(s) + i] = t[i]
  <2>1. /\ Len(s) + i \in 1 .. Len(s) + Len(t)
        /\ ~(Len(s) + i <= Len(s)) /\ (Len(s) + i) - Len(s) = i
    BY <1>2
  <2> QED BY <2>1, <1>3
<1> QED BY <1>3, <1>4, <1>5

-----------------------------------------------------------------------------
(* Integers *)

Octetos(V) == {"entero"} \X Int \X V

\* Enteros writes the bytes of each integer in their order, one integer after
\* the other.
LEMMA FormaDeEnteros ==
  ASSUME NEW V, NEW vs \in Seq(V)
  PROVE  /\ Enteros(vs) \in Seq(Octetos(V))
         /\ Len(Enteros(vs)) = INT * Len(vs)
         /\ \A i \in 1 .. Len(vs), k \in 1 .. INT :
              /\ (INT * (i - 1)) + k \in 1 .. Len(Enteros(vs))
              /\ Enteros(vs)[(INT * (i - 1)) + k] = <<"entero", k, vs[i]>>
<1>1. Len(vs) \in Nat /\ vs \in [1 .. Len(vs) -> V]
  BY LenProperties
<1> DEFINE n == INT * Len(vs)
           byte(k) == <<"entero", ((k - 1) % INT) + 1, vs[((k - 1) \div INT) + 1]>>
<1>2. n \in Nat
  BY <1>1 DEF INT
<1>3. Enteros(vs) = [k \in 1 .. n |-> byte(k)]
  BY DEF Enteros
<1>4. \A k \in 1 .. n : byte(k) \in Octetos(V)
  <2> SUFFICES ASSUME NEW k \in 1 .. n PROVE byte(k) \in Octetos(V)
    OBVIOUS
  <2>1. ((k - 1) \div INT) + 1 \in 1 .. Len(vs) /\ ((k - 1) % INT) + 1 \in Int
    BY <1>1 DEF INT
  <2>2. vs[((k - 1) \div INT) + 1] \in V
    BY <1>1, <2>1
  <2> QED BY <2>1, <2>2 DEF Octetos
<1>5. Enteros(vs) \in [1 .. n -> Octetos(V)]
  BY <1>3, <1>4
<1>6. Enteros(vs) \in Seq(Octetos(V)) /\ Len(Enteros(vs)) = n
  BY <1>2, <1>5, FlujoDe
<1>7. ASSUME NEW i \in 1 .. Len(vs), NEW k \in 1 .. INT
      PROVE  /\ (INT * (i - 1)) + k \in 1 .. n
             /\ Enteros(vs)[(INT * (i - 1)) + k] = <<"entero", k, vs[i]>>
  <2> DEFINE j == (INT * (i - 1)) + k
  <2>1. j \in 1 .. n /\ ((j - 1) % INT) + 1 = k /\ ((j - 1) \div INT) + 1 = i
    BY <1>1 DEF INT
  <2>2. Enteros(vs)[j] = byte(j)
    BY <2>1, <1>3
  <2> QED BY <2>1, <2>2
<1> QED BY <1>6, <1>7

\* An integer whose four bytes are together is read.
LEMMA LeerEntero ==
  ASSUME NEW s, NEW o \in Nat, NEW v, Len(s) \in Nat, o + INT <= Len(s),
         \A k \in 1 .. INT : s[o + k] = <<"entero", k, v>>
  PROVE  deserialize_int(s, o) = v
<1>1. s[o + 1] = <<"entero", 1, v>>
  BY DEF INT
<1>2. s[o + 1][3] = v
  BY <1>1
<1> QED BY <1>2 DEF deserialize_int

\* What is read at an offset of a stream is read at the same offset of any
\* stream that goes on after it, and beyond the bytes written before it.
LEMMA LeerTras ==
  ASSUME NEW S, NEW T, NEW s \in Seq(S), NEW t \in Seq(T), NEW o \in Nat, NEW v,
         o + INT <= Len(t),
         \A k \in 1 .. INT : t[o + k] = <<"entero", k, v>>
  PROVE  deserialize_int(s \o t, Len(s) + o) = v
<1>1. Len(s) \in Nat /\ Len(t) \in Nat
  BY LenProperties
<1>2. \A k \in 1 .. INT : (s \o t)[(Len(s) + o) + k] = <<"entero", k, v>>
  <2> SUFFICES ASSUME NEW k \in 1 .. INT
               PROVE  (s \o t)[(Len(s) + o) + k] = <<"entero", k, v>>
    OBVIOUS
  <2>1. o + k \in 1 .. Len(t) /\ (Len(s) + o) + k = Len(s) + (o + k)
    BY <1>1 DEF INT
  <2> QED BY <2>1, Tras
<1>3. Len(s \o t) = Len(s) + Len(t)
  BY Tras
<1> DEFINE u == s \o t
           p == Len(s) + o
<1>4. /\ p \in Nat /\ Len(u) \in Nat /\ p + INT <= Len(u)
      /\ \A k \in 1 .. INT : u[p + k] = <<"entero", k, v>>
  <2>1. \A k \in 1 .. INT : u[p + k] = <<"entero", k, v>>
    BY <1>2
  <2>2. p \in Nat /\ Len(u) \in Nat /\ p + INT <= Len(u)
    <3> HIDE DEF u
    <3>1. Len(u) = Len(s) + Len(t)
      BY <1>3 DEF u
    <3> QED BY <3>1, <1>1 DEF INT
  <2> QED BY <2>1, <2>2
<1> HIDE DEF u, p
<1>5. deserialize_int(u, p) = v
  BY <1>4, LeerEntero
<1> QED BY <1>5 DEF u, p

\* Integer i of a stream of integers is read at offset 4(i - 1).
THEOREM EnterosLeidos ==
  ASSUME NEW V, NEW vs \in Seq(V), NEW i \in 1 .. Len(vs)
  PROVE  deserialize_int(Enteros(vs), INT * (i - 1)) = vs[i]
<1>1. Len(vs) \in Nat
  BY LenProperties
<1> DEFINE e == Enteros(vs)
           o == INT * (i - 1)
<1>2. o \in Nat /\ o + INT <= INT * Len(vs) /\ INT * Len(vs) \in Nat
  BY <1>1 DEF INT
<1>3. Len(e) = INT * Len(vs)
      /\ \A k \in 1 .. INT : e[o + k] = <<"entero", k, vs[i]>>
  BY FormaDeEnteros
<1> HIDE DEF e, o
<1>4. deserialize_int(e, o) = vs[i]
  BY <1>2, <1>3, LeerEntero
<1> QED BY <1>4 DEF e, o

\* So it is if the stream goes on with anything else.
THEOREM EnterosLeidosDeUnPrefijo ==
  ASSUME NEW V, NEW vs \in Seq(V), NEW i \in 1 .. Len(vs),
         NEW T, NEW resto \in Seq(T)
  PROVE  deserialize_int(Enteros(vs) \o resto, INT * (i - 1)) = vs[i]
<1>1. Len(vs) \in Nat /\ Len(resto) \in Nat
  BY LenProperties
<1> DEFINE e == Enteros(vs)
           o == INT * (i - 1)
           u == e \o resto
<1>2. o \in Nat /\ o + INT <= INT * Len(vs) /\ INT * Len(vs) \in Nat
  BY <1>1 DEF INT
<1>3. e \in Seq(Octetos(V)) /\ Len(e) = INT * Len(vs)
  BY FormaDeEnteros
<1>4. \A k \in 1 .. INT : o + k \in 1 .. Len(e) /\ e[o + k] = <<"entero", k, vs[i]>>
  BY FormaDeEnteros
<1> HIDE DEF e, o
<1>5. Len(u) = Len(e) + Len(resto) /\ \A k \in 1 .. Len(e) : u[k] = e[k]
  <2>1. PICK S : e \in Seq(S)
    BY <1>3
  <2> QED BY <2>1, Tras
<1>6. \A k \in 1 .. INT : u[o + k] = <<"entero", k, vs[i]>>
  BY <1>4, <1>5
<1> HIDE DEF u
<1>7. deserialize_int(u, o) = vs[i]
  <2>1. Len(u) \in Nat /\ o + INT <= Len(u)
    BY <1>1, <1>2, <1>3, <1>5 DEF INT
  <2> QED BY <2>1, <1>2, <1>6, LeerEntero
<1> QED BY <1>7 DEF u, e, o

\* The integers of a stream of one, two or three, by offset.
LEMMA Leido1 ==
  ASSUME NEW a
  PROVE  deserialize_int(serialize_int(a), 0) = a
<1> DEFINE vs == <<a>>
           V == {a}
<1>1. vs \in Seq(V) /\ 1 \in 1 .. Len(vs) /\ vs[1] = a
  OBVIOUS
<1> HIDE DEF vs, V
<1>2. deserialize_int(Enteros(vs), INT * (1 - 1)) = vs[1]
  BY <1>1, EnterosLeidos
<1>3. INT * (1 - 1) = 0
  BY DEF INT
<1> QED BY <1>1, <1>2, <1>3 DEF vs, serialize_int

LEMMA Leidos2 ==
  ASSUME NEW a, NEW b
  PROVE  /\ deserialize_int(Enteros(<<a, b>>), 0) = a
         /\ deserialize_int(Enteros(<<a, b>>), INT) = b
<1> DEFINE vs == <<a, b>>
           V == {a, b}
<1>1. vs \in Seq(V) /\ Len(vs) = 2 /\ vs[1] = a /\ vs[2] = b
  OBVIOUS
<1> HIDE DEF vs, V
<1>2. \A i \in 1 .. 2 : deserialize_int(Enteros(vs), INT * (i - 1)) = vs[i]
  BY <1>1, EnterosLeidos
<1>3. INT * (1 - 1) = 0 /\ INT * (2 - 1) = INT
  BY DEF INT
<1>4. /\ deserialize_int(Enteros(vs), INT * (1 - 1)) = vs[1]
      /\ deserialize_int(Enteros(vs), INT * (2 - 1)) = vs[2]
  BY <1>2
<1> QED BY <1>1, <1>3, <1>4 DEF vs

LEMMA Leidos3 ==
  ASSUME NEW a, NEW b, NEW c
  PROVE  /\ deserialize_int(Enteros(<<a, b, c>>), 0) = a
         /\ deserialize_int(Enteros(<<a, b, c>>), INT) = b
         /\ deserialize_int(Enteros(<<a, b, c>>), 2 * INT) = c
<1> DEFINE vs == <<a, b, c>>
           V == {a, b, c}
<1>1. vs \in Seq(V) /\ Len(vs) = 3 /\ vs[1] = a /\ vs[2] = b /\ vs[3] = c
  OBVIOUS
<1> HIDE DEF vs, V
<1>2. \A i \in 1 .. 3 : deserialize_int(Enteros(vs), INT * (i - 1)) = vs[i]
  BY <1>1, EnterosLeidos
<1>3. INT * (1 - 1) = 0 /\ INT * (2 - 1) = INT /\ INT * (3 - 1) = 2 * INT
  BY DEF INT
<1>4. /\ deserialize_int(Enteros(vs), INT * (1 - 1)) = vs[1]
      /\ deserialize_int(Enteros(vs), INT * (2 - 1)) = vs[2]
      /\ deserialize_int(Enteros(vs), INT * (3 - 1)) = vs[3]
  BY <1>2
<1> QED BY <1>1, <1>3, <1>4 DEF vs

-----------------------------------------------------------------------------
(* The requests and the configuration of memory *)

\* The four structures that kernel and CPU exchange with memory are read back
\* as they were written, in all their fields (serialization.c:187-255).
THEOREM EstructurasDeMemoriaIntactas ==
  ASSUME NEW p \in [pid : Int, process_size : Int, first_level_table_number : Int],
         NEW c \in [page_size : Int, pages_per_table : Int],
         NEW r \in [table_number : Int, entry_number : Int, pid : Int],
         NEW w \in [fisical_address : Int, data : Int, pid : Int]
  PROVE  /\ deserialize_process(serialize_process(p)) = p
         /\ deserialize_memory_config(serialize_memory_config(c)) = c
         /\ deserialize_page_table_request(serialize_page_table_request(r)) = r
         /\ deserialize_memory_write_request(serialize_memory_write_request(w)) = w
<1>1. deserialize_process(serialize_process(p)) = p
  BY Leidos3 DEF serialize_process, deserialize_process
<1>2. deserialize_memory_config(serialize_memory_config(c)) = c
  BY Leidos2 DEF serialize_memory_config, deserialize_memory_config
<1>3. deserialize_page_table_request(serialize_page_table_request(r)) = r
  BY Leidos3 DEF serialize_page_table_request, deserialize_page_table_request
<1>4. deserialize_memory_write_request(serialize_memory_write_request(w)) = w
  BY Leidos3 DEF serialize_memory_write_request, deserialize_memory_write_request
<1> QED BY <1>1, <1>2, <1>3, <1>4

-----------------------------------------------------------------------------
(* Declared sizes *)

\* Integers take four bytes each.
LEMMA LargoDeEnteros ==
  ASSUME NEW a, NEW b, NEW c
  PROVE  /\ Len(serialize_int(a)) = INT
         /\ Len(Enteros(<<a, b>>)) = 2 * INT
         /\ Len(Enteros(<<a, b, c>>)) = 3 * INT
<1>1. <<a>> \in Seq({a}) /\ Len(<<a>>) = 1
  OBVIOUS
<1>2. <<a, b>> \in Seq({a, b}) /\ Len(<<a, b>>) = 2
  OBVIOUS
<1>3. <<a, b, c>> \in Seq({a, b, c}) /\ Len(<<a, b, c>>) = 3
  OBVIOUS
<1>4. Len(serialize_int(a)) = INT * 1
  BY <1>1, FormaDeEnteros DEF serialize_int
<1>5. Len(Enteros(<<a, b>>)) = INT * 2
  BY <1>2, FormaDeEnteros
<1>6. Len(Enteros(<<a, b, c>>)) = INT * 3
  BY <1>3, FormaDeEnteros
<1> QED BY <1>4, <1>5, <1>6 DEF INT

\* The size declared for a structure of integers is that of its bytes, for
\* every operation of the kernel's table that carries one (tamanioEstructura
\* against serializarEstructura, estructura.c:331 and 410).
THEOREM EnterosExactos ==
  ASSUME NEW e,
         NEW op \in OpsUint \cup OpsConsulta
                    \cup {"REQ_WRITE_CPU_MEMORIA", "RES_TRADUCCION_DIRECCIONES_MEMORIA_CPU"}
  PROVE  BufferExacto(armarPaqueteConKernel(e, op).buffer)
<1> DEFINE sr == serializarEstructuraKernel(e, op)
<1>1. armarPaqueteConKernel(e, op).buffer = [size |-> tamanioEstructura(e, op), stream |-> sr]
  BY DEF armarPaqueteConKernel, new_package
<1> SUFFICES tamanioEstructura(e, op) = Len(sr)
  BY <1>1 DEF BufferExacto
<1>2. CASE op \in OpsUint
  <2>1. sr = serialize_int(e) /\ tamanioEstructura(e, op) = INT
    BY <1>2 DEF serializarEstructuraKernel, serializarEstructuraCpu, tamanioEstructura,
                serializarUINT32_T, OpsUint, OpsPcb, OpsConsulta
  <2>2. Len(serialize_int(e)) = INT
    BY LargoDeEnteros
  <2> HIDE DEF sr
  <2> QED BY <2>1, <2>2
<1>3. CASE op \in OpsConsulta
  <2>1. /\ sr = Enteros(<<e.entradaPagina, e.tablaDePaginas, e.id>>)
        /\ tamanioEstructura(e, op) = 3 * INT
    BY <1>3 DEF serializarEstructuraKernel, tamanioEstructura,
                serializarConsultaTablaPagina, OpsUint, OpsPcb, OpsConsulta
  <2>2. Len(Enteros(<<e.entradaPagina, e.tablaDePaginas, e.id>>)) = 3 * INT
    BY LargoDeEnteros
  <2> HIDE DEF sr
  <2> QED BY <2>1, <2>2
<1>4. CASE op = "REQ_WRITE_CPU_MEMORIA"
  <2>1. /\ sr = Enteros(<<e.direccionFisica, e.dato, e.id>>)
        /\ tamanioEstructura(e, op) = 3 * INT
    BY <1>4 DEF serializarEstructuraKernel, tamanioEstructura,
                serializarPeticionEscritura, OpsUint, OpsPcb, OpsConsulta
  <2>2. Len(Enteros(<<e.direccionFisica, e.dato, e.id>>)) = 3 * INT
    BY LargoDeEnteros
  <2> HIDE DEF sr
  <2> QED BY <2>1, <2>2
<1>5. CASE op = "RES_TRADUCCION_DIRECCIONES_MEMORIA_CPU"
  <2>1. /\ sr = Enteros(<<e.tamanio_pagina, e.paginas_por_tabla>>)
        /\ tamanioEstructura(e, op) = 2 * INT
    BY <1>5 DEF serializarEstructuraKernel, tamanioEstructura,
                serializarTraduccionDirecciones, OpsUint, OpsPcb, OpsConsulta
  <2>2. Len(Enteros(<<e.tamanio_pagina, e.paginas_por_tabla>>)) = 2 * INT
    BY LargoDeEnteros
  <2> HIDE DEF sr
  <2> QED BY <2>1, <2>2
<1> QED BY <1>2, <1>3, <1>4, <1>5

-----------------------------------------------------------------------------
(* PCBs, of any program *)

EnterosDePcb(pcb) ==
  <<pcb.id, pcb.tamanioProceso, pcb.PC, pcb.tablaDePaginas, pcb.estimacionRafaga,
    pcb.lengthUltimaRafaga, pcb.sizeInstrucciones>>

\* Seven integers.
LEMMA FormaDePcb ==
  ASSUME NEW pcb, NEW S, serialize_instructions_list(pcb.instrucciones) \in Seq(S)
  PROVE  LET ints == EnterosDePcb(pcb)
             V == {ints[i] : i \in 1 .. EnterosPcb}
         IN  /\ ints \in Seq(V) /\ Len(ints) = EnterosPcb
             /\ Enteros(ints) \in Seq(Octetos(V))
             /\ Len(Enteros(ints)) = EnterosPcb * INT
             /\ pcb_serializar_estruc(pcb)
                  = Enteros(ints) \o serialize_instructions_list(pcb.instrucciones)
             /\ pcb_serializar_estruc(pcb) \in Seq(Octetos(V) \cup S)
             /\ Len(pcb_serializar_estruc(pcb))
                  = (EnterosPcb * INT)
                      + Len(serialize_instructions_list(pcb.instrucciones))
<1> DEFINE ints == EnterosDePcb(pcb)
           V == {ints[i] : i \in 1 .. EnterosPcb}
           prog == serialize_instructions_list(pcb.instrucciones)
<1>1. ints \in [1 .. EnterosPcb -> V]
  <2>1. DOMAIN ints = 1 .. EnterosPcb /\ ints = [i \in 1 .. EnterosPcb |-> ints[i]]
    BY DEF EnterosDePcb, EnterosPcb
  <2> QED BY <2>1
<1>2. ints \in Seq(V) /\ Len(ints) = EnterosPcb
  <2>1. EnterosPcb \in Nat
    BY DEF EnterosPcb
  <2> QED BY <2>1, <1>1, FlujoDe
<1>3. pcb_serializar_estruc(pcb) = Enteros(ints) \o prog
  BY DEF pcb_serializar_estruc, EnterosDePcb
<1> HIDE DEF ints, V, prog
<1>4. Enteros(ints) \in Seq(Octetos(V)) /\ Len(Enteros(ints)) = INT * EnterosPcb
  BY <1>2, FormaDeEnteros
<1>5. prog \in Seq(S)
  BY DEF prog
<1>6. /\ Enteros(ints) \o prog \in Seq(Octetos(V) \cup S)
      /\ Len(Enteros(ints) \o prog) = Len(Enteros(ints)) + Len(prog)
  <2> DEFINE A == Octetos(V)
             e == Enteros(ints)
  <2>1. e \in Seq(A)
    BY <1>4
  <2> HIDE DEF A, e
  <2>2. e \o prog \in Seq(A \cup S) /\ Len(e \o prog) = Len(e) + Len(prog)
    BY <2>1, <1>5, Tras
  <2> QED BY <2>2 DEF A, e
<1>7. INT * EnterosPcb = EnterosPcb * INT
  BY DEF INT, EnterosPcb
<1> QED BY <1>2, <1>3, <1>4, <1>6, <1>7 DEF ints, V, prog

\* The integers of a PCB are read back in their fields, whatever its program:
\* kernel and CPU agree on their order (estructura.c:127-160 and
\* protocolo_transferencia.c:5-37).
THEOREM EnterosDePcbIntactos ==
  ASSUME NEW pcb, NEW S, serialize_instructions_list(pcb.instrucciones) \in Seq(S)
  PROVE  LET leido == pcb_deserializar_estrucs(pcb_serializar_estruc(pcb), 0)
         IN  /\ leido.id = pcb.id /\ leido.tamanioProceso = pcb.tamanioProceso
             /\ leido.PC = pcb.PC /\ leido.tablaDePaginas = pcb.tablaDePaginas
             /\ leido.estimacionRafaga = pcb.estimacionRafaga
             /\ leido.lengthUltimaRafaga = pcb.lengthUltimaRafaga
             /\ leido.sizeInstrucciones = pcb.sizeInstrucciones
<1> DEFINE ints == EnterosDePcb(pcb)
           V == {ints[i] : i \in 1 .. EnterosPcb}
           prog == serialize_instructions_list(pcb.instrucciones)
           s == pcb_serializar_estruc(pcb)
<1>1. /\ ints \in Seq(V) /\ Len(ints) = EnterosPcb
      /\ s = Enteros(ints) \o prog
  BY FormaDePcb
<1> HIDE DEF ints, V, s
<1>2. \A i \in 1 .. 7 : deserialize_int(s, INT * (i - 1)) = ints[i]
  <2> SUFFICES ASSUME NEW i \in 1 .. 7
               PROVE  deserialize_int(s, INT * (i - 1)) = ints[i]
    OBVIOUS
  <2>1. i \in 1 .. Len(ints)
    BY <1>1 DEF EnterosPcb
  <2>2. prog \in Seq(S)
    OBVIOUS
  <2> HIDE DEF prog
  <2> QED BY <1>1, <2>1, <2>2, EnterosLeidosDeUnPrefijo
<1>3. /\ INT * (1 - 1) = 0 /\ INT * (2 - 1) = 0 + INT /\ INT * (3 - 1) = 0 + (2 * INT)
      /\ INT * (4 - 1) = 0 + (3 * INT) /\ INT * (5 - 1) = 0 + (4 * INT)
      /\ INT * (6 - 1) = 0 + (5 * INT) /\ INT * (7 - 1) = 0 + (6 * INT)
  BY DEF INT
<1>4. /\ deserialize_int(s, INT * (1 - 1)) = ints[1]
      /\ deserialize_int(s, INT * (2 - 1)) = ints[2]
      /\ deserialize_int(s, INT * (3 - 1)) = ints[3]
      /\ deserialize_int(s, INT * (4 - 1)) = ints[4]
      /\ deserialize_int(s, INT * (5 - 1)) = ints[5]
      /\ deserialize_int(s, INT * (6 - 1)) = ints[6]
      /\ deserialize_int(s, INT * (7 - 1)) = ints[7]
  BY <1>2
<1>5. /\ ints[1] = pcb.id /\ ints[2] = pcb.tamanioProceso /\ ints[3] = pcb.PC
      /\ ints[4] = pcb.tablaDePaginas /\ ints[5] = pcb.estimacionRafaga
      /\ ints[6] = pcb.lengthUltimaRafaga /\ ints[7] = pcb.sizeInstrucciones
  BY DEF ints, EnterosDePcb
<1>6. /\ deserialize_int(s, 0) = pcb.id
      /\ deserialize_int(s, 0 + INT) = pcb.tamanioProceso
      /\ deserialize_int(s, 0 + (2 * INT)) = pcb.PC
      /\ deserialize_int(s, 0 + (3 * INT)) = pcb.tablaDePaginas
      /\ deserialize_int(s, 0 + (4 * INT)) = pcb.estimacionRafaga
      /\ deserialize_int(s, 0 + (5 * INT)) = pcb.lengthUltimaRafaga
      /\ deserialize_int(s, 0 + (6 * INT)) = pcb.sizeInstrucciones
  BY <1>3, <1>4, <1>5
<1> QED BY <1>6 DEF pcb_deserializar_estrucs, s

\* If the size of a program is exact, so is that of a PCB with it, alone or
\* in an I/O: what the CPU declares when it gives a process back.
THEOREM PcbExacto ==
  ASSUME NEW pcb, NEW S, serialize_instructions_list(pcb.instrucciones) \in Seq(S),
         BufferExacto(new_instruction_buffer(pcb.instrucciones)),
         NEW bloqueo, NEW espera
  PROVE  /\ \A op \in OpsPcb : BufferExacto(armarPaqueteConCpu(pcb, op).buffer)
         /\ BufferExacto(armarPaqueteConCpu(
              [tiempoBloqueo |-> bloqueo, tiempoEspera |-> espera, pcb |-> pcb],
              "PCB_EJECUTADO_IO_CPU_KERNEL").buffer)
<1> DEFINE prog == serialize_instructions_list(pcb.instrucciones)
           s == pcb_serializar_estruc(pcb)
           io == [tiempoBloqueo |-> bloqueo, tiempoEspera |-> espera, pcb |-> pcb]
           IO == "PCB_EJECUTADO_IO_CPU_KERNEL"
<1>1. bytes_instructions_list(pcb.instrucciones) = Len(prog)
  BY DEF BufferExacto, new_instruction_buffer
<1>2. bytes_PCB(pcb) = Len(s)
  BY <1>1, FormaDePcb DEF bytes_PCB
<1>3. PICK T : s \in Seq(T)
  BY FormaDePcb
<1> HIDE DEF s
<1>4. ASSUME NEW op \in OpsPcb
      PROVE  BufferExacto(armarPaqueteConCpu(pcb, op).buffer)
  <2>1. armarPaqueteConCpu(pcb, op).buffer = [size |-> bytes_PCB(pcb), stream |-> s]
    BY DEF armarPaqueteConCpu, new_package, tamanioEstructura, serializarEstructuraCpu,
           s, OpsPcb, OpsUint, OpsConsulta
  <2> QED BY <2>1, <1>2 DEF BufferExacto
<1>5. BufferExacto(armarPaqueteConCpu(io, IO).buffer)
  <2> DEFINE tiempos == Enteros(<<bloqueo, espera>>)
  <2>1. armarPaqueteConCpu(io, IO).buffer
          = [size |-> (2 * INT) + bytes_PCB(pcb), stream |-> tiempos \o s]
    BY DEF armarPaqueteConCpu, new_package, tamanioEstructura, serializarEstructuraCpu,
           serializarIO, s, OpsPcb, OpsUint, OpsConsulta
  <2>2. PICK U : tiempos \in Seq(U)
    <3>1. <<bloqueo, espera>> \in Seq({bloqueo, espera})
      OBVIOUS
    <3> QED BY <3>1, FormaDeEnteros
  <2>3. Len(tiempos) = 2 * INT
    BY LargoDeEnteros
  <2> HIDE DEF tiempos
  <2>4. Len(tiempos \o s) = Len(tiempos) + Len(s)
    BY <1>3, <2>2, Tras
  <2> QED BY <1>2, <2>1, <2>3, <2>4 DEF BufferExacto
<1> QED BY <1>4, <1>5

-----------------------------------------------------------------------------
(* Induction and sums *)

\* A set of the naturals up to n that has 0 and the successors of its members
\* has them all: there is no least one it has not.
LEMMA HastaN ==
  ASSUME NEW n \in Nat, NEW S, 0 \in S, \A k \in 0 .. n - 1 : k \in S => k + 1 \in S
  PROVE  \A k \in 0 .. n : k \in S
<1> DEFINE R == {ss \in Nat \X Nat : ss[1] < ss[2]}
           T == {k \in 0 .. n : k \notin S}
<1> SUFFICES ASSUME T # {} PROVE FALSE
  OBVIOUS
<1>1. IsWellFoundedOn(R, Nat)
  BY NatLessThanWellFounded DEF OpToRel
<1>2. T \subseteq Nat
  OBVIOUS
<1> HIDE DEF R, T
<1>3. PICK x \in T : \A y \in T : ~ (<<y, x>> \in R)
  BY <1>1, <1>2, WFMin
<1>4. \A y \in T : ~(y < x)
  BY <1>2, <1>3 DEF R
<1>5. x - 1 \in 0 .. n - 1 /\ x - 1 \notin T /\ (x - 1) + 1 = x
  BY <1>4 DEF T
<1>6. x - 1 \in S
  BY <1>5 DEF T
<1> QED BY <1>5, <1>6 DEF T

\* What a step makes of each place and of the value before it can be repeated
\* over any number of places.
Recurre(g, V, a, n, G) ==
  g \in [0 .. n -> V] /\ g[0] = a /\ \A k \in 1 .. n : g[k] = G[k][g[k - 1]]

LEMMA Recurrencia ==
  ASSUME NEW V, NEW a \in V, NEW n \in Nat, NEW G \in [1 .. n -> [V -> V]]
  PROVE  \E g : Recurre(g, V, a, n, G)
<1> DEFINE Es(g, m) == g[0] = a /\ \A k \in 1 .. m : g[k] = G[k][g[k - 1]]
           S == {m \in 0 .. n : \E g \in [0 .. m -> V] : Es(g, m)}
<1>1. 0 \in S
  <2> DEFINE g0 == [k \in 0 .. 0 |-> a]
  <2>1. g0 \in [0 .. 0 -> V] /\ Es(g0, 0)
    OBVIOUS
  <2> HIDE DEF g0
  <2> QED BY <2>1
<1>2. ASSUME NEW m \in 0 .. n - 1, m \in S PROVE m + 1 \in S
  <2>1. PICK g \in [0 .. m -> V] : Es(g, m)
    BY <1>2
  <2> DEFINE h == [k \in 0 .. m + 1 |-> IF k <= m THEN g[k] ELSE G[m + 1][g[m]]]
  <2>2. g[m] \in V /\ m + 1 \in 1 .. n /\ G[m + 1] \in [V -> V]
    OBVIOUS
  <2>3. h \in [0 .. m + 1 -> V]
    BY <2>2
  <2>4. h[0] = a
    BY <2>1
  <2>5. ASSUME NEW k \in 1 .. m + 1 PROVE h[k] = G[k][h[k - 1]]
    <3>1. CASE k <= m
      <4>1. h[k] = g[k] /\ h[k - 1] = g[k - 1] /\ k \in 1 .. m
        BY <3>1
      <4> QED BY <4>1, <2>1
    <3>2. CASE k = m + 1
      <4>1. h[k] = G[m + 1][g[m]] /\ h[k - 1] = g[m]
        BY <3>2
      <4> QED BY <4>1, <3>2
    <3>3. k <= m \/ k = m + 1
      OBVIOUS
    <3> HIDE DEF h
    <3> QED BY <3>1, <3>2, <3>3
  <2>6. Es(h, m + 1)
    BY <2>4, <2>5
  <2>7. m + 1 \in 0 .. n
    OBVIOUS
  <2> HIDE DEF h, Es
  <2>8. \E f \in [0 .. m + 1 -> V] : Es(f, m + 1)
    BY <2>3, <2>6
  <2> QED BY <2>7, <2>8
<1> HIDE DEF S
<1>3. \A m \in 0 .. n : m \in S
  BY <1>1, <1>2, HastaN
<1>4. n \in 0 .. n
  OBVIOUS
<1>5. n \in S
  BY <1>3, <1>4
<1> QED BY <1>5 DEF S, Recurre

\* h[k] is the sum of the first k of the numbers w[1] .. w[n].
EsSuma(h, n, w) ==
  h \in [0 .. n -> Nat] /\ h[0] = 0 /\ \A k \in 1 .. n : h[k] = h[k - 1] + w[k]

LEMMA SumaExiste ==
  ASSUME NEW n \in Nat, NEW w \in [1 .. n -> Nat]
  PROVE  \E h : EsSuma(h, n, w)
<1> DEFINE G == [k \in 1 .. n |-> [x \in Nat |-> x + w[k]]]
<1>1. G \in [1 .. n -> [Nat -> Nat]]
  OBVIOUS
<1>2. \A k \in 1 .. n, x \in Nat : G[k][x] = x + w[k]
  OBVIOUS
<1> HIDE DEF G
<1>3. PICK h : Recurre(h, Nat, 0, n, G)
  BY <1>1, Recurrencia
<1>4. ASSUME NEW k \in 1 .. n PROVE h[k] = h[k - 1] + w[k]
  <2>1. h[k - 1] \in Nat
    BY <1>3 DEF Recurre
  <2> QED BY <1>2, <1>3, <2>1 DEF Recurre
<1> QED BY <1>3, <1>4 DEF EsSuma, Recurre

\* Sums grow, so each part ends within the whole.
LEMMA SumaCrece ==
  ASSUME NEW n \in Nat, NEW w \in [1 .. n -> Nat], NEW h, EsSuma(h, n, w),
         NEW i \in 0 .. n
  PROVE  \A k \in 0 .. n : k <= i => h[k] <= h[i]
<1> DEFINE S == {m \in 0 .. n : \A k \in 0 .. n : k <= m => h[k] <= h[m]}
<1>1. 0 \in S
  BY DEF EsSuma
<1>2. ASSUME NEW m \in 0 .. n - 1, m \in S PROVE m + 1 \in S
  <2>1. h[m + 1] = h[m] + w[m + 1] /\ w[m + 1] \in Nat /\ h \in [0 .. n -> Nat]
    <3>1. m + 1 \in 1 .. n /\ (m + 1) - 1 = m
      OBVIOUS
    <3> QED BY <3>1 DEF EsSuma
  <2>2. ASSUME NEW k \in 0 .. n, k <= m + 1 PROVE h[k] <= h[m + 1]
    <3>1. CASE k <= m
      BY <1>2, <2>1, <3>1
    <3>2. CASE k = m + 1
      BY <2>1, <3>2
    <3> QED BY <2>2, <3>1, <3>2
  <2> QED BY <2>2
<1> HIDE DEF S
<1>3. \A m \in 0 .. n : m \in S
  BY <1>1, <1>2, HastaN
<1> QED BY <1>3 DEF S

\* FoldLeft of the sizes of a list starts from its last element: with those
\* up to m, it is a function of this form.
Pliegue(f, l, m) ==
  [s \in SUBSET (1 .. m) |->
     IF s = {} THEN 0 ELSE f[s \ {Max(s)}] + bytes_instruction(l[Max(s)])]

LEMMA MaximoEs ==
  ASSUME NEW m \in Nat, NEW s \in SUBSET (1 .. m + 1), m + 1 \in s
  PROVE  Max(s) = m + 1
<1>1. \A y \in s : m + 1 >= y
  OBVIOUS
<1>2. \A x \in s : (\A y \in s : x >= y) => x = m + 1
  OBVIOUS
<1> QED BY <1>1, <1>2 DEF Max

\* There is one for an element more.
LEMMA UnPliegueMas ==
  ASSUME NEW l, NEW m \in Nat, NEW f, f = Pliegue(f, l, m)
  PROVE  \E g : g = Pliegue(g, l, m + 1)
<1> DEFINE b(k) == bytes_instruction(l[k])
           g == [s \in SUBSET (1 .. m + 1) |->
                   IF m + 1 \in s THEN f[s \ {m + 1}] + b(m + 1) ELSE f[s]]
<1> HIDE DEF b
<1>1. ASSUME NEW s \in SUBSET (1 .. m + 1), m + 1 \in s
      PROVE  g[s] = IF s = {} THEN 0 ELSE g[s \ {Max(s)}] + b(Max(s))
  <2>1. Max(s) = m + 1
    BY <1>1, MaximoEs
  <2>2. s \ {m + 1} \in SUBSET (1 .. m + 1) /\ m + 1 \notin s \ {m + 1} /\ s # {}
    BY <1>1
  <2>3. g[s] = f[s \ {m + 1}] + b(m + 1)
    BY <1>1
  <2>4. g[s \ {m + 1}] = f[s \ {m + 1}]
    BY <2>2
  <2> HIDE DEF g
  <2> QED BY <2>1, <2>2, <2>3, <2>4
<1>2. ASSUME NEW s \in SUBSET (1 .. m + 1), m + 1 \notin s
      PROVE  g[s] = IF s = {} THEN 0 ELSE g[s \ {Max(s)}] + b(Max(s))
  <2>1. s \in SUBSET (1 .. m)
    BY <1>2
  <2> DEFINE t == s \ {Max(s)}
  <2>2. t \in SUBSET (1 .. m + 1) /\ m + 1 \notin t
    BY <1>2
  <2>3. g[s] = f[s] /\ g[t] = f[t]
    BY <1>2, <2>2
  <2>4. f[s] = IF s = {} THEN 0 ELSE f[t] + b(Max(s))
    BY <2>1 DEF Pliegue, b
  <2> HIDE DEF g
  <2> QED BY <2>3, <2>4
<1>3. \A s \in SUBSET (1 .. m + 1) :
        g[s] = IF s = {} THEN 0 ELSE g[s \ {Max(s)}] + b(Max(s))
  BY <1>1, <1>2
<1>4. g = [s \in SUBSET (1 .. m + 1) |-> g[s]]
  OBVIOUS
<1> HIDE DEF g
<1>5. g = [s \in SUBSET (1 .. m + 1) |->
             IF s = {} THEN 0 ELSE g[s \ {Max(s)}] + b(Max(s))]
  BY <1>3, <1>4
<1>6. g = Pliegue(g, l, m + 1)
  BY <1>5 DEF Pliegue, b
<1> QED BY <1>6

LEMMA PliegueExiste ==
  ASSUME NEW l, NEW n \in Nat
  PROVE  \E f : f = Pliegue(f, l, n)
<1> DEFINE S == {m \in 0 .. n : \E f : f = Pliegue(f, l, m)}
<1>1. 0 \in S
  <2> DEFINE f0 == [s \in SUBSET (1 .. 0) |-> 0]
  <2>1. \A s \in SUBSET (1 .. 0) : s = {}
    OBVIOUS
  <2>2. f0 = Pliegue(f0, l, 0)
    BY <2>1 DEF Pliegue
  <2>3. \E f : f = Pliegue(f, l, 0)
    BY <2>2
  <2> QED BY <2>3
<1>2. ASSUME NEW m \in 0 .. n - 1, m \in S PROVE m + 1 \in S
  <2>1. m \in Nat /\ \E f : f = Pliegue(f, l, m)
    BY <1>2
  <2>2. \E g : g = Pliegue(g, l, m + 1)
    BY <2>1, UnPliegueMas
  <2> QED BY <2>2
<1> HIDE DEF S
<1>3. \A m \in 0 .. n : m \in S
  BY <1>1, <1>2, HastaN
<1> QED BY <1>3 DEF S

\* FoldLeft adds the sizes up.
LEMMA PlegadoEsSuma ==
  ASSUME NEW n \in Nat, NEW l, DOMAIN l = 1 .. n, NEW w,
         \A k \in 1 .. n : bytes_instruction(l[k]) = w[k],
         NEW h, EsSuma(h, n, w)
  PROVE  FoldLeft(LAMBDA x, i : x + bytes_instruction(i), 0, l) = h[n]
<1> DEFINE it == CHOOSE f : f = Pliegue(f, l, n)
           S == {m \in 0 .. n : it[1 .. m] = h[m]}
<1>1. FoldLeft(LAMBDA x, i : x + bytes_instruction(i), 0, l) = it[1 .. n]
  BY DEF FoldLeft, MapThenFoldSet, Pliegue
<1>2. it = Pliegue(it, l, n)
  BY PliegueExiste
<1> HIDE DEF it
<1>3. 0 \in S
  <2>1. 1 .. 0 = {} /\ {} \in SUBSET (1 .. n)
    OBVIOUS
  <2>2. it[{}] = 0
    BY <1>2, <2>1 DEF Pliegue
  <2> QED BY <2>1, <2>2 DEF EsSuma
<1>4. ASSUME NEW m \in 0 .. n - 1, m \in S PROVE m + 1 \in S
  <2> DEFINE s == 1 .. m + 1
  <2>1. s \in SUBSET (1 .. n) /\ s # {} /\ m + 1 \in s /\ s \ {m + 1} = 1 .. m
    OBVIOUS
  <2>2. Max(s) = m + 1
    <3>1. s \in SUBSET (1 .. m + 1) /\ m \in Nat
      OBVIOUS
    <3> QED BY <2>1, <3>1, MaximoEs
  <2> HIDE DEF s
  <2>3. it[s] = it[s \ {Max(s)}] + bytes_instruction(l[Max(s)])
    BY <1>2, <2>1 DEF Pliegue
  <2>4. m + 1 \in 1 .. n /\ (m + 1) - 1 = m /\ m + 1 \in 0 .. n
    OBVIOUS
  <2>5. it[s] = h[m] + w[m + 1]
    BY <1>4, <2>1, <2>2, <2>3, <2>4
  <2>6. h[m + 1] = h[m] + w[m + 1]
    BY <2>4 DEF EsSuma
  <2> QED BY <2>4, <2>5, <2>6 DEF s
<1> HIDE DEF S
<1>5. \A m \in 0 .. n : m \in S
  BY <1>3, <1>4, HastaN
<1>6. n \in 0 .. n
  OBVIOUS
<1>7. it[1 .. n] = h[n]
  BY <1>5, <1>6 DEF S
<1> QED BY <1>1, <1>7

-----------------------------------------------------------------------------
(* Streams one after the other *)

\* u is the streams of ss, the first k of which take h[k] bytes.
EsConcatenacion(u, ss, h) ==
  /\ Len(u) = h[Len(ss)]
  /\ \A k \in 1 .. Len(ss) : \A j \in 1 .. Len(ss[k]) :
       h[k - 1] + j \in 1 .. Len(u) /\ u[h[k - 1] + j] = ss[k][j]

\* FlattenSeq adds each stream to those before it.
Unida(f, ss, n) ==
  [i \in 1 .. n |-> IF i = 1 THEN ss[i] ELSE f[i - 1] \o ss[i]]

LEMMA UnidaExiste ==
  ASSUME NEW ss, NEW n \in Nat
  PROVE  \E f : f = Unida(f, ss, n)
<1> DEFINE S == {m \in 0 .. n : \E f : f = Unida(f, ss, m)}
<1>1. 0 \in S
  <2> DEFINE f0 == [i \in 1 .. 0 |-> ss[i]]
  <2>1. \A i \in 1 .. 0 : FALSE
    OBVIOUS
  <2>2. f0 = Unida(f0, ss, 0)
    BY <2>1 DEF Unida
  <2>3. \E f : f = Unida(f, ss, 0)
    BY <2>2
  <2> QED BY <2>3
<1>2. ASSUME NEW m \in 0 .. n - 1, m \in S PROVE m + 1 \in S
  <2>1. PICK f : f = Unida(f, ss, m)
    BY <1>2
  <2> DEFINE g == [i \in 1 .. m + 1 |->
                     IF i = 1 THEN ss[i] ELSE IF i <= m THEN f[i] ELSE f[m] \o ss[i]]
  <2>2. ASSUME NEW i \in 1 .. m + 1
        PROVE  g[i] = IF i = 1 THEN ss[i] ELSE g[i - 1] \o ss[i]
    <3>1. CASE i = 1
      BY <3>1
    <3>2. CASE i # 1
      <4>1. i - 1 \in 1 .. m /\ i - 1 \in 1 .. m + 1
        BY <3>2
      <4>2. f[1] = ss[1]
        <5>1. 1 \in 1 .. m
          BY <4>1
        <5> QED BY <5>1, <2>1 DEF Unida
      <4>3. g[i - 1] = f[i - 1]
        BY <4>1, <4>2
      <4>4. CASE i <= m
        <5>1. g[i] = f[i] /\ i \in 1 .. m
          BY <3>2, <4>4
        <5>2. f[i] = f[i - 1] \o ss[i]
          BY <2>1, <3>2, <5>1 DEF Unida
        <5> QED BY <3>2, <4>3, <5>1, <5>2
      <4>5. CASE i = m + 1
        <5>1. i - 1 = m /\ ~(i <= m) /\ m \in Int
          BY <4>5
        <5>2. g[i] = f[m] \o ss[i]
          BY <3>2, <5>1
        <5> HIDE DEF g
        <5> QED BY <3>2, <4>3, <5>1, <5>2
      <4> QED BY <4>4, <4>5
    <3> QED BY <3>1, <3>2
  <2>3. g = [i \in 1 .. m + 1 |-> g[i]]
    OBVIOUS
  <2> HIDE DEF g
  <2>4. g = [i \in 1 .. m + 1 |-> IF i = 1 THEN ss[i] ELSE g[i - 1] \o ss[i]]
    BY <2>2, <2>3
  <2>5. g = Unida(g, ss, m + 1)
    BY <2>4 DEF Unida
  <2>6. \E f1 : f1 = Unida(f1, ss, m + 1)
    BY <2>5
  <2> QED BY <2>6
<1> HIDE DEF S
<1>3. \A m \in 0 .. n : m \in S
  BY <1>1, <1>2, HastaN
<1> QED BY <1>3 DEF S

LEMMA ConcatenacionEs ==
  ASSUME NEW B, NEW ss \in Seq(Seq(B)), NEW w \in [1 .. Len(ss) -> Nat],
         \A k \in 1 .. Len(ss) : w[k] = Len(ss[k]),
         NEW h, EsSuma(h, Len(ss), w)
  PROVE  FlattenSeq(ss) \in Seq(B) /\ EsConcatenacion(FlattenSeq(ss), ss, h)
<1> DEFINE n == Len(ss)
           f == CHOOSE g : g = Unida(g, ss, n)
           Va(m) == /\ f[m] \in Seq(B) /\ Len(f[m]) = h[m]
                    /\ \A k \in 1 .. m : \A j \in 1 .. Len(ss[k]) :
                         /\ h[k - 1] + j \in 1 .. Len(f[m])
                         /\ f[m][h[k - 1] + j] = ss[k][j]
           S == {m \in 0 .. n : m # 0 => Va(m)}
<1>1. n \in Nat /\ \A k \in 1 .. n : ss[k] \in Seq(B) /\ Len(ss[k]) \in Nat
  <2>1. n \in Nat /\ \A k \in 1 .. n : ss[k] \in Seq(B)
    BY LenProperties, ElementOfSeq
  <2> QED BY <2>1, LenProperties
<1>2. h \in [0 .. n -> Nat] /\ h[0] = 0 /\ \A k \in 1 .. n : h[k] = h[k - 1] + Len(ss[k])
  BY DEF EsSuma
<1>3. CASE n = 0
  <2>1. ss = <<>> /\ <<>> \in Seq(B) /\ Len(<<>>) = 0
    BY <1>3, EmptySeq
  <2>2. FlattenSeq(ss) = ss
    BY <1>3 DEF FlattenSeq
  <2> QED BY <1>2, <1>3, <2>1, <2>2 DEF EsConcatenacion
<1>4. CASE n # 0
  <2>1. f = Unida(f, ss, n)
    BY <1>1, UnidaExiste
  <2>2. FlattenSeq(ss) = f[n]
    BY <1>4 DEF FlattenSeq, Unida
  <2> HIDE DEF f
  <2>a. \A i \in 1 .. n : f[i] = IF i = 1 THEN ss[i] ELSE f[i - 1] \o ss[i]
    BY <2>1 DEF Unida
  <2>3. f[1] = ss[1] /\ \A i \in 2 .. n : f[i] = f[i - 1] \o ss[i]
    <3>1. 1 \in 1 .. n /\ \A i \in 2 .. n : i \in 1 .. n /\ i # 1
      BY <1>1, <1>4
    <3> QED BY <2>a, <3>1
  <2>4. 0 \in S
    BY <1>1
  <2>5. ASSUME NEW m \in 0 .. n - 1, m \in S PROVE m + 1 \in S
    <3>1. m + 1 \in 1 .. n /\ m + 1 \in 0 .. n /\ (m + 1) - 1 = m
      BY <1>1
    <3>2. CASE m = 0
      <4>1. /\ f[1] = ss[1] /\ ss[1] \in Seq(B) /\ h[1] = Len(ss[1])
            /\ Len(ss[1]) \in Nat
        BY <1>1, <1>2, <2>3, <3>1, <3>2
      <4>2. \A k \in 1 .. 1 : \A j \in 1 .. Len(ss[k]) :
              h[k - 1] + j \in 1 .. Len(ss[1]) /\ h[k - 1] + j = j /\ ss[k] = ss[1]
        BY <1>2, <4>1
      <4>3. Va(1)
        BY <4>1, <4>2
      <4> QED BY <3>1, <3>2, <4>3
    <3>3. CASE m # 0
      <4> DEFINE a == f[m]
                 c == ss[m + 1]
                 u == a \o c
      <4>1. Va(m)
        BY <2>5, <3>3
      <4>2. f[m + 1] = u
        <5>1. m + 1 \in 2 .. n
          BY <1>1, <3>1, <3>3
        <5> QED BY <2>3, <3>1, <5>1
      <4>3. a \in Seq(B) /\ c \in Seq(B) /\ Len(a) = h[m] /\ h[m + 1] = h[m] + Len(c)
        BY <1>1, <1>2, <3>1, <4>1
      <4>4. Len(a) \in Nat /\ Len(c) \in Nat
        BY <4>3, LenProperties
      <4> HIDE DEF c
      <4> DEFINE La == Len(a)
                 Lc == Len(c)
      <4>5. /\ u \in Seq(B) /\ Len(u) = La + Lc
            /\ \A i \in 1 .. La + Lc : u[i] = IF i <= La THEN a[i] ELSE c[i - La]
        BY <4>3, ConcatProperties
      <4>6. ASSUME NEW k \in 1 .. m + 1, NEW j \in 1 .. Len(ss[k])
            PROVE  h[k - 1] + j \in 1 .. Len(u) /\ u[h[k - 1] + j] = ss[k][j]
        <5>1. CASE k = m + 1
          <6>1. ss[k] = c /\ k - 1 = m /\ h[k - 1] = La /\ j \in 1 .. Lc
            BY <4>3, <5>1 DEF c
          <6>2. La + j \in 1 .. La + Lc /\ ~(La + j <= La) /\ (La + j) - La = j
            BY <4>4, <6>1
          <6> HIDE DEF u, a
          <6> QED BY <4>5, <6>1, <6>2
        <5>2. CASE k # m + 1
          <6>1. k \in 1 .. m
            BY <5>2
          <6>2. h[k - 1] + j \in 1 .. La /\ a[h[k - 1] + j] = ss[k][j]
            BY <4>1, <6>1
          <6> DEFINE p == h[k - 1] + j
          <6> HIDE DEF u, a, p
          <6>3. p \in 1 .. La + Lc /\ p <= La
            BY <4>4, <6>2 DEF p
          <6>4. u[p] = a[p] /\ p \in 1 .. Len(u)
            BY <4>5, <6>3, SMTT(20)
          <6> QED BY <6>2, <6>4 DEF p
        <5> QED BY <5>1, <5>2
      <4>7. Va(m + 1)
        <5> HIDE DEF u
        <5>1. Len(u) = h[m + 1]
          BY <4>3, <4>5
        <5> QED BY <4>2, <4>5, <4>6, <5>1
      <4> QED BY <3>1, <4>7
    <3> QED BY <3>2, <3>3
  <2> HIDE DEF S
  <2>6. \A m \in 0 .. n : m \in S
    BY <1>1, <2>4, <2>5, HastaN
  <2>7. n \in S /\ n # 0
    BY <1>1, <1>4, <2>6
  <2>8. Va(n)
    BY <2>7 DEF S
  <2> QED BY <2>2, <2>8 DEF EsConcatenacion
<1> QED BY <1>3, <1>4

-----------------------------------------------------------------------------
(* What is read of a stream cut short *)

\* s has the bytes of t from offset o, up to its byte c: nobody wrote the rest.
Lleva(s, o, t, c) ==
  /\ o \in Nat /\ c \in Nat /\ Len(s) \in Nat /\ Len(t) \in Nat
  /\ o + Len(t) <= Len(s)
  /\ \A k \in 1 .. Len(t) : s[o + k] = IF o + k <= c THEN t[k] ELSE ByteSinEscribir

\* It has each of two streams one after the other.
LEMMA LlevaPartes ==
  ASSUME NEW A, NEW B, NEW a \in Seq(A), NEW b \in Seq(B),
         NEW s, NEW o, NEW c, Lleva(s, o, a \o b, c)
  PROVE  Lleva(s, o, a, c) /\ Lleva(s, o + Len(a), b, c)
<1> DEFINE t == a \o b
           La == Len(a)
           Lb == Len(b)
<1>1. La \in Nat /\ Lb \in Nat
  BY LenProperties
<1>2. /\ Len(t) = La + Lb
      /\ \A i \in 1 .. La : t[i] = a[i]
      /\ \A i \in 1 .. Lb : t[La + i] = b[i]
  BY Tras
<1>3. /\ o \in Nat /\ c \in Nat /\ Len(s) \in Nat /\ o + (La + Lb) <= Len(s)
      /\ \A k \in 1 .. La + Lb : s[o + k] = IF o + k <= c THEN t[k] ELSE ByteSinEscribir
  BY <1>2 DEF Lleva
<1> HIDE DEF t
<1>4. ASSUME NEW k \in 1 .. La
      PROVE  s[o + k] = IF o + k <= c THEN a[k] ELSE ByteSinEscribir
  <2>1. k \in 1 .. La + Lb
    BY <1>1
  <2> QED BY <1>2, <1>3, <2>1
<1>5. ASSUME NEW k \in 1 .. Lb
      PROVE  s[(o + La) + k] = IF (o + La) + k <= c THEN b[k] ELSE ByteSinEscribir
  <2>1. La + k \in 1 .. La + Lb /\ o + (La + k) = (o + La) + k
    BY <1>1, <1>3
  <2> QED BY <1>2, <1>3, <2>1
<1>6. Lleva(s, o, a, c)
  BY <1>1, <1>3, <1>4 DEF Lleva
<1>7. o + La \in Nat /\ (o + La) + Lb <= Len(s)
  BY <1>1, <1>3
<1>8. Lleva(s, o + La, b, c)
  BY <1>1, <1>3, <1>5, <1>7 DEF Lleva
<1> QED BY <1>6, <1>8

\* It has each of many.
LEMMA LlevaCadaUna ==
  ASSUME NEW u, NEW ss, NEW h, NEW n \in Nat, Len(ss) = n, NEW w \in [1 .. n -> Nat],
         EsSuma(h, n, w), EsConcatenacion(u, ss, h),
         NEW s, NEW o, NEW c, Lleva(s, o, u, c),
         NEW k \in 1 .. n, Len(ss[k]) = w[k]
  PROVE  Lleva(s, o + h[k - 1], ss[k], c)
<1> DEFINE p == h[k - 1]
<1>1. p \in Nat /\ h[k] = p + w[k] /\ w[k] \in Nat
  BY DEF EsSuma
<1>2. /\ o \in Nat /\ c \in Nat /\ Len(s) \in Nat /\ Len(u) \in Nat
      /\ o + Len(u) <= Len(s)
      /\ \A j \in 1 .. Len(u) : s[o + j] = IF o + j <= c THEN u[j] ELSE ByteSinEscribir
  BY DEF Lleva
<1>3. \A j \in 1 .. w[k] : p + j \in 1 .. Len(u) /\ u[p + j] = ss[k][j]
  BY DEF EsConcatenacion
<1>4. h[k] <= Len(u)
  <2>1. \A i \in 0 .. n : i <= n => h[i] <= h[n]
    <3>1. n \in 0 .. n
      OBVIOUS
    <3> QED BY <3>1, SumaCrece
  <2>2. k \in 0 .. n /\ k <= n
    OBVIOUS
  <2> QED BY <2>1, <2>2 DEF EsConcatenacion
<1> HIDE DEF p
<1>5. o + p \in Nat /\ (o + p) + w[k] <= Len(s)
  BY <1>1, <1>2, <1>4
<1>6. ASSUME NEW j \in 1 .. w[k]
      PROVE  s[(o + p) + j] = IF (o + p) + j <= c THEN ss[k][j] ELSE ByteSinEscribir
  <2>1. p + j \in 1 .. Len(u) /\ o + (p + j) = (o + p) + j
    BY <1>1, <1>2, <1>3
  <2> QED BY <1>2, <1>3, <2>1
<1>7. Lleva(s, o + p, ss[k], c)
  BY <1>1, <1>2, <1>5, <1>6 DEF Lleva
<1> QED BY <1>7 DEF p

\* An integer is read if its last byte arrived.
LEMMA LlevaEnteros ==
  ASSUME NEW V, NEW vs \in Seq(V), NEW s, NEW o, NEW c, Lleva(s, o, Enteros(vs), c),
         NEW i \in 1 .. Len(vs)
  PROVE  deserialize_int(s, o + (INT * (i - 1)))
           = IF o + (INT * i) <= c THEN vs[i] ELSE BASURA
<1> DEFINE e == Enteros(vs)
           p == INT * (i - 1)
           q == o + p
<1>1. Len(vs) \in Nat /\ INT = 4
  BY LenProperties DEF INT
<1>2. /\ Len(e) = 4 * Len(vs)
      /\ \A k \in 1 .. 4 : p + k \in 1 .. Len(e) /\ e[p + k] = <<"entero", k, vs[i]>>
  BY <1>1, FormaDeEnteros
<1>3. /\ o \in Nat /\ c \in Nat /\ Len(s) \in Nat /\ o + Len(e) <= Len(s)
      /\ \A k \in 1 .. Len(e) : s[o + k] = IF o + k <= c THEN e[k] ELSE ByteSinEscribir
  BY DEF Lleva
<1>4. p \in Nat /\ p + 4 = INT * i /\ p + 4 <= Len(e)
  BY <1>1, <1>2
<1> HIDE DEF e, p
<1>5. q \in Nat /\ q + 4 <= Len(s) /\ q + 4 = o + (INT * i) /\ Len(e) \in Nat
  BY <1>1, <1>2, <1>3, <1>4
<1>6. \A k \in 1 .. 4 : s[q + k] = IF q + k <= c THEN <<"entero", k, vs[i]>>
                                                 ELSE ByteSinEscribir
  <2> SUFFICES ASSUME NEW k \in 1 .. 4
               PROVE  s[q + k] = IF q + k <= c THEN <<"entero", k, vs[i]>>
                                               ELSE ByteSinEscribir
    OBVIOUS
  <2>1. p + k \in 1 .. Len(e)
    BY <1>2
  <2>2. o + (p + k) = q + k
    BY <1>3, <1>4
  <2> QED BY <1>2, <1>3, <2>1, <2>2
<1> HIDE DEF q
<1>7. CASE q + 4 <= c
  <2>1. \A k \in 1 .. INT : s[q + k] = <<"entero", k, vs[i]>>
    <3> SUFFICES ASSUME NEW k \in 1 .. 4 PROVE s[q + k] = <<"entero", k, vs[i]>>
      BY <1>1
    <3>1. q + k <= c
      BY <1>3, <1>5, <1>7
    <3> QED BY <1>6, <3>1
  <2>2. deserialize_int(s, q) = vs[i]
    BY <1>1, <1>3, <1>5, <2>1, LeerEntero
  <2> QED BY <1>5, <1>7, <2>2 DEF q, p
<1>8. CASE ~(q + 4 <= c)
  <2>1. s[q + 4] = ByteSinEscribir
    BY <1>6, <1>8
  <2>2. s[q + 4] # <<"entero", 4, s[q + 1][3]>>
    BY <2>1 DEF ByteSinEscribir
  <2>3. 4 \in 1 .. INT
    BY <1>1
  <2>4. ~ \A k \in 1 .. INT : s[q + k] = <<"entero", k, s[q + 1][3]>>
    BY <2>2, <2>3
  <2>5. deserialize_int(s, q) = BASURA
    BY <2>4, Zenon DEF deserialize_int
  <2> QED BY <1>5, <1>8, <2>5 DEF q, p
<1> QED BY <1>7, <1>8

LEMMA LlevaEntero ==
  ASSUME NEW v, NEW s, NEW o, NEW c, Lleva(s, o, serialize_int(v), c)
  PROVE  deserialize_int(s, o) = IF o + INT <= c THEN v ELSE BASURA
<1> DEFINE vs == <<v>>
           V == {v}
<1>1. vs \in Seq(V) /\ Len(vs) = 1 /\ vs[1] = v
  OBVIOUS
<1>2. Lleva(s, o, Enteros(vs), c) /\ o \in Nat
  BY DEF serialize_int, Lleva
<1> HIDE DEF vs, V
<1>3. deserialize_int(s, o + (INT * (1 - 1)))
        = IF o + (INT * 1) <= c THEN vs[1] ELSE BASURA
  <2>1. 1 \in 1 .. Len(vs)
    BY <1>1
  <2> QED BY <1>1, <1>2, <2>1, LlevaEnteros
<1>4. o + (INT * (1 - 1)) = o /\ INT * 1 = INT
  BY <1>2 DEF INT
<1> QED BY <1>1, <1>3, <1>4

\* A count that fits in a signed char is read if its byte arrived.
LEMMA LlevaCuenta ==
  ASSUME NEW n \in 0 .. 127, NEW s, NEW o, NEW c, Lleva(s, o, <<cuenta(n)>>, c)
  PROVE  leerCuenta(s, o) = IF o + 1 <= c THEN n ELSE BASURA
<1> DEFINE b == cuenta(n)
<1>1. b = <<"octeto", 1, n>>
  <2>1. ((n + 128) % 256) - 128 = n
    OBVIOUS
  <2> QED BY <2>1 DEF cuenta
<1> HIDE DEF b
<1>2. Len(<<b>>) = 1 /\ <<b>>[1] = b
  OBVIOUS
<1>3. /\ o \in Nat /\ Len(s) \in Nat /\ o < Len(s)
      /\ s[o + 1] = IF o + 1 <= c THEN b ELSE ByteSinEscribir
  <2>1. 1 \in 1 .. 1
    OBVIOUS
  <2> QED BY <1>2, <2>1 DEF Lleva, b
<1>4. CASE o + 1 <= c
  <2>1. s[o + 1][1] = "octeto" /\ s[o + 1][3] = n
    BY <1>1, <1>3, <1>4
  <2> QED BY <1>3, <1>4, <2>1 DEF leerCuenta
<1>5. CASE ~(o + 1 <= c)
  <2>1. s[o + 1][1] # "octeto"
    BY <1>3, <1>5 DEF ByteSinEscribir
  <2> QED BY <1>5, <2>1 DEF leerCuenta
<1> QED BY <1>4, <1>5

\* Bytes of integers, counts and identifiers.
Bytes(V) == {"entero", "octeto", "texto"} \X Int \X (V \cup Int \cup DOMAIN Largo)

LEMMA LargoNatural ==
  ASSUME NEW id \in DOMAIN Largo
  PROVE  Largo[id] \in 0 .. 126 /\ Largo[id] \in Nat
  BY ConstantesSerializacion

\* What an instruction is written with.
LEMMA FormaDeCuenta ==
  ASSUME NEW V, NEW n \in 0 .. 127
  PROVE  <<cuenta(n)>> \in Seq(Bytes(V)) /\ Len(<<cuenta(n)>>) = 1
<1>1. ((n + 128) % 256) - 128 = n
  OBVIOUS
<1>2. cuenta(n) = <<"octeto", 1, n>>
  BY <1>1 DEF cuenta
<1>3. cuenta(n) \in Bytes(V)
  BY <1>2 DEF Bytes
<1> QED BY <1>3

LEMMA FormaDeTexto ==
  ASSUME NEW V, NEW id \in DOMAIN Largo
  PROVE  LET n == Largo[id] + 1
             texto == [k \in 1 .. n |-> <<"texto", k, id>>]
         IN  /\ n \in 1 .. 127
             /\ texto \in Seq(Bytes(V)) /\ Len(texto) = n
             /\ serialize_string(id) = <<cuenta(n)>> \o texto
             /\ serialize_string(id) \in Seq(Bytes(V))
             /\ Len(serialize_string(id)) = 1 + n
<1> DEFINE n == Largo[id] + 1
           texto == [k \in 1 .. n |-> <<"texto", k, id>>]
<1>1. n \in 1 .. 127 /\ n \in Nat /\ n \in 0 .. 127
  BY ConstantesSerializacion
<1>2. serialize_string(id) = <<cuenta(n)>> \o texto
  BY DEF serialize_string
<1> HIDE DEF n
<1>3. texto \in [1 .. n -> Bytes(V)]
  BY DEF Bytes
<1> HIDE DEF texto
<1>4. texto \in Seq(Bytes(V)) /\ Len(texto) = n
  BY <1>1, <1>3, FlujoDe
<1>5. <<cuenta(n)>> \in Seq(Bytes(V)) /\ Len(<<cuenta(n)>>) = 1
  BY <1>1, FormaDeCuenta
<1>6. /\ <<cuenta(n)>> \o texto \in Seq(Bytes(V))
      /\ Len(<<cuenta(n)>> \o texto) = 1 + n
  BY <1>4, <1>5, ConcatProperties
<1> QED BY <1>1, <1>2, <1>4, <1>6 DEF n, texto

LEMMA EnterosSonBytes ==
  ASSUME NEW V, NEW vs \in Seq(V)
  PROVE  Enteros(vs) \in Seq(Bytes(V)) /\ Len(Enteros(vs)) = INT * Len(vs)
<1>1. Enteros(vs) \in Seq(Octetos(V)) /\ Len(Enteros(vs)) = INT * Len(vs)
  BY FormaDeEnteros
<1>2. Octetos(V) \subseteq Bytes(V)
  BY DEF Octetos, Bytes
<1> DEFINE A == Octetos(V)
<1> HIDE DEF A
<1>3. Enteros(vs) \in Seq(Bytes(V))
  BY <1>1, <1>2, FlujoMayor
<1> QED BY <1>1, <1>3

LEMMA FormaDeLista ==
  ASSUME NEW V, NEW l \in Seq(V), Len(l) \in 0 .. 127
  PROVE  /\ <<cuenta(Len(l))>> \in Seq(Bytes(V)) /\ Len(<<cuenta(Len(l))>>) = 1
         /\ Enteros(l) \in Seq(Bytes(V)) /\ Len(Enteros(l)) = INT * Len(l)
         /\ serialize_list(l) = <<cuenta(Len(l))>> \o Enteros(l)
         /\ serialize_list(l) \in Seq(Bytes(V))
         /\ Len(serialize_list(l)) = bytes_list(l) /\ bytes_list(l) \in Nat
<1> DEFINE n == Len(l)
           e == Enteros(l)
<1>1. n \in Nat /\ n \in 0 .. 127
  OBVIOUS
<1>2. serialize_list(l) = <<cuenta(n)>> \o e
  BY DEF serialize_list
<1>3. e \in Seq(Bytes(V)) /\ Len(e) = INT * n
  BY EnterosSonBytes
<1> HIDE DEF n, e
<1>4. <<cuenta(n)>> \in Seq(Bytes(V)) /\ Len(<<cuenta(n)>>) = 1
  BY <1>1, FormaDeCuenta
<1>5. /\ <<cuenta(n)>> \o e \in Seq(Bytes(V))
      /\ Len(<<cuenta(n)>> \o e) = 1 + (INT * n)
  BY <1>3, <1>4, ConcatProperties
<1>6. bytes_list(l) = 1 + (INT * n) /\ bytes_list(l) \in Nat
  BY <1>1 DEF bytes_list, n, INT
<1> QED BY <1>2, <1>3, <1>4, <1>5, <1>6 DEF n, e

LEMMA FormaDeInstruccion ==
  ASSUME NEW V, NEW i \in InstruccionesDe(V)
  PROVE  /\ i.id \in DOMAIN Largo /\ i.parameters \in Seq(V)
         /\ Len(i.parameters) \in 0 .. 127
         /\ serialize_instruction(i) \in Seq(Bytes(V))
         /\ Len(serialize_instruction(i)) = bytes_instruction(i)
         /\ bytes_instruction(i) = Largo[i.id] + 2 + bytes_list(i.parameters)
         /\ bytes_instruction(i) \in Nat
<1> DEFINE d == i.id
           l == i.parameters
           a == serialize_string(d)
           b == serialize_list(l)
<1>1. d \in DOMAIN Largo /\ l \in Seq(V)
  BY DEF InstruccionesDe
<1>2. Len(l) \in 0 .. 127
  BY DEF InstruccionesDe
<1> HIDE DEF d, l
<1>3. Largo[d] \in Nat
  BY <1>1, LargoNatural
<1>4. a \in Seq(Bytes(V)) /\ Len(a) = 1 + (Largo[d] + 1)
  BY <1>1, FormaDeTexto
<1>5. b \in Seq(Bytes(V)) /\ Len(b) = bytes_list(l) /\ bytes_list(l) \in Nat
  BY <1>1, <1>2, FormaDeLista
<1>6. serialize_instruction(i) = a \o b
  BY DEF serialize_instruction, d, l
<1> HIDE DEF a, b
<1>7. a \o b \in Seq(Bytes(V)) /\ Len(a \o b) = Len(a) + Len(b)
  BY <1>4, <1>5, ConcatProperties
<1>8. bytes_instruction(i) = 1 + Largo[d] + 1 + bytes_list(l)
  BY DEF bytes_instruction, d, l
<1>9. 1 + Largo[d] + 1 + bytes_list(l) = Largo[d] + 2 + bytes_list(l)
  BY <1>3, <1>5
<1>10. bytes_instruction(i) \in Nat /\ Len(a \o b) = bytes_instruction(i)
  BY <1>3, <1>4, <1>5, <1>7, <1>8
<1> QED BY <1>1, <1>2, <1>6, <1>7, <1>8, <1>9, <1>10 DEF d, l

\* The bytes that arrived of an identifier, of a list and of an instruction.
LEMMA LlevaTexto ==
  ASSUME NEW id \in DOMAIN Largo, NEW s, NEW o, NEW c, Lleva(s, o, serialize_string(id), c)
  PROVE  /\ leerCuenta(s, o) = IF o + 1 <= c THEN Largo[id] + 1 ELSE BASURA
         /\ o + (Largo[id] + 2) <= c => deserialize_string(s, o) = id
<1> DEFINE n == Largo[id] + 1
           texto == [k \in 1 .. n |-> <<"texto", k, id>>]
           B == Bytes({id})
<1>0. /\ n \in 1 .. 127
      /\ texto \in Seq(B) /\ Len(texto) = n
      /\ serialize_string(id) = <<cuenta(n)>> \o texto
  BY FormaDeTexto
<1>2. \A k \in 1 .. n : texto[k] = <<"texto", k, id>>
  OBVIOUS
<1>3. n = Largo[id] + 1 /\ Largo[id] + 2 = n + 1 /\ Largo[id] \in Nat
  BY LargoNatural
<1> HIDE DEF n, texto, B
<1>1. /\ n \in 1 .. 127 /\ n \in 0 .. 127 /\ n \in Nat
      /\ texto \in Seq(B) /\ Len(texto) = n
      /\ serialize_string(id) = <<cuenta(n)>> \o texto
  BY <1>0
<1>4. <<cuenta(n)>> \in Seq(B) /\ Len(<<cuenta(n)>>) = 1
  BY <1>1, FormaDeCuenta DEF B
<1>5. Lleva(s, o, <<cuenta(n)>>, c) /\ Lleva(s, o + 1, texto, c)
  <2>1. Lleva(s, o, <<cuenta(n)>> \o texto, c)
    BY <1>1
  <2> DEFINE a == <<cuenta(n)>>
  <2>2. a \in Seq(B) /\ Len(a) = 1 /\ Lleva(s, o, a \o texto, c)
    BY <1>4, <2>1
  <2> HIDE DEF a
  <2>3. Lleva(s, o, a, c) /\ Lleva(s, o + Len(a), texto, c)
    BY <1>1, <2>2, LlevaPartes
  <2> QED BY <2>2, <2>3 DEF a
<1>6. leerCuenta(s, o) = IF o + 1 <= c THEN n ELSE BASURA
  BY <1>1, <1>5, LlevaCuenta
<1>7. /\ o \in Nat /\ c \in Nat /\ Len(s) \in Nat /\ (o + 1) + n <= Len(s)
      /\ \A k \in 1 .. n : s[(o + 1) + k] = IF (o + 1) + k <= c THEN <<"texto", k, id>>
                                                              ELSE ByteSinEscribir
  BY <1>1, <1>2, <1>5 DEF Lleva
<1>8. ASSUME o + (n + 1) <= c PROVE deserialize_string(s, o) = id
  <2> DEFINE ids == {d \in DOMAIN Largo : leerCuenta(s, o) = Largo[d] + 1
                                            /\ EsTexto(s, o, d)}
  <2>1. \A k \in 1 .. n : (o + 1) + k <= Len(s) /\ s[(o + 1) + k] = <<"texto", k, id>>
    <3> SUFFICES ASSUME NEW k \in 1 .. n
                 PROVE  (o + 1) + k <= Len(s) /\ s[(o + 1) + k] = <<"texto", k, id>>
      OBVIOUS
    <3>1. (o + 1) + k <= c /\ (o + 1) + k <= Len(s)
      BY <1>1, <1>7, <1>8
    <3> QED BY <1>7, <3>1
  <2>2. EsTexto(s, o, id)
    BY <1>3, <2>1 DEF EsTexto
  <2>3. leerCuenta(s, o) = n
    BY <1>1, <1>6, <1>7, <1>8
  <2>4. id \in ids
    BY <1>3, <2>2, <2>3
  <2>5. ASSUME NEW d \in ids PROVE d = id
    <3>1. EsTexto(s, o, d) /\ d \in DOMAIN Largo
      BY <2>5
    <3>2. 1 \in 1 .. Largo[d] + 1
      BY <3>1, LargoNatural
    <3>3. s[(o + 1) + 1] = <<"texto", 1, d>>
      BY <3>1, <3>2 DEF EsTexto
    <3>4. s[(o + 1) + 1] = <<"texto", 1, id>>
      BY <1>1, <2>1
    <3> QED BY <3>3, <3>4
  <2>6. ids = {id}
    BY <2>4, <2>5
  <2>7. deserialize_string(s, o) = IF ids = {} THEN BASURA ELSE CHOOSE d \in ids : TRUE
    BY DEF deserialize_string
  <2> HIDE DEF ids
  <2>8. (CHOOSE d \in ids : TRUE) = id /\ ids # {}
    BY <2>6
  <2> QED BY <2>7, <2>8
<1> QED BY <1>3, <1>6, <1>8

LEMMA LlevaLista ==
  ASSUME NEW V, NEW l \in Seq(V), Len(l) \in 0 .. 127,
         NEW s, NEW o, NEW c, Lleva(s, o, serialize_list(l), c)
  PROVE  /\ leerCuenta(s, o) = IF o + 1 <= c THEN Len(l) ELSE BASURA
         /\ o + 1 <= c =>
              deserialize_parameters(s, o)
                = [k \in 1 .. Len(l) |->
                     IF (o + 1) + (INT * k) <= c THEN l[k] ELSE BASURA]
<1> DEFINE n == Len(l)
           e == Enteros(l)
           B == Bytes(V)
           a == <<cuenta(n)>>
<1>0. /\ a \in Seq(B) /\ Len(a) = 1 /\ e \in Seq(B)
      /\ serialize_list(l) = a \o e
  BY FormaDeLista, Zenon
<1>a. n \in 0 .. 127
  OBVIOUS
<1>2. n \in 0 .. 127 /\ e = Enteros(l) /\ a = <<cuenta(n)>> /\ l \in Seq(V) /\ n = Len(l)
  OBVIOUS
<1> HIDE DEF n, e, B, a
<1>1. /\ n \in Nat /\ a \in Seq(B) /\ Len(a) = 1 /\ e \in Seq(B)
      /\ serialize_list(l) = a \o e
  <2>1. n \in Nat
    BY <1>a
  <2> QED BY <1>0, <2>1, Zenon
<1>3. Lleva(s, o, a, c) /\ Lleva(s, o + 1, e, c)
  BY <1>1, LlevaPartes
<1>4. leerCuenta(s, o) = IF o + 1 <= c THEN n ELSE BASURA
  BY <1>2, <1>3, LlevaCuenta
<1>5. ASSUME o + 1 <= c
      PROVE  deserialize_parameters(s, o)
               = [k \in 1 .. n |-> IF (o + 1) + (INT * k) <= c THEN l[k] ELSE BASURA]
  <2>1. leerCuenta(s, o) = n
    BY <1>4, <1>5
  <2>2. o \in Nat
    BY <1>3 DEF Lleva
  <2>3. ASSUME NEW k \in 1 .. n
        PROVE  deserialize_int(s, o + 1 + ((k - 1) * INT))
                 = IF (o + 1) + (INT * k) <= c THEN l[k] ELSE BASURA
    <3>1. k \in 1 .. Len(l) /\ Lleva(s, o + 1, Enteros(l), c)
      BY <1>2, <1>3
    <3>2. deserialize_int(s, (o + 1) + (INT * (k - 1)))
            = IF (o + 1) + (INT * k) <= c THEN l[k] ELSE BASURA
      BY <1>2, <3>1, LlevaEnteros
    <3>3. (o + 1) + (INT * (k - 1)) = o + 1 + ((k - 1) * INT)
      BY <1>1, <2>2 DEF INT
    <3> QED BY <3>2, <3>3
  <2>4. deserialize_parameters(s, o)
          = [k \in 1 .. n |-> deserialize_int(s, o + 1 + ((k - 1) * INT))]
    BY <2>1 DEF deserialize_parameters
  <2> QED BY <2>3, <2>4
<1> QED BY <1>2, <1>4, <1>5

LEMMA LlevaInstruccion ==
  ASSUME NEW V, NEW i \in InstruccionesDe(V), BASURA \notin Int,
         NEW s, NEW o, NEW c, Lleva(s, o, serialize_instruction(i), c)
  PROVE  LET q == o + (Largo[i.id] + 2)
             leida == deserialize_instruction(s, o)
         IN  /\ ~(q + 1 <= c) => finDeLista(s, finDeId(s, o)) = BASURA
             /\ q + 1 <= c =>
                  /\ finDeLista(s, finDeId(s, o)) = o + bytes_instruction(i)
                  /\ leida \in InstruccionesDe(V \cup {BASURA})
             /\ o + bytes_instruction(i) <= c => leida = i /\ q + 1 <= c
<1> DEFINE d == i.id
           l == i.parameters
           a == serialize_string(d)
           b == serialize_list(l)
           L == Largo[d]
           q == o + (L + 2)
           B == Bytes(V)
           n == Len(l)
<1>1. /\ d \in DOMAIN Largo /\ l \in Seq(V) /\ n \in 0 .. 127
      /\ bytes_instruction(i) = L + 2 + bytes_list(l)
      /\ serialize_instruction(i) = a \o b
      /\ i = [id |-> d, parameters |-> l]
  BY FormaDeInstruccion DEF serialize_instruction, InstruccionesDe
<1>2. deserialize_instruction(s, o)
        = [id |-> deserialize_string(s, o),
           parameters |-> deserialize_parameters(s, finDeId(s, o))]
  BY DEF deserialize_instruction
<1> HIDE DEF d, l
<1>3. a \in Seq(B) /\ Len(a) = L + 2 /\ L \in Nat
  <2>1. a \in Seq(B) /\ Len(a) = 1 + (L + 1)
    BY <1>1, FormaDeTexto
  <2>2. L \in Nat
    BY <1>1, LargoNatural
  <2> HIDE DEF a, L
  <2> QED BY <2>1, <2>2
<1>4. b \in Seq(B)
  BY <1>1, FormaDeLista
<1>5. bytes_list(l) = (n * INT) + 1
  BY DEF bytes_list
<1>6. Lleva(s, o, a, c) /\ Lleva(s, q, b, c)
  <2> HIDE DEF a, b, B
  <2>1. Lleva(s, o, a \o b, c)
    BY <1>1
  <2> QED BY <1>3, <1>4, <2>1, LlevaPartes
<1>7. o \in Nat /\ c \in Nat
  BY <1>6 DEF Lleva
<1>8. /\ leerCuenta(s, o) = IF o + 1 <= c THEN L + 1 ELSE BASURA
      /\ q <= c => deserialize_string(s, o) = d
  BY <1>1, <1>6, LlevaTexto
<1>9. /\ leerCuenta(s, q) = IF q + 1 <= c THEN n ELSE BASURA
      /\ q + 1 <= c =>
           deserialize_parameters(s, q)
             = [k \in 1 .. n |-> IF (q + 1) + (INT * k) <= c THEN l[k] ELSE BASURA]
  BY <1>1, <1>6, LlevaLista
<1>10. q \in Nat /\ q # BASURA /\ n \in Nat /\ L + 1 # BASURA /\ n # BASURA
  BY <1>1, <1>3, <1>7, SMTT(20)
<1> DEFINE par == [k \in 1 .. n |-> IF (q + 1) + (INT * k) <= c THEN l[k] ELSE BASURA]
           fin == finDeLista(s, finDeId(s, o))
           bi == bytes_instruction(i)
<1> HIDE DEF a, b, B, L, n
<1>11. o + bi = q + 1 + (n * INT) /\ q + 1 <= o + bi
  BY <1>1, <1>3, <1>5, <1>7, <1>10 DEF INT
<1>12. q = o + 1 + (L + 1)
  BY <1>3, <1>7
<1> HIDE DEF q, fin, bi
<1>13. ASSUME ~(q + 1 <= c) PROVE fin = BASURA
  <2>1. CASE ~(o + 1 <= c)
    <3>1. leerCuenta(s, o) = BASURA
      BY <1>8, <2>1
    <3>2. finDeId(s, o) = BASURA
      BY <3>1 DEF finDeId
    <3> QED BY <3>2 DEF fin, finDeLista
  <2>2. CASE o + 1 <= c
    <3>1. leerCuenta(s, o) = L + 1
      BY <1>8, <2>2
    <3>2. finDeId(s, o) = q
      BY <1>10, <1>12, <3>1 DEF finDeId
    <3>3. leerCuenta(s, q) = BASURA
      BY <1>9, <1>13
    <3> QED BY <3>2, <3>3 DEF fin, finDeLista
  <2> QED BY <2>1, <2>2
<1>14. ASSUME q + 1 <= c
       PROVE  /\ fin = o + bi /\ finDeId(s, o) = q
              /\ deserialize_instruction(s, o) = [id |-> d, parameters |-> par]
  <2>1. o + 1 <= c /\ q <= c
    BY <1>3, <1>7, <1>10, <1>12, <1>14
  <2>2. leerCuenta(s, o) = L + 1
    BY <1>8, <2>1
  <2>3. finDeId(s, o) = q
    BY <1>10, <1>12, <2>2 DEF finDeId
  <2>4. leerCuenta(s, q) = n /\ deserialize_parameters(s, q) = par
    BY <1>9, <1>14
  <2>5. fin = q + 1 + (n * INT)
    BY <1>10, <2>3, <2>4 DEF fin, finDeLista
  <2>6. deserialize_string(s, o) = d
    BY <1>8, <2>1
  <2> QED BY <1>2, <1>11, <2>3, <2>4, <2>5, <2>6
<1>15. \A k \in 1 .. n : l[k] \in V
  <2>1. l \in [1 .. n -> V]
    BY <1>1, LenProperties DEF n
  <2> QED BY <2>1
<1>16. [id |-> d, parameters |-> par] \in InstruccionesDe(V \cup {BASURA})
  <2>1. par \in [1 .. n -> V \cup {BASURA}]
    BY <1>15
  <2> HIDE DEF par
  <2>2. par \in Seq(V \cup {BASURA}) /\ Len(par) = n
    BY <1>10, <2>1, FlujoDe
  <2>3. Len(par) \in 0 .. 127
    BY <1>1, <2>2 DEF n
  <2> QED BY <1>1, <2>2, <2>3 DEF InstruccionesDe
<1>17. ASSUME o + bi <= c PROVE par = l /\ q + 1 <= c
  <2>1. q + 1 <= c
    BY <1>7, <1>10, <1>11, <1>17 DEF INT
  <2>2. \A k \in 1 .. n : (q + 1) + (INT * k) <= c
    BY <1>7, <1>10, <1>11, <1>17 DEF INT
  <2>3. par = [k \in 1 .. n |-> l[k]]
    BY <2>2
  <2>4. l = [k \in 1 .. n |-> l[k]]
    BY <1>1, LenProperties DEF n
  <2> QED BY <2>1, <2>3, <2>4
<1> HIDE DEF par
<1>18. /\ ~(q + 1 <= c) => fin = BASURA
       /\ q + 1 <= c =>
            /\ fin = o + bi
            /\ deserialize_instruction(s, o) \in InstruccionesDe(V \cup {BASURA})
       /\ o + bi <= c => deserialize_instruction(s, o) = i /\ q + 1 <= c
  BY <1>1, <1>13, <1>14, <1>16, <1>17
<1> QED BY <1>18 DEF q, fin, bi, L, d

-----------------------------------------------------------------------------
(* Programs *)

Instrucciones(is) == [i \in DOMAIN is |-> serialize_instruction(is[i])]

\* The bytes of a program: its count, u, which is its instructions one after
\* the other, the first k of which take h[k], and its size.
EsPrograma(l, V, u, w, h) ==
  LET is == l.instructions
      n == Len(is)
      ss == Instrucciones(is)
  IN  /\ is \in Seq(InstruccionesDe(V)) /\ n \in Nat /\ DOMAIN is = 1 .. n
      /\ l.process_size \in V
      /\ Len(ss) = n /\ w \in [1 .. n -> Nat]
      /\ \A k \in 1 .. n : /\ is[k] \in InstruccionesDe(V)
                           /\ ss[k] = serialize_instruction(is[k]) /\ Len(ss[k]) = w[k]
                           /\ w[k] = bytes_instruction(is[k])
      /\ EsSuma(h, n, w) /\ EsConcatenacion(u, ss, h)
      /\ u \in Seq(Bytes(V)) /\ Len(u) = h[n]
      /\ serialize_instructions_list(l)
           = (serialize_int(n) \o u) \o serialize_int(l.process_size)
      /\ bytes_instructions_list(l) = (INT + h[n]) + INT

LEMMA FormaDePrograma ==
  ASSUME NEW V, NEW l \in ProgramasDe(V)
  PROVE  \E u, w, h : EsPrograma(l, V, u, w, h)
<1> DEFINE is == l.instructions
           n == Len(is)
           ss == Instrucciones(is)
           w == [k \in 1 .. n |-> bytes_instruction(is[k])]
           u == FlattenSeq(ss)
<1>1. is \in Seq(InstruccionesDe(V)) /\ l.process_size \in V
  BY DEF ProgramasDe
<1>2. n \in Nat /\ DOMAIN is = 1 .. n /\ is \in [1 .. n -> InstruccionesDe(V)]
  BY <1>1, LenProperties
<1>3. ss = [k \in 1 .. n |-> serialize_instruction(is[k])]
  BY <1>2 DEF Instrucciones
<1>a. serialize_instructions_list(l) = (serialize_int(n) \o u) \o serialize_int(l.process_size)
  BY DEF serialize_instructions_list, Instrucciones
<1>b. bytes_instructions_list(l)
        = INT + FoldLeft(LAMBDA x, i : x + bytes_instruction(i), 0, is) + INT
  BY DEF bytes_instructions_list
<1> HIDE DEF is, n
<1>4. ASSUME NEW k \in 1 .. n
      PROVE  /\ is[k] \in InstruccionesDe(V)
             /\ serialize_instruction(is[k]) \in Seq(Bytes(V))
             /\ Len(serialize_instruction(is[k])) = bytes_instruction(is[k])
             /\ bytes_instruction(is[k]) \in Nat
  <2>1. is[k] \in InstruccionesDe(V)
    BY <1>2
  <2> QED BY <2>1, FormaDeInstruccion
<1>5. w \in [1 .. n -> Nat] /\ \A k \in 1 .. n : w[k] = bytes_instruction(is[k])
  BY <1>4
<1>6. ss \in [1 .. n -> Seq(Bytes(V))]
  BY <1>3, <1>4
<1>c. \A k \in 1 .. n : ss[k] = serialize_instruction(is[k])
  BY <1>3
<1> HIDE DEF ss, w
<1>7. ss \in Seq(Seq(Bytes(V))) /\ Len(ss) = n
  BY <1>2, <1>6, FlujoDe
<1>8. \A k \in 1 .. n : Len(ss[k]) = w[k] /\ w[k] = Len(ss[k])
  BY <1>4, <1>5, <1>c
<1>9. PICK h : EsSuma(h, n, w)
  BY <1>2, <1>5, SumaExiste
<1>10. u \in Seq(Bytes(V)) /\ EsConcatenacion(u, ss, h)
  BY <1>5, <1>7, <1>8, <1>9, ConcatenacionEs
<1>11. Len(u) = h[n]
  BY <1>7, <1>10 DEF EsConcatenacion
<1>12. FoldLeft(LAMBDA x, i : x + bytes_instruction(i), 0, is) = h[n]
  BY <1>2, <1>5, <1>9, PlegadoEsSuma
<1>13. bytes_instructions_list(l) = (INT + h[n]) + INT
  BY <1>b, <1>12
<1> HIDE DEF u
<1>14. EsPrograma(l, V, u, w, h)
  BY <1>1, <1>2, <1>4, <1>5, <1>7, <1>8, <1>9, <1>10, <1>11, <1>13, <1>a, <1>c
     DEF EsPrograma, is, n, ss
<1> QED BY <1>14

LEMMA EnteroSonBytes ==
  ASSUME NEW V, NEW v \in V \cup Int
  PROVE  serialize_int(v) \in Seq(Bytes(V)) /\ Len(serialize_int(v)) = INT
<1> DEFINE vs == <<v>>
           W == {v}
<1>1. vs \in Seq(W) /\ Len(vs) = 1
  OBVIOUS
<1>2. Octetos(W) \subseteq Bytes(V)
  BY DEF Octetos, Bytes
<1>3. serialize_int(v) = Enteros(vs)
  BY DEF serialize_int
<1> HIDE DEF vs, W
<1>4. Enteros(vs) \in Seq(Octetos(W)) /\ Len(Enteros(vs)) = INT * Len(vs)
  BY <1>1, FormaDeEnteros
<1> DEFINE A == Octetos(W)
<1> HIDE DEF A
<1>5. Enteros(vs) \in Seq(Bytes(V))
  BY <1>2, <1>4, FlujoMayor DEF A
<1> QED BY <1>1, <1>3, <1>4, <1>5 DEF INT

LEMMA BytesDePrograma ==
  ASSUME NEW V, NEW l, NEW u, NEW w, NEW h, EsPrograma(l, V, u, w, h)
  PROVE  LET a == serialize_int(Len(l.instructions))
             b == serialize_int(l.process_size)
         IN  /\ a \in Seq(Bytes(V)) /\ Len(a) = INT /\ b \in Seq(Bytes(V)) /\ Len(b) = INT
             /\ a \o u \in Seq(Bytes(V)) /\ Len(a \o u) = INT + h[Len(l.instructions)]
             /\ (a \o u) \o b \in Seq(Bytes(V))
             /\ Len((a \o u) \o b) = bytes_instructions_list(l)
             /\ bytes_instructions_list(l) \in Nat
<1> DEFINE n == Len(l.instructions)
           a == serialize_int(n)
           b == serialize_int(l.process_size)
           au == a \o u
<1>1. n \in Nat /\ l.process_size \in V /\ u \in Seq(Bytes(V)) /\ Len(u) = h[n]
      /\ bytes_instructions_list(l) = (INT + h[n]) + INT
  BY DEF EsPrograma
<1>2. /\ a \in Seq(Bytes(V)) /\ Len(a) = INT
      /\ b \in Seq(Bytes(V)) /\ Len(b) = INT
  <2> HIDE DEF n
  <2>1. n \in V \cup Int /\ l.process_size \in V \cup Int
    BY <1>1
  <2> QED BY <2>1, EnteroSonBytes
<1> HIDE DEF n, a, b, au
<1>3. au \in Seq(Bytes(V)) /\ Len(au) = INT + h[n]
  BY <1>1, <1>2, ConcatProperties DEF au
<1>4. au \o b \in Seq(Bytes(V)) /\ Len(au \o b) = (INT + h[n]) + INT
  <2>1. au \o b \in Seq(Bytes(V)) /\ Len(au \o b) = Len(au) + Len(b)
    BY <1>2, <1>3, ConcatProperties
  <2>2. Len(au) = INT + h[n] /\ Len(b) = INT
    BY <1>2, <1>3
  <2> QED BY <2>1, <2>2
<1>5. bytes_instructions_list(l) \in Nat
  BY <1>1, <1>4, LenProperties
<1> QED BY <1>1, <1>2, <1>3, <1>4, <1>5 DEF n, a, b, au

\* The size declared for a program is that of its bytes, whatever its
\* instructions and however many (bytes_instructions_list,
\* instructions_list.c:35, against serialize_instructions_list,
\* serialization.c:95).
THEOREM ProgramaExacto ==
  ASSUME NEW V, NEW l \in ProgramasDe(V)
  PROVE  /\ BufferExacto(new_instruction_buffer(l))
         /\ serialize_instructions_list(l) \in Seq(Bytes(V))
         /\ bytes_instructions_list(l) \in Nat
<1>1. PICK u, w, h : EsPrograma(l, V, u, w, h)
  BY FormaDePrograma
<1> DEFINE a == serialize_int(Len(l.instructions))
           b == serialize_int(l.process_size)
           t == (a \o u) \o b
<1>2. t \in Seq(Bytes(V)) /\ Len(t) = bytes_instructions_list(l)
      /\ bytes_instructions_list(l) \in Nat
  BY <1>1, BytesDePrograma
<1>3. serialize_instructions_list(l) = t
  BY <1>1 DEF EsPrograma
<1> HIDE DEF t
<1> QED BY <1>2, <1>3 DEF BufferExacto, new_instruction_buffer

\* Where the next instruction starts, and the ends of n of them, as finales
\* writes them.
Siguiente(s) ==
  [p \in Int \cup {BASURA} |->
     IF p = BASURA THEN BASURA ELSE finDeLista(s, finDeId(s, p))]

Fines(f, s, o, n) == [i \in 0 .. n |-> IF i = 0 THEN o ELSE Siguiente(s)[f[i - 1]]]

LEMMA FinalesEs ==
  ASSUME NEW s, NEW o, NEW n \in Nat, NEW f, f = Fines(f, s, o, n)
  PROVE  \A k \in 0 .. n : finales(s, o, n)[k] = f[k]
<1> DEFINE g == finales(s, o, n)
           S == {k \in 0 .. n : g[k] = f[k]}
<1>1. g = CHOOSE x : x = Fines(x, s, o, n)
  BY DEF finales, Siguiente, Fines
<1>2. \E x : x = Fines(x, s, o, n)
  OBVIOUS
<1>3. g = Fines(g, s, o, n)
  BY <1>1, <1>2
<1> HIDE DEF g
<1>4. 0 \in S
  <2>1. g[0] = o /\ f[0] = o /\ 0 \in 0 .. n
    BY <1>3 DEF Fines
  <2> QED BY <2>1
<1>5. ASSUME NEW k \in 0 .. n - 1, k \in S PROVE k + 1 \in S
  <2>1. k + 1 \in 0 .. n /\ k + 1 # 0 /\ (k + 1) - 1 = k
    OBVIOUS
  <2>2. g[k + 1] = Siguiente(s)[g[k]] /\ f[k + 1] = Siguiente(s)[f[k]]
    BY <1>3, <2>1 DEF Fines
  <2> QED BY <1>5, <2>1, <2>2
<1> HIDE DEF S
<1>6. \A k \in 0 .. n : k \in S
  BY <1>4, <1>5, HastaN
<1> QED BY <1>6 DEF S, g

\* The byte that counts the parameters of instruction i of a program, and the
\* end of the instruction as it is found: only if that byte arrived.
CuentaDe(p, is, h, i) == (p + h[i - 1]) + (Largo[is[i].id] + 2)

FinDe(p, c, is, h, i) ==
  IF i = 0 \/ CuentaDe(p, is, h, i) + 1 <= c THEN p + h[i] ELSE BASURA

\* What is read of instruction k of a program whose instructions are at p.
Lee(s, p, c, V, is, h, k) ==
  LET o == p + h[k - 1]
      q == CuentaDe(p, is, h, k)
  IN  /\ o \in Nat /\ q \in Nat /\ h[k] \in Nat /\ q + 1 <= p + h[k] /\ o <= q
      /\ ~(q + 1 <= c) => finDeLista(s, finDeId(s, o)) = BASURA
      /\ q + 1 <= c =>
           /\ finDeLista(s, finDeId(s, o)) = p + h[k]
           /\ deserialize_instruction(s, o) \in InstruccionesDe(V \cup {BASURA})
      /\ p + h[k] <= c => deserialize_instruction(s, o) = is[k] /\ q + 1 <= c

LEMMA LlevaInstrucciones ==
  ASSUME BASURA \notin Int, NEW V, NEW l, NEW u, NEW w, NEW h, EsPrograma(l, V, u, w, h),
         NEW s, NEW p, NEW c, Lleva(s, p, u, c), NEW k \in 1 .. Len(l.instructions)
  PROVE  Lee(s, p, c, V, l.instructions, h, k)
<1> DEFINE is == l.instructions
           n == Len(is)
           ss == Instrucciones(is)
           i == is[k]
           o == p + h[k - 1]
           L == Largo[i.id]
           q == o + (L + 2)
<1>1. /\ n \in Nat /\ Len(ss) = n /\ w \in [1 .. n -> Nat]
      /\ EsSuma(h, n, w) /\ EsConcatenacion(u, ss, h)
  BY DEF EsPrograma
<1>2. /\ i \in InstruccionesDe(V) /\ ss[k] = serialize_instruction(i)
      /\ Len(ss[k]) = w[k] /\ w[k] = bytes_instruction(i)
  BY DEF EsPrograma
<1>3. Lleva(s, o, ss[k], c)
  <2> HIDE DEF ss, n
  <2>1. k \in 1 .. n
    BY DEF n
  <2> QED BY <1>1, <1>2, <2>1, LlevaCadaUna
<1>4. h[k - 1] \in Nat /\ h[k] \in Nat /\ h[k] = h[k - 1] + w[k]
  <2>1. k \in 1 .. n /\ k - 1 \in 0 .. n /\ k \in 0 .. n
    BY <1>1
  <2> QED BY <1>1, <2>1 DEF EsSuma
<1>5. /\ w[k] = L + 2 + bytes_list(i.parameters)
      /\ i.id \in DOMAIN Largo /\ i.parameters \in Seq(V)
      /\ Len(i.parameters) \in 0 .. 127
  BY <1>2, FormaDeInstruccion
<1>6. bytes_list(i.parameters) >= 1 /\ bytes_list(i.parameters) \in Nat
  <2> DEFINE m == Len(i.parameters)
             b == bytes_list(i.parameters)
  <2>1. m \in 0 .. 127 /\ b = (m * INT) + 1
    BY <1>5 DEF bytes_list
  <2> HIDE DEF m, b
  <2>2. b >= 1 /\ b \in Nat
    BY <2>1 DEF INT
  <2> QED BY <2>2 DEF b
<1>7. L \in Nat
  BY <1>5, LargoNatural
<1>8. p \in Nat
  BY DEF Lleva
<1>9. /\ ~(q + 1 <= c) => finDeLista(s, finDeId(s, o)) = BASURA
      /\ q + 1 <= c =>
           /\ finDeLista(s, finDeId(s, o)) = o + bytes_instruction(i)
           /\ deserialize_instruction(s, o) \in InstruccionesDe(V \cup {BASURA})
      /\ o + bytes_instruction(i) <= c => deserialize_instruction(s, o) = i /\ q + 1 <= c
  <2>1. Lleva(s, o, serialize_instruction(i), c) /\ i \in InstruccionesDe(V)
    BY <1>2, <1>3
  <2> HIDE DEF i, o, ss
  <2> QED BY <2>1, LlevaInstruccion
<1>10. q = CuentaDe(p, is, h, k)
  BY DEF CuentaDe
<1> DEFINE bl == bytes_list(i.parameters)
           x == h[k - 1]
           y == h[k]
           z == w[k]
<1>a. /\ z = L + 2 + bl /\ bl >= 1 /\ bl \in Nat /\ z = bytes_instruction(i)
      /\ x \in Nat /\ y \in Nat /\ y = x + z /\ o = p + x /\ q = o + (L + 2)
  BY <1>2, <1>4, <1>5, <1>6
<1> HIDE DEF i, L, bl, x, y, z, q, o
<1>b. o \in Nat /\ o + z = p + y /\ q \in Nat /\ q + 1 <= p + y /\ o <= q
  BY <1>7, <1>8, <1>a
<1>11. o \in Nat /\ o + bytes_instruction(i) = p + h[k]
  BY <1>a, <1>b DEF y
<1>12. q \in Nat /\ q + 1 <= p + h[k] /\ o <= q
  BY <1>b DEF y
<1> QED BY <1>4, <1>9, <1>10, <1>11, <1>12 DEF Lee, o, i

\* Once the count of an instruction did not arrive, none of those after it did.
LEMMA FinesDePrograma ==
  ASSUME BASURA \notin Int, NEW V, NEW l, NEW u, NEW w, NEW h, EsPrograma(l, V, u, w, h),
         NEW s, NEW p, NEW c, Lleva(s, p, u, c)
  PROVE  LET is == l.instructions
             n == Len(is)
         IN  \A k \in 0 .. n : finales(s, p, n)[k] = FinDe(p, c, is, h, k)
<1> DEFINE is == l.instructions
           n == Len(is)
           f == [k \in 0 .. n |-> FinDe(p, c, is, h, k)]
<1>1. n \in Nat /\ h \in [0 .. n -> Nat] /\ h[0] = 0 /\ p \in Nat /\ c \in Nat
  BY DEF EsPrograma, EsSuma, Lleva
<1>2. \A k \in 1 .. n : Lee(s, p, c, V, is, h, k)
  BY LlevaInstrucciones
<1> HIDE DEF is, n
<1>3. f[0] = p
  BY <1>1 DEF FinDe
<1>4. ASSUME NEW k \in 1 .. n PROVE f[k] = Siguiente(s)[f[k - 1]]
  <2> DEFINE j == k - 1
             o == p + h[j]
             q == CuentaDe(p, is, h, k)
  <2>1. /\ q \in Nat /\ h[k] \in Nat /\ o \in Nat /\ o <= q
        /\ ~(q + 1 <= c) => finDeLista(s, finDeId(s, o)) = BASURA
        /\ q + 1 <= c => finDeLista(s, finDeId(s, o)) = p + h[k]
    BY <1>2 DEF Lee
  <2>2. j \in 0 .. n /\ k \in 0 .. n /\ k # 0
    BY <1>1
  <2>3. /\ f[k] = IF q + 1 <= c THEN p + h[k] ELSE BASURA
        /\ f[j] = FinDe(p, c, is, h, j)
    BY <2>2 DEF FinDe
  <2>4. finDeLista(s, finDeId(s, o)) = f[k]
    BY <2>1, <2>3
  <2>5. CASE f[j] = o
    <3>1. o \in Int \cup {BASURA} /\ o # BASURA
      BY <2>1
    <3>2. Siguiente(s)[o] = finDeLista(s, finDeId(s, o))
      BY <3>1 DEF Siguiente
    <3> QED BY <2>4, <2>5, <3>2
  <2>6. CASE f[j] # o
    <3>1. j # 0 /\ ~(CuentaDe(p, is, h, j) + 1 <= c) /\ f[j] = BASURA
      BY <2>3, <2>6 DEF FinDe
    <3>2. j \in 1 .. n
      BY <2>2, <3>1
    <3>3. CuentaDe(p, is, h, j) + 1 <= o /\ CuentaDe(p, is, h, j) \in Nat
      BY <1>2, <3>2 DEF Lee
    <3> DEFINE qj == CuentaDe(p, is, h, j)
    <3> HIDE DEF qj, q, o
    <3>4. ~(q + 1 <= c)
      <4>1. qj \in Nat /\ qj + 1 <= o /\ ~(qj + 1 <= c)
        BY <3>1, <3>3 DEF qj
      <4> QED BY <1>1, <2>1, <4>1
    <3>5. f[k] = BASURA
      BY <2>3, <3>4
    <3>6. Siguiente(s)[BASURA] = BASURA
      BY DEF Siguiente
    <3> QED BY <3>1, <3>5, <3>6
  <2> QED BY <2>5, <2>6
<1>5. f = Fines(f, s, p, n)
  <2>1. \A k \in 0 .. n : f[k] = IF k = 0 THEN p ELSE Siguiente(s)[f[k - 1]]
    <3> SUFFICES ASSUME NEW k \in 0 .. n
                 PROVE  f[k] = IF k = 0 THEN p ELSE Siguiente(s)[f[k - 1]]
      OBVIOUS
    <3>1. CASE k = 0
      BY <1>3, <3>1
    <3>2. CASE k # 0
      <4>1. k \in 1 .. n
        BY <1>1, <3>2
      <4> HIDE DEF f
      <4> QED BY <1>4, <3>2, <4>1
    <3> QED BY <3>1, <3>2
  <2>2. f = [k \in 0 .. n |-> f[k]]
    OBVIOUS
  <2> HIDE DEF f
  <2>3. f = [k \in 0 .. n |-> IF k = 0 THEN p ELSE Siguiente(s)[f[k - 1]]]
    BY <2>1, <2>2
  <2> QED BY <2>3 DEF Fines
<1>6. \A k \in 0 .. n : f[k] = FinDe(p, c, is, h, k)
  OBVIOUS
<1> HIDE DEF f
<1>7. \A k \in 0 .. n : finales(s, p, n)[k] = f[k]
  BY <1>1, <1>5, FinalesEs
<1> QED BY <1>6, <1>7 DEF is, n

\* Of a program cut short nothing is read, or a program whose instructions
\* are well formed; of one that arrived, that program.
LEMMA ProgramaLlevado ==
  ASSUME BASURA \notin Int, NEW V, NEW l \in ProgramasDe(V), NEW s, NEW o, NEW c,
         Lleva(s, o, serialize_instructions_list(l), c)
  PROVE  LET leido == deserialize_instructions_list(s, o)
         IN  /\ leido = BASURA \/ leido \in ProgramasDe(V \cup {BASURA})
             /\ o + bytes_instructions_list(l) <= c => leido = l
<1> DEFINE is == l.instructions
           n == Len(is)
           ps == l.process_size
           a == serialize_int(n)
           b == serialize_int(ps)
           cant == deserialize_int(s, o)
           fin == finales(s, o + INT, cant)
           leido == deserialize_instructions_list(s, o)
<1>1. PICK u, w, h : EsPrograma(l, V, u, w, h)
  BY FormaDePrograma
<1>2. /\ n \in Nat /\ ps \in V /\ h \in [0 .. n -> Nat]
      /\ is \in Seq(InstruccionesDe(V)) /\ l = [instructions |-> is, process_size |-> ps]
      /\ serialize_instructions_list(l) = (a \o u) \o b
      /\ bytes_instructions_list(l) = (INT + h[n]) + INT
      /\ u \in Seq(Bytes(V))
  BY <1>1 DEF EsPrograma, EsSuma, ProgramasDe
<1>3. /\ a \in Seq(Bytes(V)) /\ Len(a) = INT /\ b \in Seq(Bytes(V)) /\ Len(b) = INT
      /\ a \o u \in Seq(Bytes(V)) /\ Len(a \o u) = INT + h[n]
  BY <1>1, BytesDePrograma
<1>4. leido = IF cant = BASURA \/ fin[cant] = BASURA
              THEN BASURA
              ELSE [instructions |->
                      [i \in 1 .. cant |-> deserialize_instruction(s, fin[i - 1])],
                    process_size |-> deserialize_int(s, fin[cant])]
  BY DEF deserialize_instructions_list
<1> DEFINE p == o + INT
<1>5. Lleva(s, o, a, c) /\ Lleva(s, p, u, c) /\ Lleva(s, p + h[n], b, c)
  <2> HIDE DEF a, b
  <2> DEFINE au == a \o u
             B == Bytes(V)
  <2>1. Lleva(s, o, au \o b, c) /\ au \in Seq(B) /\ b \in Seq(B) /\ Len(au) = INT + h[n]
    BY <1>2, <1>3
  <2> HIDE DEF au
  <2>2. Lleva(s, o, au, c) /\ Lleva(s, o + Len(au), b, c)
    BY <2>1, LlevaPartes
  <2>3. o + Len(au) = p + h[n]
    <3>1. n \in 0 .. n
      BY <1>2
    <3>2. o \in Nat /\ h[n] \in Nat
      BY <1>2, <2>2, <3>1 DEF Lleva
    <3>3. Len(au) = 4 + h[n] /\ p = o + 4
      BY <2>1 DEF INT
    <3> QED BY <3>2, <3>3
  <2>4. Lleva(s, o, a \o u, c) /\ a \in Seq(B) /\ u \in Seq(B) /\ Len(a) = INT
    BY <1>2, <1>3, <2>2 DEF au
  <2>5. Lleva(s, o, a, c) /\ Lleva(s, p, u, c)
    BY <2>4, LlevaPartes
  <2> QED BY <2>2, <2>3, <2>5
<1>6. /\ cant = IF o + INT <= c THEN n ELSE BASURA
      /\ deserialize_int(s, p + h[n]) = IF (p + h[n]) + INT <= c THEN ps ELSE BASURA
  BY <1>5, LlevaEntero
<1>7. o \in Nat /\ c \in Nat /\ p \in Nat /\ h[n] \in Nat
  <2>1. n \in 0 .. n
    BY <1>2
  <2> QED BY <1>2, <1>5, <2>1 DEF Lleva
<1> HIDE DEF is, n, ps, a, b, cant, leido
<1>8. CASE ~(o + INT <= c)
  <2>1. leido = BASURA
    BY <1>4, <1>6, <1>8
  <2>2. ~((o + (INT + h[n])) + INT <= c)
    BY <1>7, <1>8 DEF INT
  <2>3. o + bytes_instructions_list(l) = (o + (INT + h[n])) + INT
    BY <1>2, <1>7 DEF INT
  <2> QED BY <2>1, <2>2, <2>3 DEF leido
<1>9. CASE o + INT <= c
  <2>1. cant = n /\ cant # BASURA
    BY <1>2, <1>6, <1>9
  <2> DEFINE esta == n = 0 \/ CuentaDe(p, is, h, n) + 1 <= c
             ins == [i \in 1 .. n |-> deserialize_instruction(s, p + h[i - 1])]
  <2>2. \A k \in 0 .. n : finales(s, p, n)[k] = FinDe(p, c, is, h, k)
    BY <1>1, <1>5, FinesDePrograma DEF is, n
  <2>3. \A k \in 0 .. n : fin[k] = FinDe(p, c, is, h, k)
    BY <2>1, <2>2
  <2>4. \A k \in 1 .. n : Lee(s, p, c, V, is, h, k)
    BY <1>1, <1>5, LlevaInstrucciones DEF is, n
  <2> HIDE DEF fin, p
  <2>5. fin[n] = IF esta THEN p + h[n] ELSE BASURA
    <3>1. n \in 0 .. n
      BY <1>2
    <3> QED BY <2>3, <3>1 DEF FinDe
  <2>6. CASE ~esta
    <3>1. leido = BASURA
      BY <1>4, <2>1, <2>5, <2>6
    <3>2. n \in 1 .. n /\ ~(CuentaDe(p, is, h, n) + 1 <= c)
      BY <1>2, <2>6
    <3>3. CuentaDe(p, is, h, n) + 1 <= p + h[n] /\ CuentaDe(p, is, h, n) \in Nat
      BY <2>4, <3>2 DEF Lee
    <3> DEFINE q == CuentaDe(p, is, h, n)
    <3>4. q \in Nat /\ q + 1 <= p + h[n] /\ ~(q + 1 <= c)
      BY <3>2, <3>3
    <3> HIDE DEF q
    <3>5. o + bytes_instructions_list(l) = (p + h[n]) + INT
      BY <1>2, <1>7 DEF INT, p
    <3>6. ~((p + h[n]) + INT <= c)
      BY <1>7, <3>4 DEF INT
    <3> QED BY <3>1, <3>5, <3>6 DEF leido
  <2>7. CASE esta
    <3>1. p + h[n] # BASURA
      BY <1>7
    <3>2. ASSUME NEW k \in 1 .. n
          PROVE  CuentaDe(p, is, h, k) + 1 <= c /\ fin[k - 1] = p + h[k - 1]
      <4> DEFINE Va(j) == j = 0 \/ CuentaDe(p, is, h, j) + 1 <= c
                 S == {m \in 0 .. n : Va(n - m)}
      <4>1. 0 \in S
        <5>1. n - 0 = n /\ 0 \in 0 .. n
          BY <1>2
        <5> QED BY <2>7, <5>1
      <4>2. ASSUME NEW m \in 0 .. n - 1, m \in S PROVE m + 1 \in S
        <5> DEFINE j == n - m
                   i == j - 1
        <5>1. j \in 1 .. n /\ i \in 0 .. n /\ n - (m + 1) = i /\ m + 1 \in 0 .. n /\ j # 0
          BY <1>2
        <5>2. Va(j)
          BY <4>2
        <5> HIDE DEF i, j
        <5>3. CuentaDe(p, is, h, j) + 1 <= c
          BY <5>1, <5>2
        <5>4. CuentaDe(p, is, h, j) \in Nat /\ p + h[i] <= CuentaDe(p, is, h, j)
          <6>1. Lee(s, p, c, V, is, h, j) /\ i = j - 1
            BY <2>4, <5>1 DEF i
          <6> QED BY <6>1 DEF Lee
        <5>5. ASSUME i # 0 PROVE CuentaDe(p, is, h, i) + 1 <= c
          <6>1. i \in 1 .. n
            BY <5>1, <5>5
          <6>2. /\ CuentaDe(p, is, h, i) \in Nat /\ h[i] \in Nat
                /\ CuentaDe(p, is, h, i) + 1 <= p + h[i]
            BY <2>4, <6>1 DEF Lee
          <6> DEFINE qi == CuentaDe(p, is, h, i)
                     qj == CuentaDe(p, is, h, j)
          <6>3. qi \in Nat /\ qj \in Nat /\ h[i] \in Nat /\ qi + 1 <= p + h[i]
                /\ p + h[i] <= qj /\ qj + 1 <= c
            BY <5>3, <5>4, <6>2
          <6> HIDE DEF qi, qj
          <6>4. qi + 1 <= c
            BY <1>7, <6>3
          <6> QED BY <6>4 DEF qi
        <5>6. Va(i)
          BY <5>5
        <5> QED BY <5>1, <5>6
      <4> HIDE DEF S
      <4>3. \A m \in 0 .. n : m \in S
        BY <1>2, <4>1, <4>2, HastaN
      <4>4. \A j \in 0 .. n : Va(j)
        <5> SUFFICES ASSUME NEW j \in 0 .. n PROVE Va(j)
          OBVIOUS
        <5>1. n - j \in 0 .. n /\ n - (n - j) = j
          BY <1>2
        <5>2. Va(n - (n - j))
          BY <4>3, <5>1 DEF S
        <5> QED BY <5>1, <5>2, Zenon
      <4>5. k \in 0 .. n /\ k # 0 /\ k - 1 \in 0 .. n
        BY <1>2
      <4>6. Va(k) /\ Va(k - 1)
        BY <4>4, <4>5
      <4>7. fin[k - 1] = p + h[k - 1]
        BY <2>3, <4>5, <4>6 DEF FinDe
      <4> QED BY <4>5, <4>6, <4>7
    <3>3. /\ leido = [instructions |-> ins, process_size |-> deserialize_int(s, p + h[n])]
      <4>1. leido = [instructions |->
                        [i \in 1 .. n |-> deserialize_instruction(s, fin[i - 1])],
                     process_size |-> deserialize_int(s, p + h[n])]
        BY <1>4, <2>1, <2>5, <2>7, <3>1
      <4>2. \A i \in 1 .. n : fin[i - 1] = p + h[i - 1]
        BY <3>2
      <4> QED BY <4>1, <4>2
    <3>4. ins \in [1 .. n -> InstruccionesDe(V \cup {BASURA})]
      <4>1. ASSUME NEW k \in 1 .. n
            PROVE  deserialize_instruction(s, p + h[k - 1]) \in InstruccionesDe(V \cup {BASURA})
        BY <2>4, <3>2 DEF Lee
      <4> QED BY <4>1
    <3>5. ins \in Seq(InstruccionesDe(V \cup {BASURA}))
      <4> HIDE DEF ins
      <4> QED BY <1>2, <3>4, FlujoDe
    <3>6. leido \in ProgramasDe(V \cup {BASURA})
      <4>1. deserialize_int(s, p + h[n]) \in V \cup {BASURA}
        BY <1>2, <1>6 DEF p
      <4> HIDE DEF ins
      <4> QED BY <3>3, <3>5, <4>1 DEF ProgramasDe
    <3>7. ASSUME o + bytes_instructions_list(l) <= c PROVE leido = l
      <4>1. (p + h[n]) + INT <= c
        BY <1>2, <1>7, <3>7 DEF INT, p
      <4>2. deserialize_int(s, p + h[n]) = ps
        BY <1>6, <4>1 DEF p
      <4>3. ASSUME NEW k \in 1 .. n PROVE deserialize_instruction(s, p + h[k - 1]) = is[k]
        <5>1. h[k] <= h[n] /\ h[k] \in Nat
          <6>1. \A j \in 0 .. n : j <= n => h[j] <= h[n]
            <7>1. w \in [1 .. n -> Nat] /\ EsSuma(h, n, w) /\ n \in 0 .. n
              BY <1>1, <1>2 DEF EsPrograma, n, is
            <7> QED BY <1>2, <7>1, SumaCrece
          <6>2. k \in 0 .. n /\ k <= n
            BY <1>2
          <6> QED BY <1>2, <6>1, <6>2
        <5>2. p + h[k] <= c
          BY <1>7, <4>1, <5>1 DEF INT
        <5> QED BY <2>4, <5>2 DEF Lee
      <4>4. ins = [k \in 1 .. n |-> is[k]]
        BY <4>3
      <4>5. is = [k \in 1 .. n |-> is[k]]
        BY <1>2, LenProperties DEF n
      <4> HIDE DEF ins
      <4> QED BY <1>2, <3>3, <4>2, <4>4, <4>5
    <3> QED BY <3>6, <3>7 DEF leido
  <2> QED BY <2>6, <2>7
<1> QED BY <1>8, <1>9

\* A stream that arrived carries itself.
LEMMA LlevaTodo ==
  ASSUME NEW S, NEW t \in Seq(S)
  PROVE  Lleva(t, 0, t, Len(t))
<1>1. Len(t) \in Nat
  BY LenProperties
<1>2. \A k \in 1 .. Len(t) : 0 + k = k /\ 0 + k <= Len(t)
  BY <1>1
<1> QED BY <1>1, <1>2 DEF Lleva

\* A program is read back as it was written, whatever its instructions and
\* however many: no count, identifier or parameter is taken for another
\* (serialization.c:95-185).
THEOREM ProgramaIntacto ==
  ASSUME NEW V, NEW l \in ProgramasDe(V)
  PROVE  deserialize_instructions_list(serialize_instructions_list(l), 0) = l
<1> DEFINE t == serialize_instructions_list(l)
<1>1. /\ t \in Seq(Bytes(V)) /\ bytes_instructions_list(l) = Len(t)
      /\ bytes_instructions_list(l) \in Nat
  BY ProgramaExacto DEF BufferExacto, new_instruction_buffer
<1>2. Lleva(t, 0, t, Len(t)) /\ 0 + bytes_instructions_list(l) <= Len(t)
  BY <1>1, LlevaTodo
<1>3. Lleva(t, 0, serialize_instructions_list(l), Len(t))
  BY <1>2
<1> HIDE DEF t
<1>4. deserialize_instructions_list(t, 0) = l
  BY <1>2, <1>3, ProgramaLlevado, ConstantesSerializacion
<1> QED BY <1>4 DEF t

-----------------------------------------------------------------------------
(* PCBs with their programs, alone and in an I/O *)

\* A PCB with any integers and a program.
EsPcb(pcb, V) ==
  /\ pcb = [id |-> pcb.id, tamanioProceso |-> pcb.tamanioProceso, PC |-> pcb.PC,
            tablaDePaginas |-> pcb.tablaDePaginas,
            estimacionRafaga |-> pcb.estimacionRafaga,
            lengthUltimaRafaga |-> pcb.lengthUltimaRafaga,
            sizeInstrucciones |-> pcb.sizeInstrucciones,
            instrucciones |-> pcb.instrucciones]
  /\ pcb.instrucciones \in ProgramasDe(V)

LEMMA BytesDePcb ==
  ASSUME NEW V, NEW pcb, EsPcb(pcb, V)
  PROVE  LET s == pcb_serializar_estruc(pcb)
         IN  bytes_PCB(pcb) = Len(s) /\ bytes_PCB(pcb) \in Nat /\ \E S : s \in Seq(S)
<1> DEFINE prog == serialize_instructions_list(pcb.instrucciones)
           s == pcb_serializar_estruc(pcb)
<1>1. prog \in Seq(Bytes(V)) /\ bytes_instructions_list(pcb.instrucciones) = Len(prog)
  BY ProgramaExacto DEF EsPcb, BufferExacto, new_instruction_buffer
<1>2. Len(s) = (EnterosPcb * INT) + Len(prog) /\ \E S : s \in Seq(S)
  BY <1>1, FormaDePcb
<1>3. bytes_PCB(pcb) = Len(s)
  BY <1>1, <1>2 DEF bytes_PCB
<1> HIDE DEF s
<1>4. Len(s) \in Nat
  <2>1. PICK S : s \in Seq(S)
    BY <1>2
  <2> QED BY <2>1, LenProperties
<1> QED BY <1>2, <1>3, <1>4 DEF s

\* Of a PCB cut short, one whose program is none, or one with a program whose
\* instructions are well formed; of one that arrived, that PCB.
LEMMA PcbLlevado ==
  ASSUME BASURA \notin Int, NEW V, NEW pcb, EsPcb(pcb, V), NEW s, NEW o, NEW c,
         Lleva(s, o, pcb_serializar_estruc(pcb), c)
  PROVE  LET leido == pcb_deserializar_estrucs(s, o)
         IN  /\ leido.instrucciones = BASURA \/ EsPcb(leido, V \cup {BASURA})
             /\ o + bytes_PCB(pcb) <= c => leido = pcb
<1> DEFINE ints == EnterosDePcb(pcb)
           W == {ints[i] : i \in 1 .. EnterosPcb}
           l == pcb.instrucciones
           prog == serialize_instructions_list(l)
           e == Enteros(ints)
           leido == pcb_deserializar_estrucs(s, o)
           p == o + (EnterosPcb * INT)
<1>1. /\ prog \in Seq(Bytes(V)) /\ l \in ProgramasDe(V)
      /\ bytes_instructions_list(l) \in Nat
  BY ProgramaExacto DEF EsPcb
<1>2. /\ ints \in Seq(W) /\ Len(ints) = EnterosPcb
      /\ Len(e) = EnterosPcb * INT /\ e \in Seq(Octetos(W))
      /\ pcb_serializar_estruc(pcb) = e \o prog
  BY <1>1, FormaDePcb
<1>3. leido = [id |-> deserialize_int(s, o),
               tamanioProceso |-> deserialize_int(s, o + INT),
               PC |-> deserialize_int(s, o + (2 * INT)),
               tablaDePaginas |-> deserialize_int(s, o + (3 * INT)),
               estimacionRafaga |-> deserialize_int(s, o + (4 * INT)),
               lengthUltimaRafaga |-> deserialize_int(s, o + (5 * INT)),
               sizeInstrucciones |-> deserialize_int(s, o + (6 * INT)),
               instrucciones |-> deserialize_instructions_list(s, p)]
  BY DEF pcb_deserializar_estrucs
<1>4. Lleva(s, o, e, c) /\ Lleva(s, p, prog, c)
  <2> HIDE DEF ints, W, prog, e
  <2>1. Lleva(s, o, e \o prog, c)
    BY <1>2
  <2> DEFINE A == Octetos(W)
             B == Bytes(V)
  <2>2. e \in Seq(A) /\ prog \in Seq(B)
    BY <1>1, <1>2
  <2> HIDE DEF A, B
  <2> QED BY <1>2, <2>1, <2>2, LlevaPartes
<1>5. /\ deserialize_instructions_list(s, p) = BASURA
           \/ deserialize_instructions_list(s, p) \in ProgramasDe(V \cup {BASURA})
      /\ p + bytes_instructions_list(l) <= c => deserialize_instructions_list(s, p) = l
  <2> HIDE DEF l, p
  <2>1. Lleva(s, p, serialize_instructions_list(l), c)
    BY <1>4
  <2> QED BY <1>1, <2>1, ProgramaLlevado
<1>6. \A i \in 1 .. 7 : deserialize_int(s, o + (INT * (i - 1)))
                          = IF o + (INT * i) <= c THEN ints[i] ELSE BASURA
  <2> SUFFICES ASSUME NEW i \in 1 .. 7
               PROVE  deserialize_int(s, o + (INT * (i - 1)))
                        = IF o + (INT * i) <= c THEN ints[i] ELSE BASURA
    OBVIOUS
  <2> HIDE DEF ints, W
  <2>1. i \in 1 .. Len(ints)
    BY <1>2 DEF EnterosPcb
  <2> QED BY <1>2, <1>4, <2>1, LlevaEnteros
<1>7. o \in Nat /\ c \in Nat
  BY <1>4 DEF Lleva
<1>8. leido.instrucciones = BASURA \/ EsPcb(leido, V \cup {BASURA})
  BY <1>3, <1>5 DEF EsPcb
<1>9. ASSUME o + bytes_PCB(pcb) <= c PROVE leido = pcb
  <2>1. bytes_PCB(pcb) = 28 + bytes_instructions_list(l) /\ p = o + 28
    BY DEF bytes_PCB, EnterosPcb, INT
  <2> DEFINE b == bytes_instructions_list(l)
  <2>2. b \in Nat /\ o + (28 + b) <= c
    BY <1>1, <1>9, <2>1
  <2> HIDE DEF b
  <2>3. p + b <= c
    BY <1>7, <2>1, <2>2
  <2>4. \A i \in 1 .. 7 : o + (INT * i) <= c
    BY <1>7, <2>2 DEF INT
  <2>5. \A i \in 1 .. 7 : deserialize_int(s, o + (INT * (i - 1))) = ints[i]
    BY <1>6, <2>4
  <2>6. /\ o + (INT * (1 - 1)) = o /\ o + (INT * (2 - 1)) = o + INT
        /\ o + (INT * (3 - 1)) = o + (2 * INT) /\ o + (INT * (4 - 1)) = o + (3 * INT)
        /\ o + (INT * (5 - 1)) = o + (4 * INT) /\ o + (INT * (6 - 1)) = o + (5 * INT)
        /\ o + (INT * (7 - 1)) = o + (6 * INT)
    BY <1>7 DEF INT
  <2> HIDE DEF ints
  <2>7. /\ deserialize_int(s, o + (INT * (1 - 1))) = ints[1]
        /\ deserialize_int(s, o + (INT * (2 - 1))) = ints[2]
        /\ deserialize_int(s, o + (INT * (3 - 1))) = ints[3]
        /\ deserialize_int(s, o + (INT * (4 - 1))) = ints[4]
        /\ deserialize_int(s, o + (INT * (5 - 1))) = ints[5]
        /\ deserialize_int(s, o + (INT * (6 - 1))) = ints[6]
        /\ deserialize_int(s, o + (INT * (7 - 1))) = ints[7]
    BY <2>5
  <2>8. /\ deserialize_int(s, o) = ints[1]
        /\ deserialize_int(s, o + INT) = ints[2]
        /\ deserialize_int(s, o + (2 * INT)) = ints[3]
        /\ deserialize_int(s, o + (3 * INT)) = ints[4]
        /\ deserialize_int(s, o + (4 * INT)) = ints[5]
        /\ deserialize_int(s, o + (5 * INT)) = ints[6]
        /\ deserialize_int(s, o + (6 * INT)) = ints[7]
    BY <2>6, <2>7
  <2>9. /\ ints[1] = pcb.id /\ ints[2] = pcb.tamanioProceso /\ ints[3] = pcb.PC
        /\ ints[4] = pcb.tablaDePaginas /\ ints[5] = pcb.estimacionRafaga
        /\ ints[6] = pcb.lengthUltimaRafaga /\ ints[7] = pcb.sizeInstrucciones
    BY DEF ints, EnterosDePcb
  <2>10. deserialize_instructions_list(s, p) = l
    BY <1>5, <2>3 DEF b
  <2> QED BY <1>3, <2>8, <2>9, <2>10 DEF EsPcb
<1> QED BY <1>8, <1>9

\* A PCB, alone or in an I/O, is read back as it was written, whatever its
\* program and its integers: kernel and CPU agree on their order
\* (estructura.c:127-160 and protocolo_transferencia.c:5-37).
THEOREM PcbIntacto ==
  ASSUME NEW V, NEW pcb, EsPcb(pcb, V), NEW bloqueo, NEW espera
  PROVE  LET io == [tiempoBloqueo |-> bloqueo, tiempoEspera |-> espera, pcb |-> pcb]
         IN  /\ pcb_deserializar_estrucs(pcb_serializar_estruc(pcb), 0) = pcb
             /\ deserializarIO(serializarIO(io)) = io
<1> DEFINE io == [tiempoBloqueo |-> bloqueo, tiempoEspera |-> espera, pcb |-> pcb]
           s == pcb_serializar_estruc(pcb)
           ts == <<bloqueo, espera>>
           W == {bloqueo, espera}
           e == Enteros(ts)
           u == e \o s
<1>1. bytes_PCB(pcb) = Len(s) /\ bytes_PCB(pcb) \in Nat
  BY BytesDePcb
<1>a. PICK S : s \in Seq(S)
  BY BytesDePcb
<1>2. pcb_deserializar_estrucs(s, 0) = pcb
  <2>1. Lleva(s, 0, s, Len(s)) /\ 0 + bytes_PCB(pcb) <= Len(s)
    <3> HIDE DEF s
    <3> QED BY <1>1, <1>a, LlevaTodo
  <2> QED BY <2>1, PcbLlevado, ConstantesSerializacion
<1>3. ts \in Seq(W) /\ Len(ts) = 2 /\ ts[1] = bloqueo /\ ts[2] = espera
  OBVIOUS
<1>4. serializarIO(io) = u
  BY DEF serializarIO
<1>5. e = Enteros(ts)
  OBVIOUS
<1>b. s = pcb_serializar_estruc(pcb)
  OBVIOUS
<1> HIDE DEF s, ts, W, e, u
<1>6. e \in Seq(Octetos(W)) /\ Len(e) = 2 * INT
  <2>1. e \in Seq(Octetos(W)) /\ Len(e) = INT * Len(ts)
    BY <1>3, <1>5, FormaDeEnteros
  <2> QED BY <1>3, <2>1 DEF INT
<1>c. PICK A : e \in Seq(A)
  BY <1>6
<1>7. Len(u) = Len(e) + Len(s) /\ u \in Seq(A \cup S)
  BY <1>a, <1>c, Tras DEF u
<1>8. Lleva(u, 0, u, Len(u))
  BY <1>7, LlevaTodo
<1>9. Lleva(u, 0, e, Len(u)) /\ Lleva(u, 0 + Len(e), s, Len(u))
  BY <1>a, <1>c, <1>8, LlevaPartes DEF u
<1>10. 0 + Len(e) = 2 * INT /\ (2 * INT) + bytes_PCB(pcb) <= Len(u) /\ Len(u) \in Nat
  BY <1>1, <1>6, <1>7 DEF INT
<1>11. pcb_deserializar_estrucs(u, 2 * INT) = pcb
  <2>1. Lleva(u, 2 * INT, pcb_serializar_estruc(pcb), Len(u))
    BY <1>9, <1>10, <1>b
  <2> QED BY <1>10, <2>1, PcbLlevado, ConstantesSerializacion
<1>12. deserialize_int(u, 0) = bloqueo /\ deserialize_int(u, INT) = espera
  <2>1. Lleva(u, 0, Enteros(ts), Len(u))
    BY <1>5, <1>9
  <2>2. 1 \in 1 .. Len(ts) /\ 2 \in 1 .. Len(ts)
    BY <1>3
  <2>3. /\ deserialize_int(u, 0 + (INT * (1 - 1)))
             = IF 0 + (INT * 1) <= Len(u) THEN ts[1] ELSE BASURA
        /\ deserialize_int(u, 0 + (INT * (2 - 1)))
             = IF 0 + (INT * 2) <= Len(u) THEN ts[2] ELSE BASURA
    BY <1>3, <2>1, <2>2, LlevaEnteros
  <2>4. /\ 0 + (INT * (1 - 1)) = 0 /\ 0 + (INT * (2 - 1)) = INT
        /\ 0 + (INT * 1) <= Len(u) /\ 0 + (INT * 2) <= Len(u)
    BY <1>1, <1>10 DEF INT
  <2> QED BY <1>3, <2>3, <2>4
<1>13. deserializarIO(u) = io
  BY <1>11, <1>12 DEF deserializarIO
<1> QED BY <1>2, <1>4, <1>13 DEF s
=============================================================================
