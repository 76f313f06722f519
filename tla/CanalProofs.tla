---------------------------- MODULE CanalProofs ----------------------------
(***************************************************************************)
(* The theorems about the conversations, for every request, whatever the   *)
(* numbers and the program in it and however its bytes arrive: a client    *)
(* that goes on was served, what is read whole is what was sent, and what  *)
(* is declared is what is written; and what the parser makes of a file of  *)
(* any length is the program the kernel keeps.                             *)
(***************************************************************************)
EXTENDS Canal, SerializacionProofs

-----------------------------------------------------------------------------
(* A client that goes on *)

\* The answer is sent, read and looked at by who was served.
Atendido ==
  /\ etapa \in {"respuesta", "seguir"} => atendido
  /\ etapa = "seguido" /\ conv.op \notin SinRespuesta => atendido

\* Where a client that could not connect ends; it goes on as if it had been
\* answered only if it waited for nothing.
LEMMA DondeQueda ==
  ASSUME NEW op
  PROVE  /\ SinConexion(op) \in {"inventado", "seguido", "indefinido", "exit"}
         /\ SinConexion(op) = "seguido" => op \in SinRespuesta
<1>1. CASE op \in OpsTabla
  <2>1. op \notin SinRespuesta /\ op # "REQ_PCB_A_EJECUTAR_KERNEL_CPU"
    BY <1>1 DEF OpsTabla, OpsMarco, SinRespuesta
  <2> QED BY <1>1, <2>1 DEF SinConexion
<1>2. CASE op \in SinRespuesta
  <2>1. op \notin OpsTabla /\ op # "REQ_PCB_A_EJECUTAR_KERNEL_CPU"
    BY <1>2 DEF OpsTabla, OpsMarco, SinRespuesta
  <2> QED BY <1>2, <2>1 DEF SinConexion
<1>3. CASE op \notin OpsTabla \cup SinRespuesta
  BY <1>3 DEF SinConexion
<1> QED BY <1>1, <1>2, <1>3

\* Whatever the requests, a client that waits for an answer and goes on has
\* been served (the "seguido" of SinConexion is of those that do not wait).
THEOREM SoloAtendidos == Spec => []SigueSoloAtendido
<1>1. Init => Atendido
  BY DEF Init, Atendido
<1>2. Atendido /\ [Next]_vars => Atendido'
  <2> SUFFICES ASSUME Atendido, [Next]_vars PROVE Atendido'
    OBVIOUS
  <2>1. CASE iniciar_cliente
    BY <2>1 DEF iniciar_cliente, Atendido
  <2>2. CASE iniciar_cliente_Falla
    <3>1. SinConexion(conv.op) = "seguido" => conv.op \in SinRespuesta
      BY DondeQueda
    <3>2. SinConexion(conv.op) \notin {"respuesta", "seguir"}
      BY DondeQueda
    <3> QED BY <2>2, <3>1, <3>2 DEF iniciar_cliente_Falla, Atendido
  <2>3. CASE Llega
    BY <2>3 DEF Llega, Atendido
  <2>4. CASE recibir_operacion
    <3>1. PICK op : etapa' = EtapaTrasOperacion(op)
      BY <2>4 DEF recibir_operacion
    <3>2. /\ etapa \in {"pedido", "respuesta"}
          /\ conv' = conv /\ atendido' = atendido
      BY <2>4 DEF recibir_operacion, recv, Leyendo
    <3>3. /\ EtapaTrasOperacion(op) \in {etapa, "exit", "seguido"}
          /\ EtapaTrasOperacion(op) = "seguido" => etapa = "respuesta"
      <4>1. CASE ~(etapa = "respuesta" /\ conv.op \in OpsProceso \cup OpsCpuMemoria)
        BY <3>2, <4>1 DEF EtapaTrasOperacion
      <4>2. CASE etapa = "respuesta" /\ conv.op \in OpsProceso \cup OpsCpuMemoria
        BY <4>2 DEF EtapaTrasOperacion
      <4> QED BY <4>1, <4>2
    <3> QED BY <3>1, <3>2, <3>3 DEF Atendido
  <2>5. CASE recibir_buffer_Tamanio
    BY <2>5 DEF recibir_buffer_Tamanio, recv, Leyendo, Atendido
  <2>6. CASE recibir_buffer_Datos
    BY <2>6 DEF recibir_buffer_Datos, recv, Leyendo, Atendido
  <2>7. CASE atender
    BY <2>7 DEF atender, Atendido
  <2>8. CASE atender_Ilegible
    BY <2>8 DEF atender_Ilegible, Atendido
  <2>9. CASE seguir
    BY <2>9 DEF seguir, Atendido
  <2>10. CASE UNCHANGED vars
    BY <2>10 DEF vars, Atendido
  <2> QED BY <2>1, <2>2, <2>3, <2>4, <2>5, <2>6, <2>7, <2>8, <2>9, <2>10 DEF Next
<1>3. Atendido => SigueSoloAtendido
  BY DEF Atendido, SigueSoloAtendido
<1> QED BY <1>1, <1>2, <1>3, PTL DEF Spec

-----------------------------------------------------------------------------
(* Bytes on the wire *)

\* What a package of an exact buffer looks like on the wire: the operation,
\* the size, the stream.
EnCable(m, op, b) ==
  /\ Len(m) = 2 * INT + b.size
  /\ \A k \in 1 .. INT : m[k] = <<"entero", k, op>>
  /\ \A k \in 1 .. INT : m[INT + k] = <<"entero", k, b.size>>
  /\ \A k \in 1 .. b.size : m[2 * INT + k] = b.stream[k]

\* The four bytes of one integer.
LEMMA BytesDeUno ==
  ASSUME NEW v
  PROVE  /\ serialize_int(v) \in Seq(Octetos({v})) /\ Len(serialize_int(v)) = INT
         /\ \A k \in 1 .. INT : serialize_int(v)[k] = <<"entero", k, v>>
<1> DEFINE vs == <<v>>
           V == {v}
<1>1. vs \in Seq(V) /\ Len(vs) = 1 /\ vs[1] = v
  OBVIOUS
<1> HIDE DEF vs, V
<1>2. /\ Enteros(vs) \in Seq(Octetos(V)) /\ Len(Enteros(vs)) = INT * Len(vs)
      /\ \A i \in 1 .. Len(vs), k \in 1 .. INT :
           Enteros(vs)[(INT * (i - 1)) + k] = <<"entero", k, vs[i]>>
  BY <1>1, FormaDeEnteros
<1>3. ASSUME NEW k \in 1 .. INT PROVE Enteros(vs)[k] = <<"entero", k, v>>
  <2>1. (INT * (1 - 1)) + k = k /\ 1 \in 1 .. Len(vs)
    BY <1>1 DEF INT
  <2>2. Enteros(vs)[(INT * (1 - 1)) + k] = <<"entero", k, vs[1]>>
    BY <1>2, <2>1
  <2> QED BY <1>1, <2>1, <2>2
<1>4. Len(Enteros(vs)) = INT
  BY <1>1, <1>2 DEF INT
<1> QED BY <1>2, <1>3, <1>4 DEF vs, V, serialize_int

\* A package sent is its three parts.
LEMMA PaqueteEnCable ==
  ASSUME NEW S, NEW b, b.stream \in Seq(S), BufferExacto(b), NEW op
  PROVE  /\ EnCable(serialize_package(new_package(b, op)), op, b)
         /\ \E T : serialize_package(new_package(b, op)) \in Seq(T)
<1> DEFINE o == serialize_int(op)
           t == serialize_int(b.size)
           st == b.stream
           ts == t \o st
           m == o \o ts
<1>1. st \in Seq(S) /\ Len(st) = b.size /\ b.size \in Nat
  BY LenProperties DEF BufferExacto
<1>2. serialize_package(new_package(b, op)) = m
  <2>1. SubSeq(st, 1, Len(st)) = st
    BY <1>1
  <2>2. b.size <= Len(b.stream) /\ SubSeq(b.stream, 1, b.size) = b.stream
    BY <1>1, <2>1
  <2>3. serialize_buffer_stream(b) = st
    BY <2>2, Zenon DEF serialize_buffer_stream
  <2> QED BY <2>3 DEF serialize_package, new_package, serialize_buffer
<1>3. /\ o \in Seq(Octetos({op})) /\ Len(o) = INT
      /\ \A k \in 1 .. INT : o[k] = <<"entero", k, op>>
  BY BytesDeUno
<1>4. /\ t \in Seq(Octetos({b.size})) /\ Len(t) = INT
      /\ \A k \in 1 .. INT : t[k] = <<"entero", k, b.size>>
  BY BytesDeUno
<1> HIDE DEF o, t, st, ts, m
<1>a. PICK A : o \in Seq(A)
  BY <1>3
<1>b. PICK B : t \in Seq(B)
  BY <1>4
<1>c. st \in Seq(S)
  BY <1>1
<1>5. /\ ts \in Seq(B \cup S) /\ Len(ts) = Len(t) + Len(st)
      /\ \A i \in 1 .. Len(t) : ts[i] = t[i]
      /\ \A i \in 1 .. Len(st) : ts[Len(t) + i] = st[i]
  BY <1>b, <1>c, Tras DEF ts
<1>d. PICK C : ts \in Seq(C)
  BY <1>5
<1>6. /\ m \in Seq(A \cup C)
      /\ Len(m) = Len(o) + Len(ts)
      /\ \A i \in 1 .. Len(o) : m[i] = o[i]
      /\ \A i \in 1 .. Len(ts) : m[Len(o) + i] = ts[i]
  BY <1>a, <1>d, Tras DEF m
<1>7. INT = 4
  BY DEF INT
<1>8. Len(ts) = 4 + b.size /\ Len(m) = 2 * INT + b.size
  BY <1>1, <1>3, <1>4, <1>5, <1>6, <1>7, SMTT(20)
<1>9. \A k \in 1 .. INT : m[INT + k] = <<"entero", k, b.size>>
  <2> SUFFICES ASSUME NEW k \in 1 .. INT PROVE m[INT + k] = <<"entero", k, b.size>>
    OBVIOUS
  <2>1. k \in 1 .. Len(ts) /\ k \in 1 .. Len(t)
    BY <1>1, <1>4, <1>7, <1>8
  <2> QED BY <1>3, <1>4, <1>5, <1>6, <2>1
<1>10. \A k \in 1 .. b.size : m[2 * INT + k] = st[k]
  <2> SUFFICES ASSUME NEW k \in 1 .. b.size PROVE m[2 * INT + k] = st[k]
    OBVIOUS
  <2>1. 4 + k \in 1 .. Len(ts) /\ k \in 1 .. Len(st)
    BY <1>1, <1>8
  <2>2. m[Len(o) + (4 + k)] = ts[4 + k] /\ ts[Len(t) + k] = st[k]
    BY <1>5, <1>6, <2>1
  <2>3. Len(o) + (4 + k) = 2 * INT + k /\ Len(t) + k = 4 + k
    BY <1>1, <1>3, <1>4, <1>7
  <2> QED BY <2>2, <2>3
<1>11. EnCable(m, op, b)
  BY <1>3, <1>6, <1>8, <1>9, <1>10 DEF EnCable, st
<1> QED BY <1>2, <1>6, <1>11

\* A piece of a stream.
LEMMA Pedazo ==
  ASSUME NEW T, NEW m \in Seq(T), NEW a \in Nat, NEW b \in Nat,
         a <= b, b <= Len(m)
  PROVE  /\ Len(SubSeq(m, a + 1, b)) = b - a
         /\ \A k \in 1 .. b - a : SubSeq(m, a + 1, b)[k] = m[a + k]
<1>1. Len(m) \in Nat
  BY LenProperties
<1>2. a + 1 \in 1 .. Len(m) + 1 /\ b \in a .. Len(m)
  BY <1>1
<1>3. SubSeq(m, a + 1, b) = [i \in 1 .. (1 + b) - (a + 1) |-> m[(i + (a + 1)) - 1]]
  OBVIOUS
<1>4. (1 + b) - (a + 1) = b - a /\ \A k \in 1 .. b - a : (k + (a + 1)) - 1 = a + k
  OBVIOUS
<1>5. \A k \in 1 .. b - a : SubSeq(m, a + 1, b)[k] = m[a + k]
  BY <1>3, <1>4
<1>6. Len(SubSeq(m, a + 1, b)) = b - a
  BY <1>1, <1>2
<1> QED BY <1>5, <1>6

\* Four bytes that are not those of an integer, in order, are not read as one.
LEMMA NoSeLee ==
  ASSUME NEW r, Len(r) \in Nat,
         \/ Len(r) < INT
         \/ \E j \in Int : j # 1 /\ \E v : r[1] = <<"entero", j, v>>
  PROVE  deserialize_int(r, 0) = BASURA
<1>1. CASE Len(r) < INT
  BY <1>1 DEF deserialize_int, INT
<1>2. CASE \E j \in Int : j # 1 /\ \E v : r[1] = <<"entero", j, v>>
  <2>1. PICK j \in Int : j # 1 /\ \E v : r[1] = <<"entero", j, v>>
    BY <1>2
  <2>2. r[0 + 1] # <<"entero", 1, r[0 + 1][3]>>
    BY <2>1
  <2>3. 1 \in 1 .. INT
    BY DEF INT
  <2>4. ~ \A k \in 1 .. INT : r[0 + k] = <<"entero", k, r[0 + 1][3]>>
    BY <2>2, <2>3
  <2> QED BY <2>4, Zenon DEF deserialize_int
<1> QED BY <1>1, <1>2

\* What a read of n bytes returns.
Bocado(m, a, b, n) == SubSeq(m, a + 1, IF a + n <= b THEN a + n ELSE b)

\* It is of n bytes, or of those that have arrived: those at a.
EsBocado(m, a, b, n) ==
  /\ Len(Bocado(m, a, b, n)) = IF a + n <= b THEN n ELSE b - a
  /\ \A k \in 1 .. Len(Bocado(m, a, b, n)) : Bocado(m, a, b, n)[k] = m[a + k]

\* A piece of a message, whole or cut at the end of what arrived.
LEMMA BocadoEs ==
  ASSUME NEW T, NEW m \in Seq(T), NEW a \in Nat, NEW b \in Nat, NEW n \in Nat,
         a <= b, b <= Len(m)
  PROVE  EsBocado(m, a, b, n)
<1>1. CASE a + n <= b
  <2>1. a + n \in Nat /\ a <= a + n /\ a + n <= Len(m) /\ (a + n) - a = n
    BY <1>1, LenProperties
  <2>2. Bocado(m, a, b, n) = SubSeq(m, a + 1, a + n)
    BY <1>1 DEF Bocado
  <2>3. /\ Len(SubSeq(m, a + 1, a + n)) = (a + n) - a
        /\ \A k \in 1 .. (a + n) - a : SubSeq(m, a + 1, a + n)[k] = m[a + k]
    BY <2>1, Pedazo
  <2> QED BY <1>1, <2>1, <2>2, <2>3 DEF EsBocado
<1>2. CASE ~(a + n <= b)
  <2>1. Bocado(m, a, b, n) = SubSeq(m, a + 1, b)
    BY <1>2 DEF Bocado
  <2>2. /\ Len(SubSeq(m, a + 1, b)) = b - a
        /\ \A k \in 1 .. b - a : SubSeq(m, a + 1, b)[k] = m[a + k]
    BY Pedazo
  <2> QED BY <1>2, <2>1, <2>2 DEF EsBocado
<1> QED BY <1>1, <1>2

\* A read of four bytes gives the operation at offset 0 and the size at offset
\* 4, if it gets the four of them; read at any other offset up to 4, or less
\* than four, they are nothing.
LEMMA LeerCuatro ==
  ASSUME NEW T, NEW m \in Seq(T), NEW op, NEW b, EnCable(m, op, b), b.size \in Nat,
         NEW x \in 0 .. 4, NEW y \in Nat, x < y, y <= Len(m)
  PROVE  LET r == Bocado(m, x, y, INT)
         IN  /\ Len(r) \in 1 .. 4
             /\ Len(r) = 4 <=> x + 4 <= y
             /\ x = 0 /\ x + 4 <= y => deserialize_int(r, 0) = op
             /\ x = 4 /\ x + 4 <= y => deserialize_int(r, 0) = b.size
             /\ x \in 1 .. 3 \/ ~(x + 4 <= y) => deserialize_int(r, 0) = BASURA
<1> DEFINE r == Bocado(m, x, y, INT)
<1>1. INT = 4 /\ Len(m) \in Nat /\ x \in Nat
  BY LenProperties DEF INT
<1>2. /\ Len(r) = IF x + 4 <= y THEN 4 ELSE y - x
      /\ \A k \in 1 .. Len(r) : r[k] = m[x + k]
  <2>1. INT \in Nat /\ x <= y
    BY <1>1
  <2>2. EsBocado(m, x, y, INT)
    BY <1>1, <2>1, BocadoEs
  <2> QED BY <1>1, <2>2 DEF EsBocado
<1> HIDE DEF r
<1>3. Len(r) \in 1 .. 4 /\ (Len(r) = 4 <=> x + 4 <= y) /\ Len(r) \in Nat
  BY <1>1, <1>2
<1>4. /\ Len(m) = 8 + b.size
      /\ \A k \in 1 .. 4 : m[k] = <<"entero", k, op>>
      /\ \A k \in 1 .. 4 : m[4 + k] = <<"entero", k, b.size>>
  BY <1>1, SMTT(30) DEF EnCable
<1>5. ASSUME x = 0, x + 4 <= y PROVE deserialize_int(r, 0) = op
  <2>1. Len(r) = 4 /\ 0 \in Nat
    BY <1>3, <1>5
  <2>2. \A k \in 1 .. 4 : r[k] = m[k] /\ r[k] = <<"entero", k, op>>
    BY <1>2, <1>4, <1>5, <2>1, SMTT(30)
  <2>3. \A k \in 1 .. INT : r[0 + k] = <<"entero", k, op>>
    BY <1>1, <2>2
  <2>4. 0 + INT <= Len(r)
    BY <1>1, <2>1
  <2> QED BY <1>3, <2>1, <2>3, <2>4, LeerEntero
<1>6. ASSUME x = 4, x + 4 <= y PROVE deserialize_int(r, 0) = b.size
  <2>1. Len(r) = 4 /\ 0 \in Nat
    BY <1>3, <1>6
  <2>2. \A k \in 1 .. 4 : r[k] = m[4 + k] /\ r[k] = <<"entero", k, b.size>>
    BY <1>2, <1>4, <1>6, <2>1
  <2>3. \A k \in 1 .. INT : r[0 + k] = <<"entero", k, b.size>>
    BY <1>1, <2>2
  <2>4. 0 + INT <= Len(r)
    BY <1>1, <2>1
  <2> QED BY <1>3, <2>1, <2>3, <2>4, LeerEntero
<1>7. ASSUME x \in 1 .. 3 PROVE deserialize_int(r, 0) = BASURA
  <2>1. r[1] = m[x + 1] /\ x + 1 \in 1 .. 4 /\ x + 1 # 1
    BY <1>1, <1>2, <1>3, <1>7
  <2>2. r[1] = <<"entero", x + 1, op>>
    BY <1>4, <2>1
  <2>3. x + 1 \in Int
    BY <1>1
  <2> QED BY <1>3, <2>1, <2>2, <2>3, NoSeLee
<1>8. ASSUME ~(x + 4 <= y) PROVE deserialize_int(r, 0) = BASURA
  <2>1. Len(r) < INT
    BY <1>1, <1>2, <1>8
  <2> QED BY <1>3, <2>1, NoSeLee
<1> QED BY <1>3, <1>5, <1>6, <1>7, <1>8 DEF r

-----------------------------------------------------------------------------
(* The program of a file *)

\* The places a line takes in the program.
Lugares(l) ==
  IF l.id = "" THEN 0
  ELSE IF l.id = "NO_OP" /\ l.params[1] > 1 THEN l.params[1]
  ELSE 1

LEMMA FormaDeLinea ==
  ASSUME NEW l \in Lineas
  PROVE  LET a == add_instruction(l)
         IN  /\ a \in Seq(InstruccionesDe(Int)) /\ Len(a) = Lugares(l)
             /\ Lugares(l) \in Nat
             /\ \A j \in 1 .. Lugares(l) :
                  /\ a[j].id = l.id
                  /\ a[j].parameters = SubSeq(l.params, 1, Aridad(l.id))
<1> DEFINE a == add_instruction(l)
           ar == Aridad(l.id)
           ps == SubSeq(l.params, 1, ar)
           i == parse_instruction(l)
           m == Lugares(l)
<1>1. l.id \in DOMAIN Largo \cup {""} /\ l.params \in Seq(Int) /\ Len(l.params) >= ar
  BY DEF Lineas
<1>2. ar \in 0 .. 2 /\ (l.id = "NO_OP" => ar = 1)
  BY DEF Aridad
<1> HIDE DEF ar
<1>a. ar \in 0 .. 127 /\ ar \in Nat
  BY <1>2
<1>3. i = [id |-> l.id, parameters |-> ps]
  BY DEF parse_instruction, ar
<1>4. CASE l.id = ""
  <2>1. a = <<>> /\ m = 0
    BY <1>4 DEF add_instruction, Lugares
  <2>2. <<>> \in Seq(InstruccionesDe(Int)) /\ Len(<<>>) = 0
    OBVIOUS
  <2> QED BY <2>1, <2>2
<1>5. CASE l.id # ""
  <2> DEFINE par == l.params
             N == Len(par)
  <2>1. par \in Seq(Int) /\ N \in Nat /\ ar <= N /\ ar \in Nat
    <3>1. par \in Seq(Int) /\ N >= ar
      BY <1>1
    <3>2. N \in Nat
      BY <3>1, LenProperties
    <3> HIDE DEF N, par
    <3> QED BY <1>a, <3>1, <3>2
  <2>2. /\ ps \in Seq(Int) /\ Len(ps) = ar
        /\ l.id = "NO_OP" => ps[1] = par[1] /\ par[1] \in Int
    <3> HIDE DEF par
    <3>1. /\ SubSeq(par, 1, ar) = [k \in 1 .. ar |-> par[k]]
          /\ \A k \in 1 .. ar : par[k] \in Int
      <4>1. par \in [1 .. N -> Int]
        BY <2>1, LenProperties
      <4>2. SubSeq(par, 1, ar) = [k \in 1 .. (1 + ar) - 1 |-> par[(k + 1) - 1]]
        BY <2>1
      <4>3. (1 + ar) - 1 = ar /\ \A k \in 1 .. ar : (k + 1) - 1 = k /\ k \in 1 .. N
        BY <2>1
      <4> QED BY <4>1, <4>2, <4>3
    <3> DEFINE q == SubSeq(par, 1, ar)
    <3>2. q \in [1 .. ar -> Int] /\ \A k \in 1 .. ar : q[k] = par[k]
      BY <3>1
    <3> HIDE DEF q
    <3>3. q \in Seq(Int) /\ Len(q) = ar
      BY <2>1, <3>2, FlujoDe
    <3>4. ASSUME l.id = "NO_OP" PROVE q[1] = par[1] /\ par[1] \in Int
      <4>1. 1 \in 1 .. ar
        BY <1>2, <3>4
      <4> QED BY <3>1, <3>2, <4>1
    <3> QED BY <3>3, <3>4 DEF q, par
  <2> HIDE DEF ps
  <2>3. i \in InstruccionesDe(Int)
    <3>1. Len(ps) \in 0 .. 127
      BY <1>a, <2>2, Zenon
    <3> HIDE DEF i
    <3>2. i.parameters = ps /\ i \in [id : DOMAIN Largo, parameters : Seq(Int)]
      BY <1>1, <1>3, <1>5, <2>2
    <3>3. Len(i.parameters) \in 0 .. 127
      BY <3>1, <3>2, Zenon
    <3> QED BY <3>2, <3>3, Zenon DEF InstruccionesDe
  <2>4. m \in Nat /\ a = [k \in 1 .. m |-> i]
    <3> DEFINE copias == IF l.id = "NO_OP" /\ i.parameters[1] > 1
                         THEN i.parameters[1] - 1 ELSE 0
    <3>1. a = [k \in 1 .. 1 + copias |-> i]
      BY <1>5 DEF add_instruction
    <3>2. i.parameters = ps
      BY <1>3
    <3>3. m = 1 + copias /\ m \in Nat
      <4>1. m = IF l.id = "NO_OP" /\ par[1] > 1 THEN par[1] ELSE 1
        BY <1>5 DEF Lugares
      <4>2. l.id = "NO_OP" => i.parameters[1] = par[1] /\ par[1] \in Int
        BY <2>2, <3>2
      <4> DEFINE x == i.parameters[1]
                 y == par[1]
                 no == l.id = "NO_OP"
      <4>3. /\ m = IF no /\ y > 1 THEN y ELSE 1
            /\ no => x = y /\ y \in Int
            /\ copias = IF no /\ x > 1 THEN x - 1 ELSE 0
        BY <4>1, <4>2
      <4> HIDE DEF m, copias, x, y, no
      <4> QED BY <4>3
    <3> QED BY <3>1, <3>3
  <2> HIDE DEF a, m, i
  <2>5. a \in [1 .. m -> InstruccionesDe(Int)] /\ \A j \in 1 .. m : a[j] = i
    BY <2>3, <2>4
  <2>6. a \in Seq(InstruccionesDe(Int)) /\ Len(a) = m
    BY <2>4, <2>5, FlujoDe
  <2>7. \A j \in 1 .. m : a[j].id = l.id /\ a[j].parameters = ps
    BY <1>3, <2>5
  <2> QED BY <2>4, <2>6, <2>7 DEF a, m, ps, ar
<1> QED BY <1>4, <1>5

\* The places of the first lines.
Hasta(f, lineas) ==
  [k \in 0 .. Len(lineas) |-> IF k = 0 THEN 0 ELSE f[k - 1] + Lugares(lineas[k])]

\* The program is that of its lines, in their places.
EsDelArchivo(p, lineas, h) ==
  /\ h = Hasta(h, lineas)
  /\ Len(p) = h[Len(lineas)]
  /\ \A k \in DOMAIN lineas : \A i \in h[k - 1] + 1 .. h[k] :
       /\ p[i].id = lineas[k].id
       /\ p[i].parameters = SubSeq(lineas[k].params, 1, Aridad(lineas[k].id))

LEMMA ParserDeLineas ==
  ASSUME NEW archivo \in [lineas : Seq(Lineas), process_size : Int]
  PROVE  LET programa == parse_pseudocode_file(archivo)
         IN  /\ programa \in ProgramasDe(Int)
             /\ \E h : EsDelArchivo(programa.instructions, archivo.lineas, h)
<1> DEFINE ls == archivo.lineas
           n == Len(ls)
           ss == [i \in DOMAIN ls |-> add_instruction(ls[i])]
           w == [k \in 1 .. n |-> Lugares(ls[k])]
           u == FlattenSeq(ss)
           I == InstruccionesDe(Int)
<1>1. parse_pseudocode_file(archivo)
        = [instructions |-> u, process_size |-> archivo.process_size]
      /\ archivo.process_size \in Int
  BY DEF parse_pseudocode_file
<1>2. n \in Nat /\ DOMAIN ls = 1 .. n /\ ls \in [1 .. n -> Lineas]
  <2>1. ls \in Seq(Lineas)
    OBVIOUS
  <2> QED BY <2>1, LenProperties
<1>3. ss = [k \in 1 .. n |-> add_instruction(ls[k])]
  BY <1>2
<1> HIDE DEF ls, n, I
<1>4. ASSUME NEW k \in 1 .. n
      PROVE  LET a == add_instruction(ls[k])
             IN  /\ a \in Seq(I) /\ Len(a) = Lugares(ls[k]) /\ Lugares(ls[k]) \in Nat
                 /\ \A j \in 1 .. Lugares(ls[k]) :
                      /\ a[j].id = ls[k].id
                      /\ a[j].parameters = SubSeq(ls[k].params, 1, Aridad(ls[k].id))
  <2>1. ls[k] \in Lineas
    BY <1>2
  <2> QED BY <2>1, FormaDeLinea DEF I
<1>5. w \in [1 .. n -> Nat] /\ \A k \in 1 .. n : w[k] = Lugares(ls[k])
  BY <1>4
<1>6. ss \in [1 .. n -> Seq(I)] /\ \A k \in 1 .. n : ss[k] = add_instruction(ls[k])
  BY <1>3, <1>4
<1> HIDE DEF ss, w
<1>7. ss \in Seq(Seq(I)) /\ Len(ss) = n
  BY <1>2, <1>6, FlujoDe
<1>8. \A k \in 1 .. n : w[k] = Len(ss[k])
  BY <1>4, <1>5, <1>6
<1>9. PICK h : EsSuma(h, n, w)
  BY <1>2, <1>5, SumaExiste
<1>10. u \in Seq(I) /\ EsConcatenacion(u, ss, h)
  BY <1>5, <1>7, <1>8, <1>9, ConcatenacionEs
<1> HIDE DEF u
<1>11. parse_pseudocode_file(archivo) \in ProgramasDe(Int)
  BY <1>1, <1>10 DEF ProgramasDe, I
<1>12. h = Hasta(h, ls)
  <2>1. h \in [0 .. n -> Nat] /\ h[0] = 0 /\ \A k \in 1 .. n : h[k] = h[k - 1] + Lugares(ls[k])
    BY <1>5, <1>9 DEF EsSuma
  <2>2. \A k \in 0 .. n : h[k] = IF k = 0 THEN 0 ELSE h[k - 1] + Lugares(ls[k])
    <3> SUFFICES ASSUME NEW k \in 0 .. n, k # 0 PROVE h[k] = h[k - 1] + Lugares(ls[k])
      BY <2>1
    <3>1. k \in 1 .. n
      BY <1>2
    <3> QED BY <2>1, <3>1
  <2>3. h = [k \in 0 .. n |-> h[k]]
    BY <2>1
  <2>4. h = [k \in 0 .. n |-> IF k = 0 THEN 0 ELSE h[k - 1] + Lugares(ls[k])]
    BY <2>2, <2>3
  <2> QED BY <2>4 DEF Hasta, n
<1>13. Len(u) = h[n]
  BY <1>7, <1>10 DEF EsConcatenacion
<1>14. ASSUME NEW k \in 1 .. n, NEW i \in h[k - 1] + 1 .. h[k]
       PROVE  /\ u[i].id = ls[k].id
              /\ u[i].parameters = SubSeq(ls[k].params, 1, Aridad(ls[k].id))
  <2>1. h[k - 1] \in Nat /\ h[k] \in Nat /\ h[k] = h[k - 1] + w[k] /\ w[k] \in Nat
    <3>1. k - 1 \in 0 .. n /\ k \in 0 .. n
      BY <1>2
    <3> QED BY <1>5, <1>9, <3>1 DEF EsSuma
  <2> DEFINE j == i - h[k - 1]
  <2>2. j \in 1 .. w[k] /\ h[k - 1] + j = i
    BY <2>1
  <2> HIDE DEF j
  <2>3. k \in 1 .. Len(ss) /\ j \in 1 .. Len(ss[k])
    BY <1>7, <1>8, <2>2
  <2>4. u[h[k - 1] + j] = ss[k][j]
    BY <1>10, <2>3 DEF EsConcatenacion
  <2>5. u[i] = add_instruction(ls[k])[j] /\ j \in 1 .. Lugares(ls[k])
    BY <1>5, <1>6, <2>2, <2>4
  <2> QED BY <1>4, <2>5
<1>15. EsDelArchivo(u, ls, h)
  BY <1>2, <1>12, <1>13, <1>14 DEF EsDelArchivo, n
<1> QED BY <1>1, <1>11, <1>15 DEF ls

\* Two counts of the places of the same lines are one.
LEMMA HastaUna ==
  ASSUME NEW lineas, Len(lineas) \in Nat, NEW f, f = Hasta(f, lineas),
         NEW g, g = Hasta(g, lineas)
  PROVE  \A k \in 0 .. Len(lineas) : f[k] = g[k]
<1> DEFINE n == Len(lineas)
           S == {k \in 0 .. n : f[k] = g[k]}
<1>1. 0 \in S
  <2>1. f[0] = 0 /\ g[0] = 0 /\ 0 \in 0 .. n
    BY DEF Hasta
  <2> QED BY <2>1
<1>2. ASSUME NEW k \in 0 .. n - 1, k \in S PROVE k + 1 \in S
  <2>1. k + 1 \in 0 .. n /\ k + 1 # 0 /\ (k + 1) - 1 = k
    OBVIOUS
  <2>2. f[k + 1] = f[k] + Lugares(lineas[k + 1]) /\ g[k + 1] = g[k] + Lugares(lineas[k + 1])
    BY <2>1 DEF Hasta
  <2> QED BY <1>2, <2>1, <2>2
<1> HIDE DEF S
<1>3. n \in Nat
  OBVIOUS
<1> HIDE DEF n
<1>4. \A k \in 0 .. n : k \in S
  BY <1>1, <1>2, <1>3, HastaN
<1> QED BY <1>4 DEF S, n

-----------------------------------------------------------------------------
(* The requests and the answers *)

OpsMemoria == OpsProceso \cup OpsCpuMemoria

\* A request as it may be made.
Pedible(c) ==
  c.op \in OpsMemoria \cup OpsCpu \cup {"INSTRUCTIONS"} /\ c.dato \in DatosDe(c.op)

LEMMA TodasPedibles ==
  /\ \A c \in Conversaciones : Pedible(c)
  /\ Valores \subseteq Int
  BY ConstantesCanal DEF Pedible, OpsMemoria

\* A buffer that declares what it has.
Bueno(b) == BufferExacto(b) /\ b.size \in Nat /\ \E S : b.stream \in Seq(S)

LEMMA BuenoDeEnteros ==
  ASSUME NEW a, NEW b, NEW c
  PROVE  /\ Bueno([size |-> INT, stream |-> serialize_int(a)])
         /\ Bueno([size |-> 2 * INT, stream |-> Enteros(<<a, b>>)])
         /\ Bueno([size |-> 3 * INT, stream |-> Enteros(<<a, b, c>>)])
<1>1. <<a>> \in Seq({a}) /\ <<a, b>> \in Seq({a, b}) /\ <<a, b, c>> \in Seq({a, b, c})
  OBVIOUS
<1>2. /\ \E S : serialize_int(a) \in Seq(S)
      /\ \E S : Enteros(<<a, b>>) \in Seq(S)
      /\ \E S : Enteros(<<a, b, c>>) \in Seq(S)
  BY <1>1, FormaDeEnteros DEF serialize_int
<1>3. /\ Len(serialize_int(a)) = INT /\ Len(Enteros(<<a, b>>)) = 2 * INT
      /\ Len(Enteros(<<a, b, c>>)) = 3 * INT
  BY LargoDeEnteros
<1>4. INT \in Nat /\ 2 * INT \in Nat /\ 3 * INT \in Nat
  BY DEF INT
<1> HIDE DEF serialize_int
<1> QED BY <1>2, <1>3, <1>4 DEF Bueno, BufferExacto

\* A PCB, alone and in an I/O, for kernel and CPU.
LEMMA BuenoDePcb ==
  ASSUME NEW V, NEW pcb, EsPcb(pcb, V), NEW n, NEW op \in OpsPcb
  PROVE  LET io == [tiempoBloqueo |-> n, tiempoEspera |-> BASURA, pcb |-> pcb]
             IO == "PCB_EJECUTADO_IO_CPU_KERNEL"
         IN  /\ Bueno(armarPaqueteConCpu(pcb, op).buffer)
             /\ Bueno(armarPaqueteConKernel(pcb, op).buffer)
             /\ Bueno(armarPaqueteConCpu(io, IO).buffer)
             /\ armarPaqueteConCpu(pcb, op).buffer.stream = pcb_serializar_estruc(pcb)
             /\ armarPaqueteConKernel(pcb, op).buffer.stream = pcb_serializar_estruc(pcb)
             /\ armarPaqueteConCpu(io, IO).buffer.stream = serializarIO(io)
<1> DEFINE io == [tiempoBloqueo |-> n, tiempoEspera |-> BASURA, pcb |-> pcb]
           IO == "PCB_EJECUTADO_IO_CPU_KERNEL"
           s == pcb_serializar_estruc(pcb)
           e == Enteros(<<n, BASURA>>)
           b == [size |-> bytes_PCB(pcb), stream |-> s]
<1>1. bytes_PCB(pcb) = Len(s) /\ bytes_PCB(pcb) \in Nat /\ \E S : s \in Seq(S)
  BY BytesDePcb
<1>2. armarPaqueteConCpu(pcb, op).buffer = b
  BY DEF armarPaqueteConCpu, new_package, tamanioEstructura, serializarEstructuraCpu,
         OpsPcb, OpsUint, OpsConsulta
<1>3. armarPaqueteConKernel(pcb, op).buffer = b
  BY DEF armarPaqueteConKernel, new_package, tamanioEstructura,
         serializarEstructuraKernel, serializarEstructuraCpu, OpsPcb, OpsUint, OpsConsulta
<1>4. armarPaqueteConCpu(io, IO).buffer
        = [size |-> (2 * INT) + bytes_PCB(pcb), stream |-> e \o s]
      /\ serializarIO(io) = e \o s
  BY DEF armarPaqueteConCpu, new_package, tamanioEstructura, serializarEstructuraCpu,
         serializarIO, OpsPcb, OpsUint, OpsConsulta
<1>5. Bueno([size |-> 2 * INT, stream |-> e])
  BY BuenoDeEnteros
<1> HIDE DEF s, e, io, IO
<1>6. Bueno(b)
  BY <1>1 DEF Bueno, BufferExacto
<1>7. Bueno([size |-> (2 * INT) + bytes_PCB(pcb), stream |-> e \o s])
  <2>1. PICK A : e \in Seq(A)
    BY <1>5 DEF Bueno
  <2>2. PICK B : s \in Seq(B)
    BY <1>1
  <2>3. Len(e) = 2 * INT /\ 2 * INT \in Nat
    BY <1>5 DEF Bueno, BufferExacto
  <2>4. e \o s \in Seq(A \cup B) /\ Len(e \o s) = Len(e) + Len(s)
    BY <2>1, <2>2, Tras
  <2> DEFINE u == e \o s
             x == 2 * INT
  <2>5. u \in Seq(A \cup B) /\ Len(u) = x + bytes_PCB(pcb) /\ x \in Nat
    BY <1>1, <2>3, <2>4
  <2> HIDE DEF u, x
  <2>6. x + bytes_PCB(pcb) \in Nat
    BY <1>1, <2>5
  <2>7. Bueno([size |-> x + bytes_PCB(pcb), stream |-> u])
    BY <2>5, <2>6 DEF Bueno, BufferExacto
  <2> QED BY <2>7 DEF u, x
<1>8. /\ Bueno(armarPaqueteConCpu(pcb, op).buffer)
      /\ Bueno(armarPaqueteConKernel(pcb, op).buffer)
      /\ armarPaqueteConCpu(pcb, op).buffer.stream = s
      /\ armarPaqueteConKernel(pcb, op).buffer.stream = s
  BY <1>2, <1>3, <1>6
<1>9. Bueno(armarPaqueteConCpu(io, IO).buffer)
  BY <1>4, <1>7, Zenon
<1>10. armarPaqueteConCpu(io, IO).buffer.stream = serializarIO(io)
  BY <1>4
<1> QED BY <1>8, <1>9, <1>10 DEF s, io, IO

\* The structures of memory, each as a function of its own.
LEMMA IdaYVuelta ==
  /\ \A p \in [pid : Int, process_size : Int, first_level_table_number : Int] :
       deserialize_process(serialize_process(p)) = p
  /\ \A c \in [page_size : Int, pages_per_table : Int] :
       deserialize_memory_config(serialize_memory_config(c)) = c
  /\ \A r \in [table_number : Int, entry_number : Int, pid : Int] :
       deserialize_page_table_request(serialize_page_table_request(r)) = r
  /\ \A w \in [fisical_address : Int, data : Int, pid : Int] :
       deserialize_memory_write_request(serialize_memory_write_request(w)) = w
<1>1. /\ [pid |-> 0, process_size |-> 0, first_level_table_number |-> 0]
           \in [pid : Int, process_size : Int, first_level_table_number : Int]
      /\ [page_size |-> 0, pages_per_table |-> 0] \in [page_size : Int, pages_per_table : Int]
      /\ [table_number |-> 0, entry_number |-> 0, pid |-> 0]
           \in [table_number : Int, entry_number : Int, pid : Int]
      /\ [fisical_address |-> 0, data |-> 0, pid |-> 0]
           \in [fisical_address : Int, data : Int, pid : Int]
  OBVIOUS
<1> QED BY <1>1, EstructurasDeMemoriaIntactas

\* A request is written in a buffer that declares what it has, and is read
\* back, the program of a console with its size.
LEMMA PedidoBueno ==
  ASSUME NEW c, Pedible(c)
  PROVE  LET b == PaquetePedido(c).buffer
         IN  Bueno(b) /\ leerPedido(c.op, b.stream, b.size) = PedidoDe(c)
<1> USE DEF OpsMemoria, OpsProceso, OpsMarco, OpsTabla, OpsCpuMemoria, OpsCpu
<1> DEFINE op == c.op
           dato == c.dato
<1>1. CASE op \in OpsProceso
  <2>1. /\ PaquetePedido(c) = new_package(new_crear_proceso_buffer(dato), op)
        /\ PedidoDe(c) = dato
    BY <1>1 DEF PaquetePedido, PedidoDe
  <2>2. PaquetePedido(c).buffer = new_crear_proceso_buffer(dato)
    BY <2>1 DEF new_package
  <2>3. Bueno(new_crear_proceso_buffer(dato))
    BY BuenoDeEnteros DEF new_crear_proceso_buffer, serialize_process
  <2>4. dato \in [pid : Int, process_size : Int, first_level_table_number : Int]
    BY <1>1 DEF Pedible, DatosDe
  <2>5. deserialize_process(new_crear_proceso_buffer(dato).stream) = dato
    BY <2>4, IdaYVuelta DEF new_crear_proceso_buffer
  <2>6. \A s, t : leerPedido(op, s, t) = deserialize_process(s)
    BY <1>1 DEF leerPedido
  <2> QED BY <2>1, <2>2, <2>3, <2>5, <2>6
<1>2. CASE op \in OpsTabla
  <2>1. /\ PaquetePedido(c) = new_package(new_page_table_request_buffer(dato), op)
        /\ PedidoDe(c) = dato
    BY <1>2 DEF PaquetePedido, PedidoDe
  <2>2. PaquetePedido(c).buffer = new_page_table_request_buffer(dato)
    BY <2>1 DEF new_package
  <2>3. Bueno(new_page_table_request_buffer(dato))
    BY BuenoDeEnteros DEF new_page_table_request_buffer, serialize_page_table_request
  <2>4. dato \in [table_number : Int, entry_number : Int, pid : Int]
    BY <1>2 DEF Pedible, DatosDe
  <2>5. deserialize_page_table_request(new_page_table_request_buffer(dato).stream) = dato
    BY <2>4, IdaYVuelta DEF new_page_table_request_buffer
  <2>6. \A s, t : leerPedido(op, s, t) = deserialize_page_table_request(s)
    BY <1>2 DEF leerPedido
  <2> QED BY <2>1, <2>2, <2>3, <2>5, <2>6
<1>3. CASE op = "WRITE_MEMORY_REQUEST"
  <2>1. /\ PaquetePedido(c) = new_package(new_peticion_buffer(dato), op)
        /\ PedidoDe(c) = dato
    BY <1>3 DEF PaquetePedido, PedidoDe
  <2>2. PaquetePedido(c).buffer = new_peticion_buffer(dato)
    BY <2>1 DEF new_package
  <2>3. Bueno(new_peticion_buffer(dato))
    BY BuenoDeEnteros DEF new_peticion_buffer, serialize_memory_write_request
  <2>4. dato \in [fisical_address : Int, data : Int, pid : Int]
    BY <1>3 DEF Pedible, DatosDe
  <2>5. deserialize_memory_write_request(new_peticion_buffer(dato).stream) = dato
    BY <2>4, IdaYVuelta DEF new_peticion_buffer
  <2>6. \A s, t : leerPedido(op, s, t) = deserialize_memory_write_request(s)
    BY <1>3 DEF leerPedido
  <2> QED BY <2>1, <2>2, <2>3, <2>5, <2>6
<1>4. CASE op \in {"GET_MEMORY_CONFIG_REQUEST", "READ_MEMORY_REQUEST"}
  <2>1. PaquetePedido(c) = new_package(new_int_buffer(dato), op) /\ PedidoDe(c) = dato
    BY <1>4 DEF PaquetePedido, PedidoDe
  <2>2. PaquetePedido(c).buffer = new_int_buffer(dato)
    BY <2>1 DEF new_package
  <2>3. Bueno(new_int_buffer(dato))
    BY BuenoDeEnteros DEF new_int_buffer
  <2>4. deserialize_int(new_int_buffer(dato).stream, 0) = dato
    BY Leido1 DEF new_int_buffer
  <2>5. \A s, t : leerPedido(op, s, t) = deserialize_int(s, 0)
    BY <1>4 DEF leerPedido
  <2> QED BY <2>1, <2>2, <2>3, <2>4, <2>5
<1>5. CASE op = "REQ_INTERRUPCION_KERNEL_CPU"
  <2>1. PaquetePedido(c) = armarPaqueteConKernel(dato, op) /\ PedidoDe(c) = dato
    BY <1>5 DEF PaquetePedido, PedidoDe
  <2>2. armarPaqueteConKernel(dato, op).buffer = [size |-> INT, stream |-> serialize_int(dato)]
    BY <1>5 DEF armarPaqueteConKernel, new_package, tamanioEstructura,
         serializarEstructuraKernel, serializarEstructuraCpu, serializarUINT32_T,
         OpsPcb, OpsUint, OpsConsulta
  <2>3. Bueno([size |-> INT, stream |-> serialize_int(dato)])
    BY BuenoDeEnteros
  <2>4. deserialize_int(serialize_int(dato), 0) = dato
    BY Leido1
  <2>5. \A s, t : leerPedido(op, s, t) = deserialize_int(s, 0)
    BY <1>5 DEF leerPedido, deserializarUINT32_T
  <2> QED BY <2>1, <2>2, <2>3, <2>4, <2>5
<1>6. CASE op = "REQ_PCB_A_EJECUTAR_KERNEL_CPU"
  <2>1. PaquetePedido(c) = armarPaqueteConKernel(dato, op) /\ PedidoDe(c) = dato
    BY <1>6 DEF PaquetePedido, PedidoDe
  <2>2. EsPcb(dato, Int)
    <3>1. dato \in Pcbs
      BY <1>6 DEF Pedible, DatosDe
    <3> QED BY <3>1 DEF Pcbs, EsPcb
  <2>3. /\ Bueno(armarPaqueteConKernel(dato, op).buffer)
        /\ armarPaqueteConKernel(dato, op).buffer.stream = pcb_serializar_estruc(dato)
    <3>1. op \in OpsPcb
      BY <1>6 DEF OpsPcb
    <3> QED BY <2>2, <3>1, BuenoDePcb
  <2>4. pcb_deserializar_estrucs(pcb_serializar_estruc(dato), 0) = dato
    BY <2>2, PcbIntacto
  <2>5. \A s, t : leerPedido(op, s, t) = pcb_deserializar_estrucs(s, 0)
    BY <1>6 DEF leerPedido
  <2> QED BY <2>1, <2>3, <2>4, <2>5
<1>7. CASE op = "INSTRUCTIONS"
  <2> DEFINE programa == parse_pseudocode_file(dato)
             b == new_instruction_buffer(programa)
  <2>1. PaquetePedido(c) = new_package(b, op)
    BY <1>7 DEF PaquetePedido
  <2>2. PaquetePedido(c).buffer = b
    BY <2>1 DEF new_package
  <2>3. programa \in ProgramasDe(Int) /\ programa.process_size = dato.process_size
    <3>1. dato \in [lineas : Seq(Lineas), process_size : Int]
      BY <1>7 DEF Pedible, DatosDe
    <3> QED BY <3>1, ParserDeLineas DEF parse_pseudocode_file
  <2>4. PedidoDe(c) = [sizeInstrucciones |-> bytes_instructions_list(programa),
                       instrucciones |-> programa,
                       tamanioProceso |-> dato.process_size]
    BY <1>7 DEF PedidoDe
  <2>5. \A s, t : leerPedido(op, s, t) = recibir_paquete_proceso(s, t)
    BY <1>7 DEF leerPedido
  <2> HIDE DEF programa
  <2>6. /\ b.stream = serialize_instructions_list(programa)
        /\ b.size = bytes_instructions_list(programa)
    BY DEF new_instruction_buffer
  <2>7. Bueno(b)
    BY <2>3, <2>6, ProgramaExacto DEF Bueno
  <2>8. deserialize_instructions_list(b.stream, 0) = programa
    BY <2>3, <2>6, ProgramaIntacto
  <2> HIDE DEF b
  <2>9. recibir_paquete_proceso(b.stream, b.size) = PedidoDe(c)
    BY <2>3, <2>4, <2>6, <2>8, BasuraNoEsPrograma DEF recibir_paquete_proceso
  <2> QED BY <2>2, <2>5, <2>7, <2>9
<1> QED BY <1>1, <1>2, <1>3, <1>4, <1>5, <1>6, <1>7 DEF Pedible

\* What the CPU does with a PCB is one, with the program it had.
LEMMA PcbEjecutado ==
  ASSUME NEW V, NEW pcb, EsPcb(pcb, V), NEW p \in PcbsEjecutados(pcb)
  PROVE  EsPcb(p, V)
<1>1. PICK n : p = [pcb EXCEPT !.PC = pcb.PC + n, !.lengthUltimaRafaga = n]
  BY DEF PcbsEjecutados
<1>2. p = [id |-> pcb.id, tamanioProceso |-> pcb.tamanioProceso, PC |-> pcb.PC + n,
           tablaDePaginas |-> pcb.tablaDePaginas,
           estimacionRafaga |-> pcb.estimacionRafaga, lengthUltimaRafaga |-> n,
           sizeInstrucciones |-> pcb.sizeInstrucciones,
           instrucciones |-> pcb.instrucciones]
  BY <1>1 DEF EsPcb
<1> QED BY <1>2 DEF EsPcb

\* An answer too, of memory, of the kernel to a console or of the CPU, and it
\* is of an operation its client waits for.
LEMMA RespuestaBuena ==
  ASSUME NEW op \in (OpsMemoria \cup OpsCpu \cup {"INSTRUCTIONS"}) \ SinRespuesta,
         NEW leido,
         op = "REQ_PCB_A_EJECUTAR_KERNEL_CPU" => EsPcb(leido, Int \cup {BASURA}),
         NEW r \in responder(op, leido)
  PROVE  /\ r.op \in RespuestasDe(op)
         /\ Bueno(PaqueteRespuesta(r).buffer)
         /\ leerRespuesta(r.op, PaqueteRespuesta(r).buffer.stream) = r.dato
<1> USE DEF OpsMemoria, OpsProceso, OpsMarco, OpsTabla, OpsCpuMemoria, SinRespuesta
<1>0. op # "REQ_PCB_A_EJECUTAR_KERNEL_CPU" =>
        /\ OpRespuesta[op] \in RespuestasDe(op)
        /\ OpRespuesta[op] \in {"EXIT_CONSOLE",
             "PROCESS_INIT_RESPONSE", "PROCESS_SUSPEND_RESPONSE",
             "GET_MEMORY_CONFIG_RESPONSE", "GET_SECOND_LEVEL_TABLE_RESPONSE",
             "GET_FRAME_READ_RESPONSE", "GET_FRAME_WRITE_RESPONSE",
             "READ_MEMORY_RESPONSE", "WRITE_MEMORY_RESPONSE"}
        /\ (OpRespuesta[op] = "GET_MEMORY_CONFIG_RESPONSE"
              <=> op = "GET_MEMORY_CONFIG_REQUEST")
  BY DEF OpRespuesta, RespuestasDe, OpsCpu
<1>1. CASE op = "GET_MEMORY_CONFIG_REQUEST"
  <2>1. PICK n \in Valores, m \in Valores :
          r = Respuesta(OpRespuesta[op], [page_size |-> n, pages_per_table |-> m])
    BY <1>1 DEF responder
  <2>2. /\ r.op = OpRespuesta[op] /\ r.op = "GET_MEMORY_CONFIG_RESPONSE"
        /\ r.dato = [page_size |-> n, pages_per_table |-> m]
    BY <1>0, <1>1, <2>1 DEF Respuesta
  <2>3. r.dato \in [page_size : Int, pages_per_table : Int]
    BY <2>2, TodasPedibles
  <2>4. PaqueteRespuesta(r) = new_package(new_memory_config_buffer(r.dato), r.op)
    BY <2>2 DEF PaqueteRespuesta, OpsPcb
  <2>5. PaqueteRespuesta(r).buffer = new_memory_config_buffer(r.dato)
    BY <2>4 DEF new_package
  <2>6. Bueno(new_memory_config_buffer(r.dato))
    <3>1. new_memory_config_buffer(r.dato) = [size |-> 2 * INT, stream |-> Enteros(<<n, m>>)]
      BY <2>2 DEF new_memory_config_buffer, serialize_memory_config
    <3>2. Bueno([size |-> 2 * INT, stream |-> Enteros(<<n, m>>)])
      BY BuenoDeEnteros
    <3> QED BY <3>1, <3>2, Zenon
  <2>7. deserialize_memory_config(new_memory_config_buffer(r.dato).stream) = r.dato
    BY <2>3, IdaYVuelta DEF new_memory_config_buffer
  <2>8. \A s : leerRespuesta(r.op, s) = deserialize_memory_config(s)
    BY <2>2 DEF leerRespuesta, OpsPcb
  <2> QED BY <1>0, <1>1, <2>2, <2>5, <2>6, <2>7, <2>8
<1>2. CASE op \notin {"GET_MEMORY_CONFIG_REQUEST", "REQ_PCB_A_EJECUTAR_KERNEL_CPU"}
  <2>1. \E n : r = Respuesta(OpRespuesta[op], n)
    <3>1. CASE op \in {"PROCESS_SUSPEND_REQUEST", "WRITE_MEMORY_REQUEST"}
      BY <3>1 DEF responder
    <3>2. CASE op \notin {"PROCESS_SUSPEND_REQUEST", "WRITE_MEMORY_REQUEST"}
      <4>1. responder(op, leido) = {Respuesta(OpRespuesta[op], n) : n \in Valores}
        BY <1>2, <3>2 DEF responder
      <4> QED BY <4>1
    <3> QED BY <3>1, <3>2
  <2>2. /\ r.op = OpRespuesta[op] /\ r.op \in RespuestasDe(op)
        /\ r.op \notin OpsPcb \cup {"PCB_EJECUTADO_IO_CPU_KERNEL",
                                    "GET_MEMORY_CONFIG_RESPONSE"}
    BY <1>0, <1>2, <2>1 DEF Respuesta, OpsPcb
  <2>3. PaqueteRespuesta(r).buffer = [size |-> INT, stream |-> serialize_int(r.dato)]
    <3>1. CASE r.op = "EXIT_CONSOLE"
      <4>1. PaqueteRespuesta(r) = armarPaqueteConKernel(r.dato, r.op)
        BY <3>1 DEF PaqueteRespuesta, OpsPcb
      <4> QED BY <3>1, <4>1 DEF armarPaqueteConKernel, new_package, tamanioEstructura,
                 serializarEstructuraKernel, serializarEstructuraCpu, serializarUINT32_T,
                 OpsPcb, OpsUint, OpsConsulta
    <3>2. CASE r.op # "EXIT_CONSOLE"
      <4>1. PaqueteRespuesta(r) = new_package(new_int_buffer(r.dato), r.op)
        BY <2>2, <3>2 DEF PaqueteRespuesta
      <4> QED BY <4>1 DEF new_package, new_int_buffer
    <3> QED BY <3>1, <3>2
  <2>4. Bueno([size |-> INT, stream |-> serialize_int(r.dato)])
    BY BuenoDeEnteros
  <2>5. deserialize_int(serialize_int(r.dato), 0) = r.dato
    BY Leido1
  <2>6. \A s : leerRespuesta(r.op, s) = deserialize_int(s, 0)
    BY <2>2 DEF leerRespuesta
  <2> QED BY <2>2, <2>3, <2>4, <2>5, <2>6
<1>3. CASE op = "REQ_PCB_A_EJECUTAR_KERNEL_CPU"
  <2> DEFINE EXIT == "PCB_EJECUTADO_EXIT_CPU_KERNEL"
             INTERRUPCION == "PCB_EJECUTADO_INTERRUPCION_CPU_KERNEL"
             IO == "PCB_EJECUTADO_IO_CPU_KERNEL"
             Io(n, p) == [tiempoBloqueo |-> n, tiempoEspera |-> BASURA, pcb |-> p]
  <2>1. r \in cicloInstruccion(leido)
    BY <1>3 DEF responder
  <2>2. PICK p \in PcbsEjecutados(leido) :
          \/ r = Respuesta(EXIT, p) \/ r = Respuesta(INTERRUPCION, p)
          \/ \E n \in Valores : r = Respuesta(IO, Io(n, p))
    BY <2>1 DEF cicloInstruccion
  <2>3. EsPcb(p, Int \cup {BASURA})
    BY <1>3, <2>2, PcbEjecutado
  <2>4. RespuestasDe(op) = {IO, EXIT, INTERRUPCION}
    BY <1>3 DEF RespuestasDe
  <2>5. CASE r = Respuesta(EXIT, p) \/ r = Respuesta(INTERRUPCION, p)
    <3>1. r.op \in {EXIT, INTERRUPCION} /\ r.dato = p /\ r.op \in OpsPcb
      BY <2>5 DEF Respuesta, OpsPcb
    <3>2. PaqueteRespuesta(r) = armarPaqueteConCpu(p, r.op)
      BY <3>1 DEF PaqueteRespuesta
    <3>3. /\ Bueno(armarPaqueteConCpu(p, r.op).buffer)
          /\ armarPaqueteConCpu(p, r.op).buffer.stream = pcb_serializar_estruc(p)
      BY <2>3, <3>1, BuenoDePcb
    <3>4. pcb_deserializar_estrucs(pcb_serializar_estruc(p), 0) = p
      BY <2>3, PcbIntacto
    <3>5. \A s : leerRespuesta(r.op, s) = pcb_deserializar_estrucs(s, 0)
      BY <3>1 DEF leerRespuesta
    <3> QED BY <2>4, <3>1, <3>2, <3>3, <3>4, <3>5
  <2>6. ASSUME NEW n \in Valores, r = Respuesta(IO, Io(n, p))
        PROVE  /\ r.op \in RespuestasDe(op)
               /\ Bueno(PaqueteRespuesta(r).buffer)
               /\ leerRespuesta(r.op, PaqueteRespuesta(r).buffer.stream) = r.dato
    <3>1. r.op = IO /\ r.dato = Io(n, p)
      BY <2>6 DEF Respuesta
    <3>2. PaqueteRespuesta(r) = armarPaqueteConCpu(Io(n, p), IO)
      BY <3>1 DEF PaqueteRespuesta, OpsPcb
    <3>3. /\ Bueno(armarPaqueteConCpu(Io(n, p), IO).buffer)
          /\ armarPaqueteConCpu(Io(n, p), IO).buffer.stream = serializarIO(Io(n, p))
      <4>1. EXIT \in OpsPcb
        BY DEF OpsPcb
      <4> QED BY <2>3, <4>1, BuenoDePcb
    <3>4. deserializarIO(serializarIO(Io(n, p))) = Io(n, p)
      BY <2>3, PcbIntacto
    <3>5. \A s : leerRespuesta(r.op, s) = deserializarIO(s)
      BY <3>1 DEF leerRespuesta, OpsPcb
    <3> QED BY <2>4, <3>1, <3>2, <3>3, <3>4, <3>5
  <2> QED BY <2>2, <2>5, <2>6
<1> QED BY <1>1, <1>2, <1>3

-----------------------------------------------------------------------------
(* Conversations *)

Etapas ==
  {"conectar", "pedido", "atender", "respuesta", "seguir", "seguido", "exit",
   "inventado", "indefinido"}

\* Only who sent nothing, or could not, has nothing on the wire at its end.
Sobre ==
  /\ conv \in Conversaciones /\ etapa \in Etapas
  /\ Bueno(enviado.buffer)
  /\ etapa \in {"conectar", "exit"} => mensaje = <<>>

\* The last structure sent is that of its stage: the request of the
\* conversation, or an answer its client knows, whose stream reads back as it.
Enviado ==
  /\ etapa \in {"pedido", "atender"} =>
       /\ enviado.op = conv.op /\ enviado.dato = PedidoDe(conv)
       /\ enviado.buffer = PaquetePedido(conv).buffer
  /\ etapa \in {"respuesta", "seguir"} =>
       /\ conv.op \notin SinRespuesta
       /\ enviado.op \in RespuestasDe(conv.op)
       /\ leerRespuesta(enviado.op, enviado.buffer.stream) = enviado.dato

\* While it is read, all of it is on the wire.
Cableado ==
  /\ EnCable(mensaje, enviado.op, enviado.buffer)
  /\ \E T : mensaje \in Seq(T)
  /\ llegados \in 0 .. Len(mensaje) /\ leidos \in 0 .. llegados

\* How far the reader is.  After a short read of the operation it is out of
\* step.
Avance ==
  \/ lector.paso = "operacion" /\ leidos = 0
  \/ /\ lector.paso = "tamanio"
     /\ \/ leidos = 4 /\ lector.op = enviado.op
        \/ leidos \in 1 .. 3
  \/ /\ lector.paso = "datos" /\ leidos = 8
     /\ lector.op = enviado.op /\ lector.tam = enviado.buffer.size

\* What was read: the stream as far as it had come, or whole when no read was
\* short.
Leido ==
  /\ lector.op = enviado.op /\ lector.tam = enviado.buffer.size
  /\ \E c : Lleva(lector.datos, 0, enviado.buffer.stream, c)
  /\ ~corta => lector.datos = enviado.buffer.stream

Charla ==
  /\ Sobre /\ Enviado
  /\ Leyendo => Cableado /\ Avance
  /\ etapa \in {"atender", "seguir"} => Leido

\* A structure sent in a good buffer is on the wire, to be read from its start.
LEMMA AlEnviar ==
  ASSUME NEW op, NEW dato, NEW p, Bueno(p.buffer), enviar(op, dato, p)
  PROVE  /\ enviado'.op = op /\ enviado'.dato = dato /\ enviado'.buffer = p.buffer
         /\ Cableado' /\ Avance'
<1>1. /\ enviado'.op = op /\ enviado'.dato = dato /\ enviado'.buffer = p.buffer
      /\ mensaje' = serialize_package(new_package(p.buffer, op))
      /\ llegados' = 0 /\ leidos' = 0 /\ lector'.paso = "operacion"
  BY DEF enviar, LectorVacio, Lector
<1>2. PICK S : p.buffer.stream \in Seq(S)
  BY DEF Bueno
<1>3. /\ EnCable(serialize_package(new_package(p.buffer, op)), op, p.buffer)
      /\ \E T : serialize_package(new_package(p.buffer, op)) \in Seq(T)
  BY <1>2, PaqueteEnCable DEF Bueno
<1>4. EnCable(mensaje', op, p.buffer) /\ \E T : mensaje' \in Seq(T)
  BY <1>1, <1>3
<1>5. Len(mensaje') \in Nat
  BY <1>4, LenProperties
<1> QED BY <1>1, <1>4, <1>5 DEF Cableado, Avance

\* A read of four bytes of a message on the wire.
LEMMA AlLeerCuatro ==
  ASSUME Sobre, Cableado, leidos < llegados, leidos \in 0 .. 4
  PROVE  LET r == Recibidos(INT)
         IN  /\ Len(r) \in 1 .. 4 /\ leidos + Len(r) \in leidos .. llegados
             /\ leidos + 4 <= llegados => Len(r) = 4
             /\ \/ leidos = 0 /\ Len(r) = 4 /\ deserialize_int(r, 0) = enviado.op
                \/ /\ leidos = 4 /\ Len(r) = 4
                   /\ deserialize_int(r, 0) = enviado.buffer.size
                \/ (leidos # 0 \/ Len(r) \in 1 .. 3) /\ deserialize_int(r, 0) = BASURA
<1>1. PICK T : mensaje \in Seq(T)
  BY DEF Cableado
<1>2. /\ EnCable(mensaje, enviado.op, enviado.buffer) /\ enviado.buffer.size \in Nat
      /\ Len(mensaje) \in Nat /\ llegados \in Nat /\ leidos \in Nat
      /\ llegados <= Len(mensaje)
  BY <1>1, LenProperties DEF Cableado, Sobre, Bueno
<1> DEFINE r == Bocado(mensaje, leidos, llegados, INT)
<1>3. r = Recibidos(INT)
  BY DEF Bocado, Recibidos
<1>4. /\ Len(r) \in 1 .. 4
      /\ Len(r) = 4 <=> leidos + 4 <= llegados
      /\ leidos = 0 /\ leidos + 4 <= llegados => deserialize_int(r, 0) = enviado.op
      /\ leidos = 4 /\ leidos + 4 <= llegados =>
           deserialize_int(r, 0) = enviado.buffer.size
      /\ leidos \in 1 .. 3 \/ ~(leidos + 4 <= llegados) => deserialize_int(r, 0) = BASURA
  BY <1>1, <1>2, LeerCuatro
<1>5. Len(r) = IF leidos + 4 <= llegados THEN 4 ELSE llegados - leidos
  <2>1. INT \in Nat /\ leidos <= llegados /\ INT = 4
    BY <1>2 DEF INT
  <2>2. EsBocado(mensaje, leidos, llegados, INT)
    BY <1>1, <1>2, <2>1, BocadoEs
  <2> QED BY <2>1, <2>2 DEF EsBocado
<1> HIDE DEF r
<1>6. leidos + Len(r) \in leidos .. llegados
  BY <1>2, <1>4, <1>5
<1>7. CASE leidos + 4 <= llegados
  BY <1>2, <1>3, <1>4, <1>6, <1>7
<1>8. CASE ~(leidos + 4 <= llegados)
  BY <1>2, <1>3, <1>4, <1>6, <1>8
<1> QED BY <1>7, <1>8

\* A PCB that came cut short is one, unless its program cannot be read.
LEMMA PcbLeido ==
  ASSUME Sobre, Enviado, Leido, etapa = "atender",
         conv.op = "REQ_PCB_A_EJECUTAR_KERNEL_CPU"
  PROVE  Decodificado.instrucciones = BASURA \/ EsPcb(Decodificado, Int \cup {BASURA})
<1> DEFINE pcb == conv.dato
           st == enviado.buffer.stream
<1>1. EsPcb(pcb, Int)
  <2>1. pcb \in Pcbs
    BY TodasPedibles DEF Sobre, Pedible, DatosDe, OpsProceso, OpsMarco, OpsTabla
  <2> QED BY <2>1 DEF Pcbs, EsPcb
<1>2. st = pcb_serializar_estruc(pcb)
  <2>1. conv.op \in OpsPcb /\ PaquetePedido(conv) = armarPaqueteConKernel(pcb, conv.op)
    BY DEF PaquetePedido, OpsPcb, OpsCpu, OpsProceso, OpsMarco, OpsTabla
  <2>2. enviado.buffer = armarPaqueteConKernel(pcb, conv.op).buffer
    BY <2>1 DEF Enviado
  <2> QED BY <1>1, <2>1, <2>2, BuenoDePcb
<1>3. PICK c : Lleva(lector.datos, 0, st, c)
  BY DEF Leido
<1>4. Decodificado = pcb_deserializar_estrucs(lector.datos, 0)
  <2>1. lector.op = "REQ_PCB_A_EJECUTAR_KERNEL_CPU"
    BY DEF Leido, Enviado
  <2> QED BY <2>1 DEF Decodificado, leerPedido, OpsProceso, OpsMarco, OpsTabla
<1>5. Lleva(lector.datos, 0, pcb_serializar_estruc(pcb), c)
  BY <1>2, <1>3
<1> QED BY <1>1, <1>4, <1>5, PcbLlevado, ConstantesSerializacion

\* Each step of the conversation keeps its invariant: the request is sent,
LEMMA CharlaAlPedir ==
  ASSUME Charla, iniciar_cliente
  PROVE  Charla'
<1>1. Pedible(conv)
  BY TodasPedibles DEF Charla, Sobre
<1>2. Bueno(PaquetePedido(conv).buffer)
  BY <1>1, PedidoBueno
<1>3. /\ conv' = conv /\ etapa' = "pedido"
      /\ enviar(conv.op, PedidoDe(conv), PaquetePedido(conv))
  BY DEF iniciar_cliente
<1>4. /\ enviado'.op = conv.op /\ enviado'.dato = PedidoDe(conv)
      /\ enviado'.buffer = PaquetePedido(conv).buffer
      /\ Cableado' /\ Avance'
  BY <1>2, <1>3, AlEnviar
<1>5. Sobre'
  BY <1>2, <1>3, <1>4 DEF Charla, Sobre, Etapas
<1>6. Enviado'
  BY <1>2, <1>3, <1>4 DEF Enviado
<1> QED BY <1>3, <1>4, <1>5, <1>6 DEF Charla

LEMMA CharlaAlAtender ==
  ASSUME Charla, atender
  PROVE  Charla'
<1>1. Pedible(conv) /\ conv.op \in OpsMemoria \cup OpsCpu \cup {"INSTRUCTIONS"}
  BY TodasPedibles DEF Charla, Sobre, Pedible
<1>2. /\ etapa = "atender" /\ conv' = conv /\ lector.op = conv.op
      /\ ~Ilegible(lector.op, Decodificado)
  BY DEF atender, Charla, Leido, Enviado
<1>a. conv.op = "REQ_PCB_A_EJECUTAR_KERNEL_CPU" =>
        EsPcb(Decodificado, Int \cup {BASURA})
  BY <1>2, PcbLeido DEF Charla, Ilegible
<1>3. CASE conv.op \in SinRespuesta
  <2>1. etapa' = "seguido" /\ enviado' = enviado /\ mensaje' = mensaje
    BY <1>3 DEF atender
  <2> QED BY <1>2, <2>1 DEF Charla, Sobre, Enviado, Leyendo, Etapas
<1>4. CASE conv.op \notin SinRespuesta
  <2>1. PICK r \in responder(conv.op, Decodificado) :
          etapa' = "respuesta" /\ enviar(r.op, r.dato, PaqueteRespuesta(r))
    BY <1>2, <1>4 DEF atender
  <2>2. conv.op \in (OpsMemoria \cup OpsCpu \cup {"INSTRUCTIONS"}) \ SinRespuesta
    BY <1>1, <1>4
  <2>3. /\ r.op \in RespuestasDe(conv.op)
        /\ Bueno(PaqueteRespuesta(r).buffer)
        /\ leerRespuesta(r.op, PaqueteRespuesta(r).buffer.stream) = r.dato
    BY <1>a, <2>2, RespuestaBuena
  <2>4. /\ enviado'.op = r.op /\ enviado'.dato = r.dato
        /\ enviado'.buffer = PaqueteRespuesta(r).buffer
        /\ Cableado' /\ Avance'
    BY <2>1, <2>3, AlEnviar
  <2>5. Sobre'
    BY <1>2, <2>1, <2>3, <2>4 DEF Charla, Sobre, Etapas
  <2>6. Enviado'
    BY <1>2, <1>4, <2>1, <2>3, <2>4 DEF Enviado
  <2> QED BY <2>1, <2>4, <2>5, <2>6 DEF Charla
<1> QED BY <1>3, <1>4

\* The readers that do not wait for the whole operation may take one cut short,
\* and go on to read its size out of step.
LEMMA CharlaAlLeerOperacion ==
  ASSUME Charla, recibir_operacion
  PROVE  Charla'
<1> DEFINE r == Recibidos(INT)
           op == deserialize_int(r, 0)
<1>1. Sobre /\ Enviado
  BY DEF Charla
<1>2. /\ Leyendo /\ lector.paso = "operacion"
      /\ llegados - leidos >= IF EsperaTodo THEN INT ELSE 1
      /\ leidos' = leidos + Len(r)
      /\ lector' = Lector("tamanio", op, BASURA, <<>>)
      /\ etapa' = EtapaTrasOperacion(op)
      /\ UNCHANGED <<conv, enviado, mensaje, llegados>>
  BY DEF recibir_operacion, recv
<1>3. Cableado /\ leidos = 0 /\ llegados \in Nat
  <2>1. Cableado /\ Avance
    BY <1>2 DEF Charla
  <2>2. PICK T : mensaje \in Seq(T)
    BY <2>1 DEF Cableado
  <2>3. Len(mensaje) \in Nat
    BY <2>2, LenProperties
  <2> QED BY <1>2, <2>1, <2>3 DEF Avance, Cableado
<1>4. leidos < llegados /\ (EsperaTodo => leidos + 4 <= llegados) /\ leidos \in 0 .. 4
  BY <1>2, <1>3 DEF INT
<1>5. /\ Len(r) \in 1 .. 4 /\ leidos + Len(r) \in leidos .. llegados
      /\ leidos + 4 <= llegados => Len(r) = 4
      /\ \/ Len(r) = 4 /\ op = enviado.op
         \/ Len(r) \in 1 .. 3
  BY <1>1, <1>3, <1>4, AlLeerCuatro
<1> HIDE DEF r, op
<1>6. lector'.paso = "tamanio" /\ lector'.op = op /\ leidos' = Len(r)
  BY <1>2, <1>3, <1>5 DEF Lector
<1>7. leidos' \in 0 .. llegados
  BY <1>3, <1>5, <1>6
<1>8. Avance'
  BY <1>2, <1>5, <1>6 DEF Avance
<1>9. Cableado'
  BY <1>2, <1>3, <1>7 DEF Cableado
<1>10. CASE etapa = "pedido"
  <2>1. etapa' = "pedido"
    BY <1>2, <1>10 DEF EtapaTrasOperacion
  <2> QED BY <1>1, <1>2, <1>8, <1>9, <1>10, <2>1
        DEF Charla, Sobre, Enviado, Etapas
<1>11. CASE etapa = "respuesta" /\ conv.op \notin OpsMemoria
  <2>1. etapa' = "respuesta"
    BY <1>2, <1>11 DEF EtapaTrasOperacion, OpsMemoria
  <2> QED BY <1>1, <1>2, <1>8, <1>9, <1>11, <2>1
        DEF Charla, Sobre, Enviado, Etapas, Leyendo
<1>12. CASE etapa = "respuesta" /\ conv.op \in OpsMemoria
  <2>1. EsperaTodo
    BY <1>12 DEF EsperaTodo, OpsMemoria
  <2>2. op = enviado.op
    <3>1. leidos + 4 <= llegados
      BY <1>4, <2>1
    <3>2. Len(r) = 4
      BY <1>5, <3>1
    <3> QED BY <1>5, <3>2
  <2>3. op \in RespuestasDe(conv.op)
    BY <1>1, <1>12, <2>2 DEF Enviado
  <2>4. etapa' \in {"respuesta", "seguido"}
    BY <1>2, <1>12, <2>3 DEF EtapaTrasOperacion
  <2> QED BY <1>1, <1>2, <1>8, <1>9, <1>12, <2>4
        DEF Charla, Sobre, Enviado, Etapas, Leyendo
<1> QED BY <1>2, <1>10, <1>11, <1>12 DEF Leyendo

LEMMA CharlaAlLeerTamanio ==
  ASSUME Charla, recibir_buffer_Tamanio
  PROVE  Charla'
<1> DEFINE r == Recibidos(INT)
           tam == deserialize_int(r, 0)
<1>1. Sobre /\ Enviado
  BY DEF Charla
<1>2. /\ Leyendo /\ lector.paso = "tamanio"
      /\ llegados - leidos >= 1
      /\ leidos' = leidos + Len(r)
      /\ lector' = Lector("datos", lector.op, tam, <<>>)
      /\ etapa' = IF tam = BASURA THEN "indefinido" ELSE etapa
      /\ UNCHANGED <<conv, enviado, mensaje, llegados>>
  BY DEF recibir_buffer_Tamanio, recv
<1>3. CASE tam = BASURA
  <2>1. etapa' = "indefinido"
    BY <1>2, <1>3
  <2> QED BY <1>1, <1>2, <2>1 DEF Charla, Sobre, Enviado, Etapas, Leyendo
<1>4. CASE tam # BASURA
  <2>1. etapa' = etapa /\ Cableado /\ Avance
    BY <1>2, <1>4 DEF Charla
  <2>2. PICK T : mensaje \in Seq(T)
    BY <2>1 DEF Cableado
  <2>3. Len(mensaje) \in Nat
    BY <2>2, LenProperties
  <2>4. llegados \in Nat /\ leidos \in 1 .. 4 /\ (leidos = 4 => lector.op = enviado.op)
    BY <1>2, <2>1, <2>3 DEF Avance, Cableado
  <2>5. leidos < llegados /\ leidos \in 0 .. 4
    BY <1>2, <2>4
  <2>6. /\ leidos + Len(r) \in leidos .. llegados
        /\ leidos = 4 /\ Len(r) = 4 /\ tam = enviado.buffer.size
    BY <1>1, <1>4, <2>1, <2>4, <2>5, AlLeerCuatro
  <2> HIDE DEF r, tam
  <2>7. /\ lector'.paso = "datos" /\ lector'.op = enviado.op
        /\ lector'.tam = enviado.buffer.size /\ leidos' = 8
    BY <1>2, <2>4, <2>6 DEF Lector
  <2>8. leidos' \in 0 .. llegados
    BY <2>4, <2>6, <2>7
  <2>9. Avance'
    BY <1>2, <2>7 DEF Avance
  <2>10. Cableado'
    BY <1>2, <2>1, <2>8 DEF Cableado
  <2> QED BY <1>1, <1>2, <2>1, <2>9, <2>10 DEF Charla, Sobre, Enviado, Leyendo
<1> QED BY <1>3, <1>4

\* What is read of the stream is as much as has come of it; when it is read
\* whole, the stream.
LEMMA CharlaAlLeerDatos ==
  ASSUME Charla, recibir_buffer_Datos
  PROVE  Charla'
<1> DEFINE tam == enviado.buffer.size
           st == enviado.buffer.stream
           datos == [k \in 1 .. lector.tam |->
                       IF leidos + k <= llegados THEN mensaje[leidos + k]
                                                 ELSE ByteSinEscribir]
<1>1. Sobre /\ Enviado
  BY DEF Charla
<1>2. /\ Leyendo /\ lector.paso = "datos"
      /\ corta' = (corta \/ Len(Recibidos(lector.tam)) < lector.tam)
      /\ lector' = Lector("listo", lector.op, lector.tam, datos)
      /\ etapa' = IF etapa = "pedido" THEN "atender" ELSE "seguir"
      /\ UNCHANGED <<conv, enviado, mensaje, llegados>>
  BY DEF recibir_buffer_Datos, recv
<1>3. /\ Cableado /\ leidos = 8 /\ lector.op = enviado.op /\ lector.tam = tam
  BY <1>2 DEF Charla, Avance
<1>4. PICK T : mensaje \in Seq(T)
  BY <1>3 DEF Cableado
<1>5. /\ Len(mensaje) \in Nat /\ llegados \in Nat /\ tam \in Nat
      /\ leidos <= llegados /\ llegados <= Len(mensaje)
      /\ \A k \in 1 .. tam : mensaje[8 + k] = st[k]
  <2>1. Len(mensaje) \in Nat
    BY <1>4, LenProperties
  <2>2. tam \in Nat /\ llegados \in 0 .. Len(mensaje) /\ leidos \in 0 .. llegados
    BY <1>1, <1>3 DEF Sobre, Bueno, Cableado
  <2>3. \A k \in 1 .. tam : mensaje[2 * INT + k] = st[k]
    BY <1>3 DEF Cableado, EnCable
  <2>4. 2 * INT = 8
    BY DEF INT
  <2> QED BY <2>1, <2>2, <2>3, <2>4
<1>6. PICK S : st \in Seq(S)
  BY <1>1 DEF Sobre, Bueno
<1>7. Len(st) = tam /\ st = [k \in 1 .. tam |-> st[k]]
  <2>1. Len(st) = tam
    BY <1>1 DEF Sobre, Bueno, BufferExacto
  <2>2. st = [k \in 1 .. Len(st) |-> st[k]]
    BY <1>6, LenProperties
  <2> QED BY <2>1, <2>2
<1>8. ASSUME 8 + tam <= llegados PROVE datos = st
  <2>1. \A k \in 1 .. tam : leidos + k <= llegados /\ mensaje[leidos + k] = st[k]
    BY <1>3, <1>5, <1>8
  <2>2. datos = [k \in 1 .. tam |-> st[k]]
    BY <1>3, <2>1
  <2> QED BY <1>7, <2>2
<1>9. ASSUME ~(8 + tam <= llegados) PROVE Len(Recibidos(lector.tam)) < lector.tam
  <2>1. EsBocado(mensaje, leidos, llegados, tam)
    <3>1. leidos \in Nat
      BY <1>3
    <3> QED BY <1>4, <1>5, <3>1, BocadoEs
  <2>2. Len(Bocado(mensaje, leidos, llegados, tam)) = llegados - leidos
    BY <1>3, <1>9, <2>1 DEF EsBocado
  <2>3. Recibidos(lector.tam) = Bocado(mensaje, leidos, llegados, tam)
    BY <1>3 DEF Recibidos, Bocado
  <2>4. llegados - leidos < tam
    BY <1>3, <1>5, <1>9
  <2> QED BY <1>3, <2>2, <2>3, <2>4
<1>a. Lleva(datos, 0, st, llegados - 8)
  <2>1. datos = [k \in 1 .. tam |-> IF 8 + k <= llegados THEN mensaje[8 + k]
                                                       ELSE ByteSinEscribir]
    BY <1>3
  <2>2. Len(datos) = tam
    <3> DEFINE A == {datos[k] : k \in 1 .. tam}
    <3>1. datos \in [1 .. tam -> A]
      BY <2>1
    <3> HIDE DEF datos, tam, A
    <3> QED BY <1>5, <3>1, FlujoDe
  <2>3. \A k \in 1 .. tam : datos[k] = IF 8 + k <= llegados THEN st[k] ELSE ByteSinEscribir
    BY <1>5, <2>1
  <2> HIDE DEF datos, tam, st
  <2>4. llegados - 8 \in Nat
    BY <1>3, <1>5
  <2>5. \A k \in 1 .. tam :
          datos[0 + k] = IF 0 + k <= llegados - 8 THEN st[k] ELSE ByteSinEscribir
    <3> SUFFICES ASSUME NEW k \in 1 .. tam
                 PROVE  datos[0 + k]
                          = IF 0 + k <= llegados - 8 THEN st[k] ELSE ByteSinEscribir
      OBVIOUS
    <3>1. 0 + k = k /\ (0 + k <= llegados - 8 <=> 8 + k <= llegados)
      BY <1>5
    <3> QED BY <2>3, <3>1
  <2> QED BY <1>5, <1>7, <2>2, <2>4, <2>5 DEF Lleva
<1> HIDE DEF datos
<1>10. lector'.op = enviado.op /\ lector'.tam = tam /\ lector'.datos = datos
  BY <1>2, <1>3 DEF Lector
<1>11. ~corta' => datos = st
  <2> SUFFICES ASSUME ~corta' PROVE datos = st
    OBVIOUS
  <2>1. ~(Len(Recibidos(lector.tam)) < lector.tam)
    BY <1>2, Zenon
  <2>2. 8 + tam <= llegados
    BY <1>9, <2>1
  <2> QED BY <1>8, <2>2
<1>12. Leido'
  <2>1. \E c : Lleva(lector'.datos, 0, enviado'.buffer.stream, c)
    BY <1>2, <1>10, <1>a
  <2> QED BY <1>2, <1>10, <1>11, <2>1 DEF Leido
<1>13. CASE etapa = "pedido"
  <2>1. etapa' = "atender"
    BY <1>2, <1>13
  <2> QED BY <1>1, <1>2, <1>12, <1>13, <2>1
        DEF Charla, Sobre, Enviado, Leyendo, Etapas
<1>14. CASE etapa = "respuesta"
  <2>1. etapa' = "seguir"
    BY <1>2, <1>14
  <2> QED BY <1>1, <1>2, <1>12, <1>14, <2>1
        DEF Charla, Sobre, Enviado, Leyendo, Etapas
<1> QED BY <1>2, <1>13, <1>14 DEF Leyendo

\* A client that has the whole answer knows its operation.
LEMMA CharlaAlSeguir ==
  ASSUME Charla, seguir
  PROVE  Charla'
<1>1. Sobre /\ Enviado
  BY DEF Charla
<1>2. etapa = "seguir" /\ lector.op = enviado.op
  BY DEF seguir, Charla, Leido
<1>3. lector.op \in RespuestasDe(conv.op)
  BY <1>1, <1>2 DEF Enviado
<1>4. etapa' = "seguido" /\ UNCHANGED <<conv, enviado, mensaje>>
  BY <1>3 DEF seguir
<1> QED BY <1>1, <1>4 DEF Charla, Sobre, Enviado, Leyendo, Etapas

LEMMA CharlaAlLlegar ==
  ASSUME Charla, Llega
  PROVE  Charla'
<1>1. /\ Leyendo /\ llegados < Len(mensaje) /\ llegados' = llegados + 1
      /\ UNCHANGED <<conv, etapa, enviado, mensaje, leidos, lector, corta, atendido>>
  BY DEF Llega
<1>2. Cableado /\ Avance /\ Sobre /\ Enviado
  BY <1>1 DEF Charla
<1>3. PICK T : mensaje \in Seq(T)
  BY <1>2 DEF Cableado
<1>4. Len(mensaje) \in Nat
  BY <1>3, LenProperties
<1>5. llegados' \in 0 .. Len(mensaje) /\ leidos \in 0 .. llegados'
  BY <1>1, <1>2, <1>4 DEF Cableado
<1>6. Cableado'
  BY <1>1, <1>2, <1>5 DEF Cableado
<1>7. Avance'
  BY <1>1, <1>2 DEF Avance
<1> QED BY <1>1, <1>2, <1>6, <1>7 DEF Charla, Sobre, Enviado, Leyendo

\* Where a client ends if it could not connect.
LEMMA CharlaSinConexion ==
  ASSUME Charla, iniciar_cliente_Falla
  PROVE  Charla'
<1>1. SinConexion(conv.op) \in {"inventado", "seguido", "indefinido", "exit"}
  BY DondeQueda
<1>2. /\ etapa = "conectar" /\ etapa' = SinConexion(conv.op)
      /\ UNCHANGED <<conv, enviado, mensaje>>
  BY DEF iniciar_cliente_Falla
<1> QED BY <1>1, <1>2 DEF Charla, Sobre, Enviado, Leyendo, Etapas

\* Every conversation keeps to all of it.
LEMMA CharlaInvariante == Spec => []Charla
<1>1. Init => Charla
  <2> SUFFICES ASSUME Init PROVE Charla
    OBVIOUS
  <2>1. /\ conv \in Conversaciones /\ etapa = "conectar" /\ mensaje = <<>>
        /\ enviado.buffer = [size |-> 0, stream |-> <<>>]
    BY DEF Init
  <2>2. <<>> \in Seq({}) /\ Len(<<>>) = 0
    OBVIOUS
  <2>3. Bueno(enviado.buffer)
    BY <2>1, <2>2 DEF Bueno, BufferExacto
  <2> QED BY <2>1, <2>3 DEF Charla, Sobre, Enviado, Leyendo, Etapas
<1>2. Charla /\ [Next]_vars => Charla'
  <2> SUFFICES ASSUME Charla, [Next]_vars PROVE Charla'
    OBVIOUS
  <2>1. CASE iniciar_cliente
    BY <2>1, CharlaAlPedir
  <2>2. CASE iniciar_cliente_Falla
    BY <2>2, CharlaSinConexion
  <2>3. CASE Llega
    BY <2>3, CharlaAlLlegar
  <2>4. CASE recibir_operacion
    BY <2>4, CharlaAlLeerOperacion
  <2>5. CASE recibir_buffer_Tamanio
    BY <2>5, CharlaAlLeerTamanio
  <2>6. CASE recibir_buffer_Datos
    BY <2>6, CharlaAlLeerDatos
  <2>7. CASE atender
    BY <2>7, CharlaAlAtender
  <2>8. CASE atender_Ilegible
    BY <2>8 DEF atender_Ilegible, Charla, Sobre, Enviado, Leyendo, Etapas
  <2>9. CASE seguir
    BY <2>9, CharlaAlSeguir
  <2>10. CASE UNCHANGED vars
    BY <2>10 DEF vars, Charla, Sobre, Enviado, Leyendo, Cableado, Avance, Leido
  <2> QED BY <2>1, <2>2, <2>3, <2>4, <2>5, <2>6, <2>7, <2>8, <2>9, <2>10 DEF Next
<1> QED BY <1>1, <1>2, PTL DEF Spec

\* A request read whole is the one that was made.
LEMMA PedidoLeido ==
  ASSUME Charla, etapa = "atender", ~corta
  PROVE  lector.op = enviado.op /\ Decodificado = enviado.dato
<1>1. /\ lector.op = enviado.op /\ enviado.op = conv.op
      /\ lector.tam = enviado.buffer.size /\ lector.datos = enviado.buffer.stream
      /\ enviado.buffer = PaquetePedido(conv).buffer /\ enviado.dato = PedidoDe(conv)
  BY DEF Charla, Enviado, Leido
<1>2. Pedible(conv)
  BY TodasPedibles DEF Charla, Sobre
<1>3. leerPedido(conv.op, PaquetePedido(conv).buffer.stream, PaquetePedido(conv).buffer.size)
        = PedidoDe(conv)
  BY <1>2, PedidoBueno
<1> QED BY <1>1, <1>3 DEF Decodificado

\* Whatever the request, the file of a console, the PCB or the numbers in it,
\* and however its bytes come, the server serves the one that was made, if no
\* read was short.
THEOREM PedidosIntactos == Spec => []PedidoIntacto
<1>1. Charla => PedidoIntacto
  BY PedidoLeido DEF PedidoIntacto
<1> QED BY <1>1, CharlaInvariante, PTL

\* So does the client with its answer: the PCB that comes back from the CPU
\* is the one it gave, with the program it was sent.
THEOREM RespuestasIntactas == Spec => []RespuestaIntacta
<1>1. Charla => RespuestaIntacta
  BY DEF Charla, Enviado, Leido, RespuestaIntacta, Decodificado
<1> QED BY <1>1, CharlaInvariante, PTL

\* No package declares other than what it has, not even the PCB that the CPU
\* gives back after reading part of it.
THEOREM TamaniosExactos == Spec => []TamanioExacto
<1>1. Charla => TamanioExacto
  BY DEF Charla, Sobre, Bueno, TamanioExacto
<1> QED BY <1>1, CharlaInvariante, PTL

\* No client ends for the operation of an answer, in whatever pieces it comes:
\* only for want of a connection.
THEOREM OperacionesEnteras == Spec => []OperacionEntera
<1>1. Charla => OperacionEntera
  BY DEF Charla, Sobre, OperacionEntera
<1> QED BY <1>1, CharlaInvariante, PTL

\* The program the kernel keeps of a console is that of its file, of any
\* number of lines, with the copies of each NO_OP.
THEOREM ProgramasDelArchivo == Spec => []ProgramaDelArchivo
<1>1. Charla => ProgramaDelArchivo
  <2> SUFFICES ASSUME Charla, etapa = "atender", conv.op = "INSTRUCTIONS", ~corta
               PROVE  ProgramaDelArchivo
    BY DEF ProgramaDelArchivo
  <2> DEFINE programa == Decodificado.instrucciones.instructions
             ls == conv.dato.lineas
             hasta == CHOOSE f : f = Hasta(f, ls)
  <2>1. conv.dato \in [lineas : Seq(Lineas), process_size : Int]
    <3>1. Pedible(conv)
      BY TodasPedibles DEF Charla, Sobre
    <3> QED BY <3>1 DEF Pedible, DatosDe, OpsProceso, OpsMarco, OpsTabla
  <2>2. programa = parse_pseudocode_file(conv.dato).instructions
    <3>1. Decodificado = PedidoDe(conv)
      BY PedidoLeido DEF Charla, Enviado
    <3> QED BY <3>1 DEF PedidoDe
  <2>3. PICK h : EsDelArchivo(programa, ls, h)
    BY <2>1, <2>2, ParserDeLineas
  <2>4. Len(ls) \in Nat /\ DOMAIN ls = 1 .. Len(ls)
    <3>1. ls \in Seq(Lineas)
      BY <2>1
    <3> HIDE DEF ls
    <3> QED BY <3>1, LenProperties
  <2>5. hasta = Hasta(hasta, ls)
    <3>1. \E f : f = Hasta(f, ls)
      BY <2>3 DEF EsDelArchivo
    <3> QED BY <3>1
  <2> HIDE DEF hasta, programa, ls
  <2>6. \A k \in 0 .. Len(ls) : hasta[k] = h[k]
    BY <2>3, <2>4, <2>5, HastaUna DEF EsDelArchivo
  <2>7. /\ Len(programa) = hasta[Len(ls)]
        /\ \A k \in DOMAIN ls : \A i \in hasta[k - 1] + 1 .. hasta[k] :
             /\ programa[i].id = ls[k].id
             /\ programa[i].parameters = SubSeq(ls[k].params, 1, Aridad(ls[k].id))
    <3>1. /\ Len(ls) \in 0 .. Len(ls)
          /\ \A k \in DOMAIN ls : k - 1 \in 0 .. Len(ls) /\ k \in 0 .. Len(ls)
      BY <2>4
    <3>2. /\ hasta[Len(ls)] = h[Len(ls)]
          /\ \A k \in DOMAIN ls : hasta[k - 1] = h[k - 1] /\ hasta[k] = h[k]
      BY <2>6, <3>1
    <3> QED BY <2>3, <3>2 DEF EsDelArchivo
  <2> QED BY <2>7 DEF ProgramaDelArchivo, hasta, programa, ls, Hasta, Lugares
<1> QED BY <1>1, CharlaInvariante, PTL
=============================================================================
