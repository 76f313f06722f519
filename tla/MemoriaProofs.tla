--------------------------- MODULE MemoriaProofs ---------------------------
(***************************************************************************)
(* The theorems about Memoria, for any processes, pages, frames and either *)
(* replacement algorithm.                                                  *)
(***************************************************************************)
EXTENDS Memoria, ReemplazoProofs, FiniteSetTheorems

-----------------------------------------------------------------------------
(* The pages of a process, sorted by frame *)

\* f lists the k elements of T in the order R.
Ordenada(f, T, k, R) ==
  /\ f \in [1 .. k -> T]
  /\ \A i, j \in 1 .. k : i < j => <<f[i], f[j]>> \in R
  /\ \A x \in T : \E i \in 1 .. k : f[i] = x

\* A finite set is sorted by an order in which each of its subsets has a first
\* element.
LEMMA HayOrden ==
  ASSUME NEW S, IsFiniteSet(S), NEW R,
         \A T \in SUBSET S : T # {} =>
           \E m \in T : \A x \in T \ {m} : <<m, x>> \in R
  PROVE  \E f : Ordenada(f, S, Cardinality(S), R)
<1> DEFINE n == Cardinality(S)
           K == {k \in 0 .. n : \A T \in SUBSET S :
                   Cardinality(T) = k => \E f : Ordenada(f, T, k, R)}
<1>1. n \in Nat
  BY FS_CardinalityType
<1>2. 0 \in K
  <2>1. ASSUME NEW T \in SUBSET S, Cardinality(T) = 0
        PROVE  \E f : Ordenada(f, T, 0, R)
    <3>1. IsFiniteSet(T)
      BY FS_Subset
    <3>2. T = {}
      BY <2>1, <3>1, FS_EmptySet
    <3>3. Ordenada([i \in 1 .. 0 |-> i], T, 0, R)
      BY <3>2 DEF Ordenada
    <3> QED BY <3>3
  <2> QED BY <1>1, <2>1
<1>3. ASSUME NEW k \in 0 .. n - 1, k \in K
      PROVE  k + 1 \in K
  <2>1. ASSUME NEW T \in SUBSET S, Cardinality(T) = k + 1
        PROVE  \E f : Ordenada(f, T, k + 1, R)
    <3>1. IsFiniteSet(T)
      BY FS_Subset
    <3>2. T # {}
      BY <1>1, <2>1, <3>1, FS_EmptySet
    <3>3. PICK m \in T : \A x \in T \ {m} : <<m, x>> \in R
      BY <3>2
    <3>4. Cardinality(T \ {m}) = k
      <4>1. Cardinality(T \ {m}) = Cardinality(T) - 1
        BY <3>1, FS_RemoveElement
      <4>2. k \in Nat /\ Cardinality(T) = k + 1
        BY <1>1, <2>1
      <4> QED BY <4>1, <4>2
    <3>5. PICK g : Ordenada(g, T \ {m}, k, R)
      BY <1>3, <3>4
    <3>6. /\ g \in [1 .. k -> T \ {m}]
          /\ \A i, j \in 1 .. k : i < j => <<g[i], g[j]>> \in R
          /\ \A x \in T \ {m} : \E i \in 1 .. k : g[i] = x
      BY <3>5 DEF Ordenada
    <3> DEFINE f == [i \in 1 .. k + 1 |-> IF i = 1 THEN m ELSE g[i - 1]]
    <3>7. \A i \in 1 .. k + 1 : i = 1 \/ i - 1 \in 1 .. k
      BY <1>1
    <3>8. f \in [1 .. k + 1 -> T]
      <4>1. \A i \in 1 .. k : g[i] \in T
        BY <3>6
      <4>2. \A i \in 1 .. k + 1 : (IF i = 1 THEN m ELSE g[i - 1]) \in T
        BY <3>7, <4>1
      <4> QED BY <4>2
    <3>9. ASSUME NEW i \in 1 .. k + 1, NEW j \in 1 .. k + 1, i < j
          PROVE  <<f[i], f[j]>> \in R
      <4>1. j # 1 /\ j - 1 \in 1 .. k /\ f[j] = g[j - 1]
        BY <1>1, <3>9
      <4>2. CASE i = 1
        <5>1. f[i] = m /\ g[j - 1] \in T \ {m}
          BY <3>6, <4>1, <4>2
        <5> QED BY <3>3, <4>1, <5>1
      <4>3. CASE i # 1
        <5>1. i - 1 \in 1 .. k /\ f[i] = g[i - 1] /\ i - 1 < j - 1
          BY <1>1, <3>9, <4>3
        <5> QED BY <3>6, <4>1, <5>1
      <4> QED BY <4>2, <4>3
    <3>10. ASSUME NEW x \in T PROVE \E i \in 1 .. k + 1 : f[i] = x
      <4>1. CASE x = m
        <5>1. 1 \in 1 .. k + 1
          BY <1>1
        <5> QED BY <4>1, <5>1
      <4>2. CASE x # m
        <5>1. PICK i \in 1 .. k : g[i] = x
          BY <3>6, <4>2
        <5>2. i + 1 \in 1 .. k + 1 /\ i + 1 # 1 /\ i + 1 - 1 = i
          BY <1>1
        <5> QED BY <5>1, <5>2
      <4> QED BY <4>1, <4>2
    <3> HIDE DEF f
    <3> QED BY <3>8, <3>9, <3>10 DEF Ordenada
  <2>2. k + 1 \in 0 .. n
    BY <1>1
  <2> QED BY <2>1, <2>2
<1> HIDE DEF K
<1>4. n \in K
  BY <1>1, <1>2, <1>3, InduccionHasta
<1> QED BY <1>4 DEF K

\* The order of listaEntradas, as a set of pairs of pages.
PorFrame(S) == {gh \in S \X S : AntesPorFrame(gh[1], gh[2])}

\* Among pages of one process there is one with the lowest frame, and the
\* lowest number of those that have it.
LEMMA HayPrimeraPorFrame ==
  ASSUME TypeOK, NEW p \in Procesos, NEW S \in SUBSET PaginasDe(p),
         NEW T \in SUBSET S, T # {}
  PROVE  \E m \in T : \A x \in T \ {m} : <<m, x>> \in PorFrame(S)
<1>1. \A g \in T : /\ g \in Paginas /\ g[1] = p /\ g[2] \in Nat /\ g = <<p, g[2]>>
                   /\ pagina[g].frame \in Nat
  <2>1. ASSUME NEW g \in T
        PROVE  /\ g \in Paginas /\ g[1] = p /\ g[2] \in Nat /\ g = <<p, g[2]>>
               /\ pagina[g].frame \in Nat
    <3>1. g \in Paginas /\ g[1] = p
      BY DEF PaginasDe
    <3>2. PICK q \in Procesos : \E n \in 1 .. Tamanio[q] : g = <<q, n>>
      BY <3>1 DEF Paginas
    <3>3. PICK n \in 1 .. Tamanio[q] : g = <<q, n>>
      BY <3>2
    <3>4. n \in Nat
      BY <3>2, <3>3, ConstantesMemoria DEF Procesos
    <3>5. pagina[g].frame \in 0 .. CANTIDAD_FRAMES
      BY <3>1 DEF TypeOK
    <3> QED BY <3>1, <3>3, <3>4, <3>5, ConstantesMemoria
  <2> QED BY <2>1
<1> DEFINE F == {pagina[g].frame : g \in T}
<1>2. F \in SUBSET Nat /\ F # {}
  BY <1>1
<1> HIDE DEF F
<1>3. PICK f \in F : \A y \in F : f <= y
  BY <1>2, MenorNatural
<1> DEFINE N == {g[2] : g \in {h \in T : pagina[h].frame = f}}
<1>4. N \in SUBSET Nat /\ N # {}
  BY <1>1, <1>3 DEF F
<1> HIDE DEF N
<1>5. PICK n \in N : \A y \in N : n <= y
  BY <1>4, MenorNatural
<1>6. PICK m \in T : pagina[m].frame = f /\ m[2] = n
  BY <1>5 DEF N
<1>7. ASSUME NEW x \in T \ {m} PROVE <<m, x>> \in PorFrame(S)
  <2>1. pagina[x].frame \in F /\ f <= pagina[x].frame
    BY <1>3 DEF F
  <2>2. CASE pagina[x].frame # f
    <3>1. pagina[m].frame < pagina[x].frame
      BY <1>1, <1>6, <2>1, <2>2
    <3> QED BY <3>1 DEF PorFrame, AntesPorFrame
  <2>3. CASE pagina[x].frame = f
    <3>1. x[2] \in N
      BY <2>3 DEF N
    <3>2. n <= x[2]
      BY <1>5, <3>1
    <3>3. x[2] # n
      BY <1>1, <1>6
    <3>4. m[2] < x[2]
      BY <1>1, <1>6, <3>2, <3>3
    <3> QED BY <1>6, <2>3, <3>4 DEF PorFrame, AntesPorFrame
  <2> QED BY <2>2, <2>3
<1> QED BY <1>7

\* The pages of a process are finitely many.
LEMMA PaginasFinitas ==
  ASSUME NEW p \in Procesos, NEW S \in SUBSET PaginasDe(p)
  PROVE  IsFiniteSet(S) /\ Cardinality(S) \in Nat
<1>1. Tamanio[p] \in Nat
  BY ConstantesMemoria DEF Procesos
<1> DEFINE D == 1 .. Tamanio[p]
           f == [n \in D |-> <<p, n>>]
           I == {<<p, n>> : n \in D}
<1>2. IsFiniteSet(D)
  BY <1>1, FS_Interval
<1>3. f \in Surjection(D, I)
  BY DEF Surjection
<1>4. IsFiniteSet(I)
  BY <1>2, <1>3, FS_Surjection
<1>5. S \subseteq I
  BY DEF PaginasDe, Paginas
<1>6. IsFiniteSet(S)
  BY <1>4, <1>5, FS_Subset
<1> QED BY <1>6, FS_CardinalityType

\* listaEntradas has a place for each page of the process in memory, and no
\* other page.
LEMMA ListaEntradas ==
  ASSUME TypeOK, NEW p \in Procesos,
         NEW S, S = {g \in PaginasDe(p) : pagina[g].P}
  PROVE  /\ listaEntradas(p) \in [1 .. Cardinality(S) -> S]
         /\ Len(listaEntradas(p)) = Cardinality(S)
         /\ Cardinality(S) \in Nat
<1> DEFINE n == Cardinality(S)
           Sube(f) == \A i, j \in DOMAIN f : i < j => AntesPorFrame(f[i], f[j])
<1>0. S \in SUBSET PaginasDe(p)
  OBVIOUS
<1>1. IsFiniteSet(S) /\ n \in Nat
  BY <1>0, PaginasFinitas
<1>2. PICK f : Ordenada(f, S, n, PorFrame(S))
  <2>1. \A T \in SUBSET S : T # {} =>
          \E m \in T : \A x \in T \ {m} : <<m, x>> \in PorFrame(S)
    BY <1>0, HayPrimeraPorFrame
  <2> HIDE DEF n
  <2> QED BY <1>1, <2>1, HayOrden DEF n
<1>3. /\ f \in [1 .. n -> S]
      /\ \A i, j \in 1 .. n : i < j => AntesPorFrame(f[i], f[j])
      /\ \A x \in S : \E i \in 1 .. n : f[i] = x
  BY <1>2 DEF Ordenada, PorFrame
<1>4. \A i, j \in 1 .. n : i # j => f[i] # f[j]
  <2>1. IsFiniteSet(1 .. n) /\ Cardinality(1 .. n) = n
    BY <1>1, FS_Interval
  <2>2. f \in Surjection(1 .. n, S)
    BY <1>3 DEF Surjection
  <2> DEFINE D == 1 .. n
  <2>4. IsFiniteSet(D) /\ Cardinality(D) = Cardinality(S) /\ f \in Surjection(D, S)
    BY <2>1, <2>2
  <2> HIDE DEF D
  <2>5. f \in Injection(D, S)
    BY <2>4, FS_SurjSameCardinalityImpliesInj
  <2>3. f \in Injection(1 .. n, S)
    BY <2>5 DEF D
  <2> QED BY <2>3 DEF Injection, IsInjective
<1>5. f \in SetToSeqs(S) /\ Sube(f)
  BY <1>3, <1>4 DEF SetToSeqs
<1>6. listaEntradas(p) = CHOOSE lista \in SetToSeqs(S) : Sube(lista)
  BY DEF listaEntradas
<1> HIDE DEF Sube
<1>7. listaEntradas(p) \in SetToSeqs(S)
  BY <1>5, <1>6
<1>8. listaEntradas(p) \in [1 .. n -> S]
  BY <1>7 DEF SetToSeqs
<1>9. Len(listaEntradas(p)) = n
  BY <1>1, <1>8
<1> QED BY <1>1, <1>8, <1>9

\* The victim is a page of the process that is in memory; of the pages only
\* use bits change, and of the processes only the pointer.
LEMMA VictimaElegida ==
  ASSUME TypeOK, cpu.pagina \in Paginas, find_victim_page_to_replace
  PROVE  /\ pagina' \in [Paginas -> [frame : 0 .. CANTIDAD_FRAMES, P : BOOLEAN,
                                     U : BOOLEAN, M : BOOLEAN]]
         /\ \A g \in Paginas : /\ pagina'[g].frame = pagina[g].frame
                               /\ pagina'[g].P = pagina[g].P
                               /\ pagina'[g].M = pagina[g].M
         /\ process_extra_info' \in
              [Procesos -> [frames_used : 0 .. MARCOS_POR_PROCESO,
                            clock_pointer : 0 .. MARCOS_POR_PROCESO - 1]]
         /\ \A p \in Procesos : process_extra_info'[p].frames_used
                                  = process_extra_info[p].frames_used
         /\ cpu' = [cpu EXCEPT !.pc = "reemplazar", !.victima = cpu'.victima]
         /\ cpu'.victima \in PaginasDe(cpu.pagina[1])
         /\ pagina[cpu'.victima].P
<1> DEFINE p == cpu.pagina[1]
           S == {g \in PaginasDe(p) : pagina[g].P}
           L == Cardinality(S)
           lista == listaEntradas(p)
           l == BitsDe(lista)
           b == ElegirVictima(ALGORITMO_REEMPLAZO, l, extra.clock_pointer)
           Pag == [frame : 0 .. CANTIDAD_FRAMES, P : BOOLEAN, U : BOOLEAN, M : BOOLEAN]
<1>1. p \in Procesos
  BY DEF Paginas
<1>2. lista \in [1 .. L -> S] /\ Len(lista) = L /\ L \in Nat
  BY <1>1, ListaEntradas
<1>3. L >= MARCOS_POR_PROCESO
  BY <1>2 DEF find_victim_page_to_replace, PunteroEnLista
<1>4. \A g \in Paginas : pagina[g] \in Pag
  BY DEF TypeOK
<1>5. S \subseteq Paginas
  BY DEF PaginasDe
<1>6. l \in Listas(L)
  <2>1. \A i \in 1 .. L : lista[i] \in Paginas
    BY <1>2, <1>5
  <2>2. \A i \in 1 .. L : pagina[lista[i]].U \in BOOLEAN /\ pagina[lista[i]].M \in BOOLEAN
    BY <1>4, <2>1
  <2>3. DOMAIN lista = 1 .. L
    BY <1>2
  <2> HIDE DEF lista, L
  <2> QED BY <2>2, <2>3 DEF BitsDe, Listas, Bits
<1>7. extra.clock_pointer \in 0 .. MARCOS_POR_PROCESO - 1
  BY <1>1 DEF TypeOK, extra
<1> HIDE DEF l, L, lista, S
<1>8. /\ b.lista \in Listas(L) /\ b.victima \in 1 .. MARCOS_POR_PROCESO
      /\ b.puntero \in 0 .. MARCOS_POR_PROCESO - 1
  BY <1>2, <1>3, <1>6, <1>7, ElegirVictimaTipo
<1>9. /\ pagina' = [g \in Paginas |->
           IF \E i \in DOMAIN lista : lista[i] = g
             THEN [pagina[g] EXCEPT !.U = b.lista[Lugar(lista, g)].U]
             ELSE pagina[g]]
      /\ process_extra_info' =
           [process_extra_info EXCEPT ![p].clock_pointer = b.puntero]
      /\ cpu' = [cpu EXCEPT !.pc = "reemplazar", !.victima = lista[b.victima]]
  BY DEF find_victim_page_to_replace, lista, l
<1> HIDE DEF b, p, Pag
<1>10. ASSUME NEW g \in Paginas
       PROVE  /\ pagina'[g] \in Pag
              /\ pagina'[g].frame = pagina[g].frame
              /\ pagina'[g].P = pagina[g].P
              /\ pagina'[g].M = pagina[g].M
  <2>1. pagina[g] \in Pag
    BY <1>4
  <2>2. CASE \E i \in DOMAIN lista : lista[i] = g
    <3>1. Lugar(lista, g) \in 1 .. L
      BY <1>2, <2>2 DEF Lugar
    <3>2. b.lista[Lugar(lista, g)].U \in BOOLEAN
      BY <1>8, <3>1 DEF Listas, Bits
    <3>3. pagina'[g] = [pagina[g] EXCEPT !.U = b.lista[Lugar(lista, g)].U]
      BY <1>9, <2>2
    <3> QED BY <2>1, <3>2, <3>3 DEF Pag
  <2>3. CASE ~ \E i \in DOMAIN lista : lista[i] = g
    <3>1. pagina'[g] = pagina[g]
      BY <1>9, <2>3
    <3> QED BY <2>1, <3>1
  <2> QED BY <2>2, <2>3
<1>11. pagina' \in [Paginas -> Pag]
  BY <1>9, <1>10
<1>12. /\ process_extra_info' \in
            [Procesos -> [frames_used : 0 .. MARCOS_POR_PROCESO,
                          clock_pointer : 0 .. MARCOS_POR_PROCESO - 1]]
       /\ \A q \in Procesos : process_extra_info'[q].frames_used
                                = process_extra_info[q].frames_used
  BY <1>1, <1>8, <1>9 DEF TypeOK
<1>13. lista[b.victima] \in S
  BY <1>2, <1>3, <1>8, ConstantesReemplazo
<1>14. cpu'.victima = lista[b.victima]
  BY <1>9 DEF TypeOK
<1> QED BY <1>9, <1>10, <1>11, <1>12, <1>13, <1>14 DEF S, p, Pag

-----------------------------------------------------------------------------
(* The inductive invariant: types, requests and the request of the CPU *)

\* The state of a process while a request of the kernel for it is pending.
EnEspera(op) == IF op = "INIT" THEN "creando"
                ELSE IF op = "SUSPEND" THEN "suspendiendo" ELSE "terminado"

\* The pending requests are for different processes, each in the state its
\* request left it in; the one being served is a suspension or an end.
PedidosInv ==
  /\ \A i \in DOMAIN kernel_queue :
       estado[kernel_queue[i].pid] = EnEspera(kernel_queue[i].op)
  /\ \A i, j \in DOMAIN kernel_queue :
       kernel_queue[i].pid = kernel_queue[j].pid => i = j
  /\ kernel.pc # "esperar" =>
       /\ kernel.pedido \in Pedido /\ kernel.n >= 1
       /\ kernel.pedido.op \in {"SUSPEND", "KILL"}
       /\ estado[kernel.pedido.pid] = EnEspera(kernel.pedido.op)
       /\ \A i \in DOMAIN kernel_queue : kernel_queue[i].pid # kernel.pedido.pid
  /\ kernel.pc \in {"swap_entry", "liberar_frame"} => kernel.pedido.op = "SUSPEND"
  /\ kernel.pc = "liberar_frame" => HayEntrada

\* The process that is served an access is not suspended or ended meanwhile,
\* has the victim, and no other thread brings in the page it is waiting for.
CpuInv ==
  /\ cpu.pc # "esperar" => cpu.pagina \in Paginas /\ estado[cpu.pagina[1]] = "listo"
  /\ cpu.pc \in {"reemplazar", "desalojar"} => cpu.victima \in PaginasDe(cpu.pagina[1])
  /\ cpu.pc = "reemplazar" => extra.frames_used >= MARCOS_POR_PROCESO
  /\ cpu.pc \in {"reemplazar", "desalojar", "cargar"} => ~ pagina[cpu.pagina].P

IInv == TypeOK /\ PedidosInv /\ CpuInv

Registro == [frame : 0 .. CANTIDAD_FRAMES, P : BOOLEAN, U : BOOLEAN, M : BOOLEAN]
Cuenta == [frames_used : 0 .. MARCOS_POR_PROCESO,
           clock_pointer : 0 .. MARCOS_POR_PROCESO - 1]

\* The constants, in the form the steps use.
LEMMA Constantes ==
  /\ MARCOS_POR_PROCESO \in Nat \ {0} /\ CANTIDAD_FRAMES \in Nat \ {0}
  /\ \A p \in Procesos : Tamanio[p] \in Nat \ {0}
  /\ \A p \in Procesos : 1 \in Procesos /\ p \in Nat \ {0}
  /\ \A g \in Paginas : g[1] \in Procesos /\ g \in PaginasDe(g[1])
  /\ \A p \in Procesos, n \in Nat :
       n >= 1 /\ n <= Tamanio[p] => <<p, n>> \in Paginas
<1>1. MARCOS_POR_PROCESO \in Nat \ {0} /\ CANTIDAD_FRAMES \in Nat \ {0}
  BY ConstantesReemplazo, ConstantesMemoria
<1>2. /\ \A p \in Procesos : Tamanio[p] \in Nat \ {0}
      /\ \A p \in Procesos : 1 \in Procesos /\ p \in Nat \ {0}
  BY ConstantesMemoria DEF Procesos
<1>3. \A g \in Paginas : g[1] \in Procesos /\ g \in PaginasDe(g[1])
  BY DEF Paginas, PaginasDe
<1>4. ASSUME NEW p \in Procesos, NEW n \in Nat, n >= 1, n <= Tamanio[p]
      PROVE  <<p, n>> \in Paginas
  <2>1. n \in 1 .. Tamanio[p]
    BY <1>2, <1>4
  <2> QED BY <2>1 DEF Paginas
<1> QED BY <1>1, <1>2, <1>3, <1>4

\* The entry the kernel's thread is at is a page of the first process.
LEMMA EntradaEs ==
  ASSUME TypeOK, PedidosInv, kernel.pc # "esperar", HayEntrada
  PROVE  Entrada \in Paginas /\ Entrada[1] = 1
<1>1. kernel.pedido.pid \in Procesos /\ kernel.n \in Nat /\ kernel.n >= 1
  BY DEF TypeOK, PedidosInv, Pedido
<1>2. 1 \in Procesos
  BY <1>1, Constantes
<1> QED BY <1>1, <1>2, Constantes DEF Entrada, HayEntrada, TablaRecibida

\* The frame taken is a free one.
LEMMA FrameLibreEs ==
  ASSUME Frames \ ocupados # {}
  PROVE  Min(Frames \ ocupados) \in Frames \ ocupados
<1> DEFINE F == Frames \ ocupados
<1>1. F \in SUBSET Nat /\ F # {}
  BY Constantes DEF Frames
<1> HIDE DEF F
<1>2. \E x \in F : \A y \in F : x <= y
  BY <1>1, MenorNatural
<1>3. Min(F) \in F
  BY <1>2 DEF Min
<1> QED BY <1>3 DEF F

\* The types, variable by variable.
TipoEstado(e) == e \in [Procesos -> Estados]
TipoSuspensiones(s) == s \in [Procesos -> 0 .. MaxSuspensiones]
TipoCola(q) == q \in Seq(Pedido)
TipoKernel(k) ==
  k \in [pc : {"esperar", "swap_entry", "liberar_frame", "free_memory", "free_entry"},
         pedido : Pedido \cup {SinPedido}, n : Nat]
TipoCpu(c) ==
  c \in [pc : {"esperar", "consultar", "reemplazar", "desalojar", "cargar", "marcar",
               "acceder"},
         pagina : Paginas \cup {NADA}, escribe : BOOLEAN,
         victima : Paginas \cup {NADA}, frame : 0 .. CANTIDAD_FRAMES]
TipoPagina(g) == g \in [Paginas -> Registro]
TipoExtra(x) == x \in [Procesos -> Cuenta]
TipoOcupados(o) == o \subseteq Frames
TipoMemoria(m) == m \in [Frames -> Paginas \cup {NADA}]
TipoSwap(w) == w \subseteq Paginas

\* The type invariant, split by variable.
LEMMA TiposEs ==
  TypeOK <=> /\ TipoEstado(estado) /\ TipoSuspensiones(suspensiones)
             /\ TipoCola(kernel_queue) /\ TipoKernel(kernel) /\ TipoCpu(cpu)
             /\ TipoPagina(pagina) /\ TipoExtra(process_extra_info)
             /\ TipoOcupados(ocupados) /\ TipoMemoria(memoria) /\ TipoSwap(swap)
BY DEF TypeOK, TipoEstado, TipoSuspensiones, TipoCola, TipoKernel, TipoCpu, TipoPagina,
       TipoExtra, TipoOcupados, TipoMemoria, TipoSwap, Registro, Cuenta

\* Going to the next entry keeps the kernel server's type.
LEMMA SiguienteTipo ==
  ASSUME TipoKernel(kernel), NEW pc \in {"swap_entry", "free_entry"},
         AEntradaSiguiente(pc)
  PROVE  TipoKernel(kernel')
<1>1. kernel.n + 1 \in Nat
  BY DEF TipoKernel
<1> DEFINE m == kernel.n + 1
<1>2. kernel' = [kernel EXCEPT !.pc = pc, !.n = m]
  BY DEF AEntradaSiguiente
<1> HIDE DEF m
<1> QED BY <1>1, <1>2 DEF TipoKernel, m

\* So does an answer that of the CPU's server.
LEMMA RespondeTipo ==
  ASSUME TipoCpu(cpu), Responde
  PROVE  TipoCpu(cpu')
<1> DEFINE k == CANTIDAD_FRAMES
<1>1. k \in 0 .. CANTIDAD_FRAMES /\ NADA \in Paginas \cup {NADA}
  BY ConstantesMemoria
<1> HIDE DEF NADA
<1>2. cpu' = [cpu EXCEPT !.pc = "esperar", !.pagina = NADA, !.escribe = FALSE,
                         !.victima = NADA, !.frame = k]
  BY DEF Responde, SIN_FRAME
<1> HIDE DEF k
<1> QED BY <1>1, <1>2 DEF TipoCpu

\* Every step keeps the types.
LEMMA TipoSigue ==
  ASSUME TypeOK, PedidosInv, CpuInv, [Next]_vars
  PROVE  TypeOK'
<1>a. /\ TipoEstado(estado) /\ TipoSuspensiones(suspensiones)
      /\ TipoCola(kernel_queue) /\ TipoKernel(kernel) /\ TipoCpu(cpu)
      /\ TipoPagina(pagina) /\ TipoExtra(process_extra_info)
      /\ TipoOcupados(ocupados) /\ TipoMemoria(memoria) /\ TipoSwap(swap)
  BY TiposEs
<1> SUFFICES /\ TipoEstado(estado') /\ TipoSuspensiones(suspensiones')
             /\ TipoCola(kernel_queue') /\ TipoKernel(kernel') /\ TipoCpu(cpu')
             /\ TipoPagina(pagina') /\ TipoExtra(process_extra_info')
             /\ TipoOcupados(ocupados') /\ TipoMemoria(memoria') /\ TipoSwap(swap')
  BY DEF TypeOK, TipoEstado, TipoSuspensiones, TipoCola, TipoKernel, TipoCpu,
         TipoPagina, TipoExtra, TipoOcupados, TipoMemoria, TipoSwap, Registro, Cuenta
<1>b. kernel_queue # <<>> =>
        /\ Head(kernel_queue) \in Pedido /\ Tail(kernel_queue) \in Seq(Pedido)
        /\ Head(kernel_queue).pid \in Procesos
  <2>1. kernel_queue \in Seq(Pedido)
    BY DEF TypeOK
  <2>2. kernel_queue # <<>> =>
          Head(kernel_queue) \in Pedido /\ Tail(kernel_queue) \in Seq(Pedido)
    BY <2>1
  <2> QED BY <2>2 DEF Pedido
<1>c. kernel.pc # "esperar" =>
        /\ kernel.pedido.pid \in Procesos
        /\ HayEntrada => Entrada \in Paginas /\ pagina[Entrada] \in Registro
  BY EntradaEs DEF TypeOK, PedidosInv, Pedido, Registro
<1>d. /\ cpu.pc # "esperar" => cpu.pagina \in Paginas /\ cpu.pagina[1] \in Procesos
      /\ cpu.pc \in {"reemplazar", "desalojar"} =>
           cpu.victima \in Paginas /\ cpu.victima[1] = cpu.pagina[1]
  BY Constantes DEF CpuInv, PaginasDe
<1>e. MARCOS_POR_PROCESO \in Nat \ {0} /\ CANTIDAD_FRAMES \in Nat \ {0}
        /\ MaxSuspensiones \in Nat
  BY Constantes, ConstantesMemoria
<1>1. ASSUME NEW p \in Procesos, PedirInit(p)
      PROVE  /\ TipoEstado(estado') /\ TipoSuspensiones(suspensiones')
             /\ TipoCola(kernel_queue') /\ TipoKernel(kernel') /\ TipoCpu(cpu')
             /\ TipoPagina(pagina') /\ TipoExtra(process_extra_info')
             /\ TipoOcupados(ocupados') /\ TipoMemoria(memoria') /\ TipoSwap(swap')
  <2>1. TipoEstado(estado')
    BY <1>a, <1>1 DEF PedirInit, server_listen_ram, TipoEstado, Estados
  <2>2. TipoCola(kernel_queue')
    BY <1>a, <1>1 DEF PedirInit, server_listen_ram, TipoCola, Pedido
  <2> QED BY <1>a, <1>1, <2>1, <2>2
        DEF PedirInit, server_listen_ram, pedidos, datos
<1>2. ASSUME NEW p \in Procesos, PedirSuspend(p)
      PROVE  /\ TipoEstado(estado') /\ TipoSuspensiones(suspensiones')
             /\ TipoCola(kernel_queue') /\ TipoKernel(kernel') /\ TipoCpu(cpu')
             /\ TipoPagina(pagina') /\ TipoExtra(process_extra_info')
             /\ TipoOcupados(ocupados') /\ TipoMemoria(memoria') /\ TipoSwap(swap')
  <2>1. TipoEstado(estado')
    BY <1>a, <1>2 DEF PedirSuspend, server_listen_ram, TipoEstado, Estados
  <2>2. TipoCola(kernel_queue')
    BY <1>a, <1>2 DEF PedirSuspend, server_listen_ram, TipoCola, Pedido
  <2>3. TipoSuspensiones(suspensiones')
    BY <1>a, <1>2, <1>e DEF PedirSuspend, server_listen_ram, TipoSuspensiones
  <2> QED BY <1>a, <1>2, <2>1, <2>2, <2>3
        DEF PedirSuspend, server_listen_ram, pedidos, datos
<1>3. ASSUME NEW p \in Procesos, PedirKill(p)
      PROVE  /\ TipoEstado(estado') /\ TipoSuspensiones(suspensiones')
             /\ TipoCola(kernel_queue') /\ TipoKernel(kernel') /\ TipoCpu(cpu')
             /\ TipoPagina(pagina') /\ TipoExtra(process_extra_info')
             /\ TipoOcupados(ocupados') /\ TipoMemoria(memoria') /\ TipoSwap(swap')
  <2>1. TipoEstado(estado')
    BY <1>a, <1>3 DEF PedirKill, server_listen_ram, TipoEstado, Estados
  <2>2. TipoCola(kernel_queue')
    BY <1>a, <1>3 DEF PedirKill, server_listen_ram, TipoCola, Pedido
  <2> QED BY <1>a, <1>3, <2>1, <2>2
        DEF PedirKill, server_listen_ram, pedidos, datos
<1>4. ASSUME NEW p \in Procesos, Reanudar(p)
      PROVE  /\ TipoEstado(estado') /\ TipoSuspensiones(suspensiones')
             /\ TipoCola(kernel_queue') /\ TipoKernel(kernel') /\ TipoCpu(cpu')
             /\ TipoPagina(pagina') /\ TipoExtra(process_extra_info')
             /\ TipoOcupados(ocupados') /\ TipoMemoria(memoria') /\ TipoSwap(swap')
  <2>1. TipoEstado(estado')
    BY <1>a, <1>4 DEF Reanudar, TipoEstado, Estados
  <2> QED BY <1>a, <1>4, <2>1
        DEF Reanudar, pedidos, datos
<1>5. ASSUME NEW g \in Paginas, NEW escribe \in BOOLEAN, get_frame(g, escribe)
      PROVE  /\ TipoEstado(estado') /\ TipoSuspensiones(suspensiones')
             /\ TipoCola(kernel_queue') /\ TipoKernel(kernel') /\ TipoCpu(cpu')
             /\ TipoPagina(pagina') /\ TipoExtra(process_extra_info')
             /\ TipoOcupados(ocupados') /\ TipoMemoria(memoria') /\ TipoSwap(swap')
  <2>1. TipoCpu(cpu')
    BY <1>a, <1>5 DEF get_frame, TipoCpu
  <2> QED BY <1>a, <1>5, <2>1
        DEF get_frame, pedidos, datos
<1>6. CASE process_init
  <2>1. TipoEstado(estado')
    BY <1>a, <1>6, <1>b DEF process_init, Tomar, TipoEstado, Estados
  <2>2. TipoCola(kernel_queue')
    BY <1>a, <1>6 DEF process_init, Tomar, TipoCola
  <2>3. TipoKernel(kernel')
    BY <1>a, <1>6, <1>b DEF process_init, Tomar, TipoKernel
  <2>4. TipoSwap(swap')
    BY <1>a, <1>6 DEF process_init, Tomar, TipoSwap, PaginasDe
  <2> QED BY <1>a, <1>6, <2>1, <2>2, <2>3, <2>4
        DEF process_init, Tomar, pedidos, datos
<1>7. CASE process_suspend
  <2>1. TipoCola(kernel_queue')
    BY <1>a, <1>7 DEF process_suspend, Tomar, TipoCola
  <2>2. TipoKernel(kernel')
    BY <1>a, <1>7, <1>b DEF process_suspend, Tomar, TipoKernel
  <2> QED BY <1>a, <1>7, <2>1, <2>2
        DEF process_suspend, Tomar, pedidos, datos
<1>8. CASE process_kill
  <2>1. TipoCola(kernel_queue')
    BY <1>a, <1>8 DEF process_kill, Tomar, TipoCola
  <2>2. TipoKernel(kernel')
    BY <1>a, <1>8, <1>b DEF process_kill, Tomar, TipoKernel
  <2> QED BY <1>a, <1>8, <2>1, <2>2
        DEF process_kill, Tomar, pedidos, datos
<1>9. CASE swap_second_level_entry
  <2>1. TipoSwap(swap')
    BY <1>a, <1>9, <1>c DEF swap_second_level_entry, write_frame_in_swap, TipoSwap
  <2>2. TipoKernel(kernel')
    BY <1>a, <1>9 DEF swap_second_level_entry, write_frame_in_swap, TipoKernel
  <2> QED BY <1>a, <1>9, <2>1, <2>2
        DEF swap_second_level_entry, write_frame_in_swap, pedidos, datos
<1>10. CASE swap_second_level_entry_Liberar
  <2>1. TipoPagina(pagina')
    BY <1>a, <1>10, <1>c DEF swap_second_level_entry_Liberar, AEntradaSiguiente,
       TipoPagina, PedidosInv, PaginaInicial, Registro
  <2>2. TipoOcupados(ocupados')
    BY <1>a, <1>10 DEF swap_second_level_entry_Liberar, AEntradaSiguiente, TipoOcupados
  <2>3. TipoKernel(kernel')
    BY <1>a, <1>10, SiguienteTipo DEF swap_second_level_entry_Liberar
  <2> QED BY <1>a, <1>10, <2>1, <2>2, <2>3
        DEF swap_second_level_entry_Liberar, AEntradaSiguiente, pedidos, datos
<1>11. CASE swap_second_level_entry_Saltear
  <2>1. TipoKernel(kernel')
    BY <1>a, <1>11, SiguienteTipo DEF swap_second_level_entry_Saltear
  <2> QED BY <1>a, <1>11, <2>1
        DEF swap_second_level_entry_Saltear, AEntradaSiguiente, pedidos, datos
<1>12. CASE suspend_pid_Fin
  <2>1. TipoExtra(process_extra_info')
    BY <1>a, <1>12, <1>c, <1>e DEF suspend_pid_Fin, TipoExtra, Cuenta
  <2>2. TipoKernel(kernel')
    BY <1>a, <1>12 DEF suspend_pid_Fin, TipoKernel
  <2> QED BY <1>a, <1>12, <2>1, <2>2
        DEF suspend_pid_Fin, pedidos, datos
<1>13. CASE free_memory
  <2>1. TipoKernel(kernel')
    BY <1>a, <1>13 DEF free_memory, TipoKernel
  <2> QED BY <1>a, <1>13, <2>1
        DEF free_memory, pedidos, datos
<1>14. CASE free_second_level_entry
  <2>1. TipoOcupados(ocupados')
    BY <1>a, <1>14 DEF free_second_level_entry, AEntradaSiguiente, TipoOcupados
  <2>2. TipoKernel(kernel')
    BY <1>a, <1>14, SiguienteTipo DEF free_second_level_entry
  <2> QED BY <1>a, <1>14, <2>1, <2>2
        DEF free_second_level_entry, AEntradaSiguiente, pedidos, datos
<1>15. CASE process_suspend_Fin
  <2>1. TipoEstado(estado')
    BY <1>a, <1>15, <1>c DEF process_suspend_Fin, TipoEstado, Estados
  <2>2. TipoKernel(kernel')
    BY <1>a, <1>15 DEF process_suspend_Fin, TipoKernel
  <2> QED BY <1>a, <1>15, <2>1, <2>2
        DEF process_suspend_Fin, pedidos, datos
<1>16. CASE process_kill_Fin
  <2>1. TipoSwap(swap')
    BY <1>a, <1>16 DEF process_kill_Fin, free_process_swap, TipoSwap
  <2>2. TipoKernel(kernel')
    BY <1>a, <1>16 DEF process_kill_Fin, free_process_swap, TipoKernel
  <2> QED BY <1>a, <1>16, <2>1, <2>2
        DEF process_kill_Fin, free_process_swap, pedidos, datos
<1>17. CASE get_frame_number_Presente
  <2>1. TipoCpu(cpu')
    BY <1>a, <1>17 DEF get_frame_number_Presente, CpuPasa, TipoCpu
  <2> QED BY <1>a, <1>17, <2>1
        DEF get_frame_number_Presente, CpuPasa, pedidos, datos
<1>18. CASE get_frame_number_FrameLibre
  <2>1. TipoOcupados(ocupados')
    BY <1>a, <1>18, FrameLibreEs DEF get_frame_number_FrameLibre, CpuPasa, TipoOcupados
  <2>2. TipoPagina(pagina')
    BY <1>a, <1>18, <1>d, <1>e, FrameLibreEs DEF get_frame_number_FrameLibre, CpuPasa,
       TipoPagina, Frames, Registro
  <2>3. TipoExtra(process_extra_info')
    BY <1>a, <1>18, <1>d, <1>e DEF get_frame_number_FrameLibre, CpuPasa, TipoExtra, extra, Cuenta
  <2>4. TipoCpu(cpu')
    BY <1>a, <1>18 DEF get_frame_number_FrameLibre, CpuPasa, TipoCpu
  <2> QED BY <1>a, <1>18, <2>1, <2>2, <2>3, <2>4
        DEF get_frame_number_FrameLibre, CpuPasa, pedidos, datos
<1>19. CASE find_victim_page_to_replace
  <2>1. TipoPagina(pagina')
    BY <1>a, <1>19, <1>d, VictimaElegida DEF find_victim_page_to_replace, TipoPagina,
       BuscaVictima, Registro, Cuenta, PaginasDe
  <2>2. TipoExtra(process_extra_info')
    BY <1>a, <1>19, <1>d, VictimaElegida DEF find_victim_page_to_replace, TipoExtra,
       BuscaVictima, Registro, Cuenta, PaginasDe
  <2>3. TipoCpu(cpu')
    BY <1>a, <1>19, <1>d, VictimaElegida DEF find_victim_page_to_replace, TipoCpu,
       BuscaVictima, Registro, Cuenta, PaginasDe
  <2> QED BY <1>a, <1>19, <2>1, <2>2, <2>3
        DEF find_victim_page_to_replace, pedidos, datos
<1>20. CASE get_frame_number_Guardar
  <2>1. TipoSwap(swap')
    BY <1>a, <1>20, <1>d DEF get_frame_number_Guardar, CpuPasa, write_frame_in_swap, TipoSwap
  <2>2. TipoExtra(process_extra_info')
    BY <1>a, <1>20, <1>d, <1>e DEF get_frame_number_Guardar, CpuPasa,
       write_frame_in_swap, TipoExtra, CpuInv, extra, Cuenta
  <2>3. TipoCpu(cpu')
    BY <1>a, <1>20 DEF get_frame_number_Guardar, CpuPasa, write_frame_in_swap, TipoCpu
  <2> QED BY <1>a, <1>20, <2>1, <2>2, <2>3
        DEF get_frame_number_Guardar, CpuPasa, write_frame_in_swap, pedidos, datos
<1>21. CASE get_frame_number_Desalojar
  <2>1. TipoPagina(pagina')
    BY <1>a, <1>21, <1>d DEF get_frame_number_Desalojar, CpuPasa, TipoPagina,
       PaginaInicial, Registro
  <2>2. TipoCpu(cpu')
    BY <1>a, <1>21 DEF get_frame_number_Desalojar, CpuPasa, TipoCpu
  <2> QED BY <1>a, <1>21, <2>1, <2>2
        DEF get_frame_number_Desalojar, CpuPasa, pedidos, datos
<1>22. CASE write_page_in_memory
  <2>1. TipoMemoria(memoria')
    BY <1>a, <1>22, <1>d DEF write_page_in_memory, CpuPasa, read_page_in_swap, TipoMemoria
  <2>2. TipoPagina(pagina')
    BY <1>a, <1>22, <1>d DEF write_page_in_memory, CpuPasa, read_page_in_swap, TipoPagina, Registro
  <2>3. TipoCpu(cpu')
    BY <1>a, <1>22 DEF write_page_in_memory, CpuPasa, read_page_in_swap, TipoCpu
  <2> QED BY <1>a, <1>22, <2>1, <2>2, <2>3
        DEF write_page_in_memory, CpuPasa, read_page_in_swap, pedidos, datos
<1>23. CASE get_frame_number_Marcar
  <2>1. TipoPagina(pagina')
    BY ZenonT(30), <1>a, <1>23, <1>d DEF get_frame_number_Marcar, TipoPagina, Registro
  <2>2. TipoCpu(cpu')
    BY <1>a, <1>23, <1>d DEF get_frame_number_Marcar, TipoCpu, TipoPagina, Registro
  <2> QED BY <1>a, <1>23, <2>1, <2>2
        DEF get_frame_number_Marcar, pedidos, datos
<1>24. CASE read_fisical_address
  <2>1. TipoCpu(cpu')
    BY <1>a, <1>24, RespondeTipo DEF read_fisical_address
  <2> QED BY <1>a, <1>24, <2>1
        DEF read_fisical_address, Responde, pedidos, datos
<1>25. CASE write_memory_data
  <2>1. TipoMemoria(memoria')
    BY <1>a, <1>25, <1>d DEF write_memory_data, Responde, TipoMemoria
  <2>2. TipoSwap(swap')
    BY <1>a, <1>25 DEF write_memory_data, Responde, TipoSwap
  <2>3. TipoCpu(cpu')
    BY <1>a, <1>25, RespondeTipo DEF write_memory_data
  <2> QED BY <1>a, <1>25, <2>1, <2>2, <2>3
        DEF write_memory_data, Responde, pedidos, datos
<1>26. CASE UNCHANGED vars
  BY <1>a, <1>26 DEF vars, pedidos, datos
<1> QED
  BY <1>1, <1>2, <1>3, <1>4, <1>5, <1>6, <1>7, <1>8, <1>9, <1>10, <1>11, <1>12, <1>13,
     <1>14, <1>15, <1>16, <1>17, <1>18, <1>19, <1>20, <1>21, <1>22, <1>23, <1>24, <1>25,
     <1>26
  DEF Next, Entorno, process_kernel_functions, process_kernel_salida,
      process_cpu_functions

\* What waits in the queue are requests.
LEMMA EnLaCola ==
  ASSUME TypeOK, NEW i \in DOMAIN kernel_queue
  PROVE  kernel_queue[i] \in Pedido /\ kernel_queue[i].pid \in Procesos
<1>1. kernel_queue[i] \in Pedido
  BY DEF TypeOK
<1> QED BY <1>1 DEF Pedido

\* A request of the kernel for a process that has none pending.
LEMMA PedirSigue ==
  ASSUME TypeOK, PedidosInv, NEW p \in Procesos, NEW op \in {"INIT", "SUSPEND", "KILL"},
         NEW desde \in {"nuevo", "listo"}, server_listen_ram(p, op, desde, EnEspera(op))
  PROVE  PedidosInv'
<1> DEFINE n == Len(kernel_queue)
           r == [op |-> op, pid |-> p]
<1>1. n \in Nat /\ DOMAIN kernel_queue = 1 .. n
  BY DEF TypeOK
<1>2. \A i \in 1 .. n : kernel_queue[i] \in Pedido
  BY DEF TypeOK
<1>3. /\ DOMAIN kernel_queue' = 1 .. n + 1
      /\ \A i \in 1 .. n : kernel_queue'[i] = kernel_queue[i]
      /\ kernel_queue'[n + 1] = r
  BY DEF server_listen_ram, TypeOK
<1>4. /\ estado[p] = desde /\ estado'[p] = EnEspera(op) /\ kernel' = kernel
      /\ \A q \in Procesos : q # p => estado'[q] = estado[q]
  BY DEF server_listen_ram, TypeOK
<1>5. \A i \in 1 .. n : kernel_queue[i].pid \in Procesos /\ kernel_queue[i].pid # p
  BY <1>1, <1>2, <1>4 DEF PedidosInv, EnEspera, Pedido
<1>6. kernel.pc # "esperar" => kernel.pedido.pid \in Procesos /\ kernel.pedido.pid # p
  BY <1>4 DEF PedidosInv, EnEspera, Pedido
<1>7. r.op = op /\ r.pid = p
  OBVIOUS
<1> HIDE DEF r, n
<1>8. \A i \in 1 .. n + 1 : i \in 1 .. n \/ i = n + 1
  BY <1>1
<1>a. \A i \in DOMAIN kernel_queue' :
        estado'[kernel_queue'[i].pid] = EnEspera(kernel_queue'[i].op)
  BY <1>1, <1>3, <1>4, <1>5, <1>7, <1>8 DEF PedidosInv
<1>b. \A i, j \in DOMAIN kernel_queue' :
        kernel_queue'[i].pid = kernel_queue'[j].pid => i = j
  BY <1>1, <1>3, <1>5, <1>7, <1>8 DEF PedidosInv
<1>c. kernel.pc # "esperar" =>
        /\ estado'[kernel.pedido.pid] = EnEspera(kernel.pedido.op)
        /\ \A i \in DOMAIN kernel_queue' : kernel_queue'[i].pid # kernel.pedido.pid
  BY <1>1, <1>3, <1>4, <1>6, <1>7, <1>8 DEF PedidosInv
<1> QED BY <1>4, <1>a, <1>b, <1>c DEF PedidosInv, HayEntrada

\* A request is taken, the first of the queue.
LEMMA TomarSigue ==
  ASSUME TypeOK, PedidosInv, NEW op \in {"INIT", "SUSPEND", "KILL"},
         NEW pc, Tomar(op, pc)
  PROVE  /\ kernel_queue[1] \in Pedido /\ kernel_queue[1].op = op
         /\ estado[kernel_queue[1].pid] = EnEspera(op)
         /\ kernel' = [pc |-> pc, pedido |-> kernel_queue[1], n |-> 1]
         /\ \A i \in DOMAIN kernel_queue' :
              /\ i \in Nat /\ i + 1 \in DOMAIN kernel_queue
              /\ kernel_queue'[i] = kernel_queue[i + 1]
              /\ kernel_queue[i + 1].pid \in Procesos
              /\ kernel_queue'[i].pid # kernel_queue[1].pid
         /\ kernel.pc = "esperar"
<1> DEFINE n == Len(kernel_queue)
<1>1. n \in Nat /\ n # 0 /\ DOMAIN kernel_queue = 1 .. n
  BY DEF TypeOK, Tomar
<1>2. \A i \in 1 .. n : kernel_queue[i] \in Pedido
  BY DEF TypeOK
<1>3. DOMAIN kernel_queue' = 1 .. n - 1
        /\ \A i \in 1 .. n - 1 : kernel_queue'[i] = kernel_queue[i + 1]
  BY DEF TypeOK, Tomar
<1>4. Head(kernel_queue) = kernel_queue[1]
  BY DEF TypeOK, Tomar
<1> HIDE DEF n
<1>5. ASSUME NEW i \in DOMAIN kernel_queue'
      PROVE  /\ i \in Nat /\ i + 1 \in DOMAIN kernel_queue
             /\ kernel_queue'[i] = kernel_queue[i + 1]
             /\ kernel_queue[i + 1].pid \in Procesos
             /\ kernel_queue'[i].pid # kernel_queue[1].pid
  <2>1. i \in 1 .. n - 1 /\ i + 1 \in 1 .. n /\ 1 \in 1 .. n /\ i + 1 # 1
    BY <1>1, <1>3
  <2> QED BY <1>1, <1>2, <1>3, <2>1 DEF PedidosInv, Pedido
<1>6. 1 \in DOMAIN kernel_queue
  BY <1>1
<1> QED BY <1>1, <1>2, <1>4, <1>5, <1>6 DEF Tomar, PedidosInv

\* Every step keeps the requests in order.
LEMMA PedidosSiguen ==
  ASSUME TypeOK, PedidosInv, [Next]_vars
  PROVE  PedidosInv'
<1>1. CASE \E p \in Procesos : PedirInit(p) \/ PedirSuspend(p) \/ PedirKill(p)
  <2>1. \E p \in Procesos : \/ server_listen_ram(p, "INIT", "nuevo", EnEspera("INIT"))
                            \/ server_listen_ram(p, "SUSPEND", "listo", EnEspera("SUSPEND"))
                            \/ server_listen_ram(p, "KILL", "listo", EnEspera("KILL"))
    BY <1>1 DEF PedirInit, PedirSuspend, PedirKill, EnEspera
  <2> QED BY <2>1, PedirSigue
<1>2. ASSUME NEW p \in Procesos, Reanudar(p) PROVE PedidosInv'
  <2>1. /\ estado[p] = "suspendido" /\ kernel' = kernel /\ kernel_queue' = kernel_queue
        /\ \A q \in Procesos : q # p => estado'[q] = estado[q]
    BY <1>2 DEF Reanudar, TypeOK
  <2>2. \A i \in DOMAIN kernel_queue : kernel_queue[i].pid \in Procesos
    BY EnLaCola
  <2>3. \A i \in DOMAIN kernel_queue : kernel_queue[i].pid # p
    BY <2>1 DEF PedidosInv, EnEspera
  <2>4. kernel.pc # "esperar" => kernel.pedido.pid \in Procesos /\ kernel.pedido.pid # p
    BY <2>1 DEF PedidosInv, EnEspera, Pedido
  <2> QED BY <2>1, <2>2, <2>3, <2>4 DEF PedidosInv, HayEntrada
<1>3. CASE process_init
  <2>1. Tomar("INIT", "esperar")
        /\ estado' = [estado EXCEPT ![Head(kernel_queue).pid] = "listo"]
    BY <1>3 DEF process_init
  <2>2. /\ kernel'.pc = "esperar" /\ kernel_queue[1].pid \in Procesos
        /\ \A i \in DOMAIN kernel_queue' :
              /\ i \in Nat /\ i + 1 \in DOMAIN kernel_queue
              /\ kernel_queue'[i] = kernel_queue[i + 1]
              /\ kernel_queue[i + 1].pid \in Procesos
              /\ kernel_queue'[i].pid # kernel_queue[1].pid
    BY <2>1, TomarSigue DEF Pedido
  <2>3. \A q \in Procesos : q # kernel_queue[1].pid => estado'[q] = estado[q]
    BY <2>1 DEF TypeOK, Tomar
  <2> QED BY <2>2, <2>3 DEF PedidosInv
<1>4. ASSUME NEW op \in {"SUSPEND", "KILL"}, NEW pc, pc = "swap_entry" => op = "SUSPEND",
             pc # "liberar_frame", pc # "esperar", Tomar(op, pc), estado' = estado
      PROVE  PedidosInv'
  <2>1. /\ kernel_queue[1] \in Pedido /\ kernel_queue[1].op = op
        /\ estado[kernel_queue[1].pid] = EnEspera(op)
        /\ kernel' = [pc |-> pc, pedido |-> kernel_queue[1], n |-> 1]
        /\ \A i \in DOMAIN kernel_queue' :
              /\ i \in Nat /\ i + 1 \in DOMAIN kernel_queue
              /\ kernel_queue'[i] = kernel_queue[i + 1]
              /\ kernel_queue[i + 1].pid \in Procesos
              /\ kernel_queue'[i].pid # kernel_queue[1].pid
    BY <1>4, TomarSigue
  <2> QED BY <1>4, <2>1 DEF PedidosInv
<1>5. CASE process_suspend \/ process_kill
  BY <1>4, <1>5 DEF process_suspend, process_kill
<1>6. CASE process_suspend_Fin
  <2>1. /\ kernel'.pc = "esperar" /\ kernel_queue' = kernel_queue
        /\ kernel.pc # "esperar" /\ kernel.pedido.pid \in Procesos
        /\ \A q \in Procesos : q # kernel.pedido.pid => estado'[q] = estado[q]
    BY <1>6 DEF process_suspend_Fin, TypeOK, PedidosInv, Pedido
  <2>2. \A i \in DOMAIN kernel_queue : kernel_queue[i].pid \in Procesos
    BY EnLaCola
  <2> QED BY <2>1, <2>2 DEF PedidosInv
<1>7. ASSUME kernel.pc # "esperar", estado' = estado, kernel_queue' = kernel_queue,
             kernel'.pedido = kernel.pedido, kernel'.n \in Nat, kernel'.n >= 1,
             kernel'.pc \in {"swap_entry", "liberar_frame"} =>
               kernel.pc \in {"swap_entry", "liberar_frame"},
             kernel'.pc = "liberar_frame" => HayEntrada'
      PROVE  PedidosInv'
  BY <1>7 DEF PedidosInv
<1>8. CASE \/ swap_second_level_entry \/ swap_second_level_entry_Liberar
           \/ swap_second_level_entry_Saltear \/ suspend_pid_Fin
           \/ free_memory \/ free_second_level_entry \/ process_kill_Fin
  <2>1. kernel.n \in Nat /\ (kernel.pc # "esperar" => kernel.n >= 1)
    BY DEF TypeOK, PedidosInv
  <2>2. CASE swap_second_level_entry
    <3>1. /\ kernel.pc # "esperar" /\ estado' = estado /\ kernel_queue' = kernel_queue
          /\ kernel'.pedido = kernel.pedido /\ kernel'.n = kernel.n
          /\ kernel.pc = "swap_entry" /\ HayEntrada
      BY <2>2 DEF swap_second_level_entry, TypeOK, pedidos
    <3>2. HayEntrada'
      BY <3>1 DEF HayEntrada
    <3> QED BY <1>7, <2>1, <3>1, <3>2
  <2>3. CASE swap_second_level_entry_Liberar
    BY <1>7, <2>1, <2>3
    DEF swap_second_level_entry_Liberar, AEntradaSiguiente, TypeOK, pedidos
  <2>4. CASE swap_second_level_entry_Saltear
    BY <1>7, <2>1, <2>4
    DEF swap_second_level_entry_Saltear, AEntradaSiguiente, TypeOK, pedidos
  <2>5. CASE suspend_pid_Fin
    BY <1>7, <2>1, <2>5 DEF suspend_pid_Fin, TypeOK, pedidos
  <2>6. CASE free_memory
    BY <1>7, <2>1, <2>6 DEF free_memory, TypeOK, pedidos
  <2>7. CASE free_second_level_entry
    BY <1>7, <2>1, <2>7
    DEF free_second_level_entry, AEntradaSiguiente, TypeOK, pedidos
  <2>8. CASE process_kill_Fin
    BY <1>7, <2>1, <2>8 DEF process_kill_Fin, TypeOK, pedidos
  <2> QED BY <1>8, <2>2, <2>3, <2>4, <2>5, <2>6, <2>7, <2>8
<1>9. ASSUME estado' = estado, kernel_queue' = kernel_queue, kernel' = kernel
      PROVE  PedidosInv'
  BY <1>9 DEF PedidosInv, HayEntrada
<1>10. CASE process_cpu_functions
  BY <1>9, <1>10
  DEF process_cpu_functions, pedidos, get_frame_number_Presente,
      get_frame_number_FrameLibre, find_victim_page_to_replace, get_frame_number_Guardar,
      get_frame_number_Desalojar, write_page_in_memory, get_frame_number_Marcar,
      read_fisical_address, write_memory_data
<1>11. CASE UNCHANGED vars \/ \E g \in Paginas, escribe \in BOOLEAN : get_frame(g, escribe)
  BY <1>9, <1>11 DEF vars, pedidos, get_frame
<1> QED
  BY <1>1, <1>2, <1>3, <1>5, <1>6, <1>8, <1>10, <1>11
  DEF Next, Entorno, process_kernel_functions, process_kernel_salida

\* A step that is not the CPU's thread's leaves the process it serves alone,
\* and brings in no page.
LEMMA CpuAjena ==
  ASSUME TypeOK, CpuInv, cpu' = cpu,
         cpu.pc # "esperar" =>
           /\ estado'[cpu.pagina[1]] = estado[cpu.pagina[1]]
           /\ process_extra_info'[cpu.pagina[1]] = process_extra_info[cpu.pagina[1]],
         \A g \in Paginas : pagina'[g].P => pagina[g].P
  PROVE  CpuInv'
<1>1. cpu.pc \in {"reemplazar", "desalojar", "cargar"} => ~ pagina'[cpu.pagina].P
  BY DEF CpuInv
<1> QED BY <1>1 DEF CpuInv, extra

\* The state of the process the CPU's thread serves changes at none of the
\* kernel's requests nor of their answers.
LEMMA ListoSigue ==
  ASSUME TypeOK, PedidosInv, CpuInv, cpu.pc # "esperar",
         \/ \E p \in Procesos : PedirInit(p) \/ PedirSuspend(p) \/ PedirKill(p) \/ Reanudar(p)
         \/ process_kernel_functions
  PROVE  estado'[cpu.pagina[1]] = estado[cpu.pagina[1]]
<1> DEFINE q == cpu.pagina[1]
<1>1. q \in Procesos /\ estado[q] = "listo" /\ estado \in [Procesos -> Estados]
  BY Constantes DEF CpuInv, TypeOK
<1> HIDE DEF q
<1>2. ASSUME NEW p \in Procesos, NEW e, p # q, estado' = [estado EXCEPT ![p] = e]
      PROVE  estado'[q] = estado[q]
  BY <1>1, <1>2
<1>3. ASSUME NEW p \in Procesos, PedirInit(p) PROVE estado'[q] = estado[q]
  BY <1>1, <1>2, <1>3 DEF PedirInit, server_listen_ram
<1>4. ASSUME NEW p \in Procesos, PedirSuspend(p) \/ PedirKill(p)
      PROVE  estado'[q] = estado[q]
  BY <1>1, <1>2, <1>4 DEF PedirSuspend, PedirKill, server_listen_ram, FueraDeCpu, q
<1>5. ASSUME NEW p \in Procesos, Reanudar(p) PROVE estado'[q] = estado[q]
  BY <1>1, <1>2, <1>5 DEF Reanudar
<1>6. CASE process_init
  <2>1. Tomar("INIT", "esperar")
    BY <1>6 DEF process_init
  <2>2. /\ kernel_queue[1] \in Pedido /\ Head(kernel_queue) = kernel_queue[1]
        /\ estado[kernel_queue[1].pid] = "creando"
    BY <2>1, TomarSigue DEF EnEspera, Tomar, TypeOK
  <2>3. kernel_queue[1].pid \in Procesos /\ kernel_queue[1].pid # q
        /\ estado' = [estado EXCEPT ![kernel_queue[1].pid] = "listo"]
    BY <1>1, <1>6, <2>2 DEF process_init, Pedido
  <2> QED BY <1>1, <2>3 DEF q
<1>7. CASE process_suspend_Fin
  <2>1. kernel.pedido.pid \in Procesos /\ estado[kernel.pedido.pid] = "suspendiendo"
    BY <1>7 DEF process_suspend_Fin, PedidosInv, EnEspera, Pedido
  <2>2. kernel.pedido.pid # q
        /\ estado' = [estado EXCEPT ![kernel.pedido.pid] = "suspendido"]
    BY <1>1, <1>7, <2>1 DEF process_suspend_Fin
  <2> QED BY <1>1, <2>1, <2>2 DEF q
<1>8. CASE \/ process_suspend \/ process_kill
           \/ swap_second_level_entry \/ swap_second_level_entry_Liberar
           \/ swap_second_level_entry_Saltear \/ suspend_pid_Fin
           \/ free_memory \/ free_second_level_entry \/ process_kill_Fin
  BY <1>8 DEF process_suspend, process_kill, swap_second_level_entry,
     swap_second_level_entry_Liberar, swap_second_level_entry_Saltear, suspend_pid_Fin,
     free_memory, free_second_level_entry, process_kill_Fin, pedidos
<1> QED BY <1>3, <1>4, <1>5, <1>6, <1>7, <1>8
        DEF q, process_kernel_functions, process_kernel_salida

\* The steps of the kernel and of its thread change of the pages only those
\* they free, and of the processes' data only the count of the suspended one.
LEMMA KernelDeja ==
  ASSUME TypeOK, PedidosInv, CpuInv,
         \/ \E p \in Procesos : PedirInit(p) \/ PedirSuspend(p) \/ PedirKill(p) \/ Reanudar(p)
         \/ process_kernel_functions
  PROVE  /\ cpu' = cpu
         /\ cpu.pc # "esperar" => process_extra_info'[cpu.pagina[1]] = process_extra_info[cpu.pagina[1]]
         /\ \A g \in Paginas : pagina'[g].P => pagina'[g] = pagina[g]
<1>1. CASE \E p \in Procesos : PedirInit(p) \/ PedirSuspend(p) \/ PedirKill(p) \/ Reanudar(p)
  BY <1>1 DEF PedirInit, PedirSuspend, PedirKill, Reanudar, server_listen_ram
<1>2. CASE swap_second_level_entry_Liberar
  <2>1. Entrada \in Paginas
    BY <1>2, EntradaEs DEF swap_second_level_entry_Liberar, PedidosInv
  <2>2. /\ cpu' = cpu /\ process_extra_info' = process_extra_info
        /\ \A g \in Paginas : g # Entrada => pagina'[g] = pagina[g]
        /\ pagina'[Entrada] = [PaginaInicial EXCEPT !.frame = pagina[Entrada].frame]
    BY <1>2, <2>1 DEF swap_second_level_entry_Liberar, TypeOK
  <2>3. pagina'[Entrada].P = FALSE
    BY <2>2 DEF PaginaInicial
  <2> QED BY <2>2, <2>3
<1>3. CASE suspend_pid_Fin
  <2>1. kernel.pedido.pid \in Procesos /\ estado[kernel.pedido.pid] = "suspendiendo"
    BY <1>3 DEF suspend_pid_Fin, PedidosInv, EnEspera, Pedido
  <2>2. cpu.pc # "esperar" => cpu.pagina[1] \in Procesos /\ cpu.pagina[1] # kernel.pedido.pid
    BY <2>1, Constantes DEF CpuInv
  <2> QED BY <1>3, <2>2 DEF suspend_pid_Fin, TypeOK
<1>4. CASE \/ process_init \/ process_suspend \/ process_kill
           \/ swap_second_level_entry
           \/ swap_second_level_entry_Saltear
           \/ free_memory \/ free_second_level_entry
           \/ process_suspend_Fin \/ process_kill_Fin
  BY <1>4 DEF process_init, process_suspend, process_kill, swap_second_level_entry,
     swap_second_level_entry_Saltear, free_memory, free_second_level_entry,
     process_suspend_Fin, process_kill_Fin
<1> QED BY <1>1, <1>2, <1>3, <1>4 DEF process_kernel_functions, process_kernel_salida

\* Every step keeps the process the CPU's thread serves in place.
LEMMA CpuSigue ==
  ASSUME TypeOK, PedidosInv, CpuInv, [Next]_vars
  PROVE  CpuInv'
<1>1. CASE \/ \E p \in Procesos : PedirInit(p) \/ PedirSuspend(p) \/ PedirKill(p) \/ Reanudar(p)
           \/ process_kernel_functions
  <2>1. /\ cpu' = cpu
        /\ cpu.pc # "esperar" => process_extra_info'[cpu.pagina[1]] = process_extra_info[cpu.pagina[1]]
        /\ \A g \in Paginas : pagina'[g].P => pagina'[g] = pagina[g]
    BY <1>1, KernelDeja
  <2>2. cpu.pc # "esperar" => estado'[cpu.pagina[1]] = estado[cpu.pagina[1]]
    BY <1>1, ListoSigue
  <2> QED BY <2>1, <2>2, CpuAjena
<1>2. ASSUME NEW g \in Paginas, NEW escribe \in BOOLEAN, get_frame(g, escribe)
      PROVE  CpuInv'
  <2>1. cpu'.pc = "consultar" /\ cpu'.pagina = g
    BY <1>2 DEF get_frame, TypeOK
  <2> QED BY <1>2, <2>1 DEF get_frame, CpuInv, pedidos
<1>3. cpu.pc # "esperar" => cpu.pagina \in Paginas /\ cpu.pagina[1] \in Procesos
  BY Constantes DEF CpuInv
<1>4. CASE get_frame_number_Presente
  <2>1. cpu'.pc = "marcar" /\ cpu'.pagina = cpu.pagina
    BY <1>4 DEF get_frame_number_Presente, CpuPasa, TypeOK
  <2> QED BY <1>4, <2>1 DEF get_frame_number_Presente, CpuInv, pedidos
<1>5. CASE get_frame_number_FrameLibre
  <2>1. cpu'.pc = "cargar" /\ cpu'.pagina = cpu.pagina
    BY <1>5 DEF get_frame_number_FrameLibre, CpuPasa, TypeOK
  <2>2. pagina'[cpu.pagina].P = pagina[cpu.pagina].P
    BY <1>3, <1>5 DEF get_frame_number_FrameLibre, TypeOK
  <2> QED BY <1>5, <2>1, <2>2 DEF get_frame_number_FrameLibre, CpuInv, pedidos
<1>6. CASE find_victim_page_to_replace
  <2>1. cpu.pc = "consultar" /\ ~ pagina[cpu.pagina].P
        /\ process_extra_info[cpu.pagina[1]].frames_used >= MARCOS_POR_PROCESO
    BY <1>6 DEF find_victim_page_to_replace, BuscaVictima, extra
  <2>2. /\ cpu'.victima \in PaginasDe(cpu.pagina[1])
        /\ cpu' = [cpu EXCEPT !.pc = "reemplazar", !.victima = cpu'.victima]
        /\ pagina'[cpu.pagina].P = pagina[cpu.pagina].P
        /\ process_extra_info'[cpu.pagina[1]].frames_used
             = process_extra_info[cpu.pagina[1]].frames_used
    BY <1>3, <1>6, <2>1, VictimaElegida
  <2>3. cpu'.pc = "reemplazar" /\ cpu'.pagina = cpu.pagina
    BY <2>2 DEF TypeOK
  <2>4. estado' = estado
    BY <1>6 DEF find_victim_page_to_replace, pedidos
  <2> QED BY <2>1, <2>2, <2>3, <2>4 DEF CpuInv, extra
<1>7. CASE get_frame_number_Guardar
  <2>1. cpu'.pc = "desalojar" /\ cpu'.pagina = cpu.pagina /\ cpu'.victima = cpu.victima
    BY <1>7 DEF get_frame_number_Guardar, CpuPasa, TypeOK
  <2> QED BY <1>7, <2>1 DEF get_frame_number_Guardar, CpuInv, pedidos
<1>8. CASE get_frame_number_Desalojar
  <2>1. cpu'.pc = "cargar" /\ cpu'.pagina = cpu.pagina
    BY <1>8 DEF get_frame_number_Desalojar, CpuPasa, TypeOK
  <2>2. ~ pagina'[cpu.pagina].P
    <3>1. cpu.pagina \in Paginas /\ ~ pagina[cpu.pagina].P
      BY <1>8 DEF get_frame_number_Desalojar, CpuInv
    <3> DEFINE f == pagina[cpu.victima].frame
    <3>2. pagina' = [pagina EXCEPT ![cpu.victima] = [PaginaInicial EXCEPT !.frame = f],
                                   ![cpu.pagina].frame = f]
      BY <1>8 DEF get_frame_number_Desalojar
    <3> HIDE DEF f
    <3>3. PICK r : /\ pagina'[cpu.pagina] = [r EXCEPT !.frame = f]
                   /\ r \in {pagina[cpu.pagina], [PaginaInicial EXCEPT !.frame = f]}
      BY <3>1, <3>2 DEF TypeOK
    <3>4. pagina[cpu.pagina] \in Registro
      BY <3>1 DEF TypeOK, Registro
    <3>5. \A s \in Registro : [s EXCEPT !.frame = f].P = s.P
      BY DEF Registro
    <3>6. [PaginaInicial EXCEPT !.frame = f].P = FALSE
          /\ [[PaginaInicial EXCEPT !.frame = f] EXCEPT !.frame = f].P = FALSE
      BY DEF PaginaInicial
    <3> QED BY <3>1, <3>3, <3>4, <3>5, <3>6
  <2> QED BY <1>8, <2>1, <2>2 DEF get_frame_number_Desalojar, CpuInv, pedidos
<1>9. CASE write_page_in_memory
  <2>1. cpu'.pc = "marcar" /\ cpu'.pagina = cpu.pagina
    BY <1>9 DEF write_page_in_memory, CpuPasa, TypeOK
  <2> QED BY <1>9, <2>1 DEF write_page_in_memory, CpuInv, pedidos
<1>10. CASE get_frame_number_Marcar
  <2>1. cpu'.pc = "acceder" /\ cpu'.pagina = cpu.pagina
    BY <1>10 DEF get_frame_number_Marcar, TypeOK
  <2> QED BY <1>10, <2>1 DEF get_frame_number_Marcar, CpuInv, pedidos
<1>11. CASE read_fisical_address \/ write_memory_data
  <2>1. cpu'.pc = "esperar"
    BY <1>11 DEF read_fisical_address, write_memory_data, Responde, TypeOK
  <2> QED BY <2>1 DEF CpuInv
<1>12. CASE UNCHANGED vars
  BY <1>12 DEF CpuInv, extra, vars, pedidos
<1> QED
  BY <1>1, <1>2, <1>4, <1>5, <1>6, <1>7, <1>8, <1>9, <1>10, <1>11, <1>12
  DEF Next, Entorno, process_cpu_functions

\* The initial states satisfy the invariant.
LEMMA IInvInicial ==
  Init => IInv
<1> SUFFICES ASSUME Init PROVE IInv
  OBVIOUS
<1>1. MARCOS_POR_PROCESO \in Nat \ {0} /\ CANTIDAD_FRAMES \in Nat \ {0}
        /\ MaxSuspensiones \in Nat
  BY Constantes, ConstantesMemoria
<1>2. TipoEstado(estado) /\ TipoSuspensiones(suspensiones) /\ TipoCola(kernel_queue)
  BY <1>1 DEF Init, TipoEstado, TipoSuspensiones, TipoCola, Estados
<1>3. TipoKernel(kernel)
  BY DEF Init, TipoKernel
<1>4. TipoCpu(cpu)
  <2> DEFINE k == CANTIDAD_FRAMES
  <2>1. k \in 0 .. CANTIDAD_FRAMES
    BY <1>1
  <2>2. cpu = [pc |-> "esperar", pagina |-> NADA, escribe |-> FALSE,
               victima |-> NADA, frame |-> k]
    BY DEF Init, SIN_FRAME
  <2> HIDE DEF k
  <2> QED BY <2>1, <2>2 DEF TipoCpu
<1>5. TipoPagina(pagina)
  <2> DEFINE k == CANTIDAD_FRAMES
  <2>1. k \in 0 .. CANTIDAD_FRAMES
    BY <1>1
  <2>2. PaginaInicial = [frame |-> k, P |-> FALSE, U |-> FALSE, M |-> FALSE]
    BY DEF PaginaInicial, SIN_FRAME
  <2> HIDE DEF k
  <2>3. PaginaInicial \in Registro
    BY <2>1, <2>2 DEF Registro
  <2> QED BY <2>3 DEF Init, TipoPagina
<1>6. TipoExtra(process_extra_info)
  BY <1>1 DEF Init, TipoExtra, Cuenta
<1>7. TipoOcupados(ocupados) /\ TipoMemoria(memoria) /\ TipoSwap(swap)
  BY DEF Init, TipoOcupados, TipoMemoria, TipoSwap
<1>8. TypeOK
  BY <1>2, <1>3, <1>4, <1>5, <1>6, <1>7, TiposEs
<1>9. PedidosInv /\ CpuInv
  BY DEF Init, PedidosInv, CpuInv
<1> QED BY <1>8, <1>9 DEF IInv

\* The counters, bits and pointers keep their ranges: frames_used never passes
\* MARCOS_POR_PROCESO nor falls below zero, and the clock's pointer never
\* leaves 0 .. MARCOS_POR_PROCESO - 1, whatever the two threads interleave.
THEOREM MemoriaTypeCorrect == Spec => []TypeOK
<1>1. IInv /\ [Next]_vars => IInv'
  BY TipoSigue, PedidosSiguen, CpuSigue DEF IInv
<1>2. IInv => TypeOK
  BY DEF IInv
<1> QED BY IInvInicial, <1>1, <1>2, PTL DEF Spec

-----------------------------------------------------------------------------
(* No frame is lost *)

\* Frame f holds a present page, or the one that is being brought in.
Tiene(f) == \/ \E g \in Paginas : pagina[g].P /\ pagina[g].frame = f
            \/ cpu.pc = "cargar" /\ pagina[cpu.pagina].frame = f

\* No frame leaks: every busy frame belongs to a page or to a request.
LEMMA SinFugaEs ==
  SinFugaDeFrames <=> \A f \in ocupados : Tiene(f)
BY DEF SinFugaDeFrames, Tiene, EnTransito

\* What a page's entry becomes at the steps that change it.
LEMMA MarcoLibreCambia ==
  ASSUME TypeOK, CpuInv, get_frame_number_FrameLibre
  PROVE  \E f \in Frames \ ocupados :
           /\ ocupados' = ocupados \cup {f}
           /\ pagina'[cpu.pagina].frame = f
           /\ pagina'[cpu.pagina].P = pagina[cpu.pagina].P
           /\ pagina'[cpu.pagina].M = pagina[cpu.pagina].M
           /\ \A g \in Paginas : g # cpu.pagina => pagina'[g] = pagina[g]
           /\ cpu.pagina \in Paginas /\ ~ pagina[cpu.pagina].P
           /\ cpu' = [cpu EXCEPT !.pc = "cargar"]
<1> DEFINE f == Min(Frames \ ocupados)
<1>1. f \in Frames \ ocupados
  BY FrameLibreEs DEF get_frame_number_FrameLibre
<1>2. /\ ocupados' = ocupados \cup {f}
      /\ pagina' = [pagina EXCEPT ![cpu.pagina].frame = f]
      /\ cpu.pagina \in Paginas /\ ~ pagina[cpu.pagina].P
      /\ cpu' = [cpu EXCEPT !.pc = "cargar"]
  BY DEF get_frame_number_FrameLibre, CpuInv, CpuPasa
<1> HIDE DEF f
<1>3. /\ pagina'[cpu.pagina].frame = f
      /\ pagina'[cpu.pagina].P = pagina[cpu.pagina].P
      /\ pagina'[cpu.pagina].M = pagina[cpu.pagina].M
      /\ \A g \in Paginas : g # cpu.pagina => pagina'[g] = pagina[g]
  BY <1>2 DEF TypeOK
<1> QED BY <1>1, <1>2, <1>3

\* A replacement gives the victim's frame to the page and clears both
\* presence bits.
LEMMA DesalojarCambia ==
  ASSUME TypeOK, CpuInv, get_frame_number_Desalojar
  PROVE  /\ pagina'[cpu.pagina].frame = pagina[cpu.victima].frame
         /\ pagina'[cpu.victima].frame = pagina[cpu.victima].frame
         /\ ~ pagina'[cpu.pagina].P /\ ~ pagina'[cpu.victima].P
         /\ \A g \in Paginas :
              g # cpu.pagina /\ g # cpu.victima => pagina'[g] = pagina[g]
         /\ cpu.pagina \in Paginas /\ cpu.victima \in PaginasDe(cpu.pagina[1])
         /\ ~ pagina[cpu.pagina].P
         /\ cpu' = [cpu EXCEPT !.pc = "cargar"]
<1> DEFINE f == pagina[cpu.victima].frame
           v == [PaginaInicial EXCEPT !.frame = f]
<1>1. /\ pagina' = [pagina EXCEPT ![cpu.victima] = v, ![cpu.pagina].frame = f]
      /\ cpu' = [cpu EXCEPT !.pc = "cargar"]
  BY DEF get_frame_number_Desalojar, CpuPasa
<1>2. /\ cpu.pagina \in Paginas /\ cpu.victima \in PaginasDe(cpu.pagina[1])
      /\ cpu.victima \in Paginas /\ ~ pagina[cpu.pagina].P
  BY DEF get_frame_number_Desalojar, CpuInv, PaginasDe
<1>3. v.frame = f /\ v.P = FALSE /\ [v EXCEPT !.frame = f].frame = f
        /\ [v EXCEPT !.frame = f].P = FALSE
  BY DEF PaginaInicial
<1>4. pagina[cpu.pagina] \in Registro
  BY <1>2 DEF TypeOK, Registro
<1>5. /\ [pagina[cpu.pagina] EXCEPT !.frame = f].frame = f
      /\ [pagina[cpu.pagina] EXCEPT !.frame = f].P = pagina[cpu.pagina].P
  BY <1>4 DEF Registro
<1> HIDE DEF v, f
<1>6. pagina'[cpu.pagina] \in {[v EXCEPT !.frame = f], [pagina[cpu.pagina] EXCEPT !.frame = f]}
  BY <1>1, <1>2 DEF TypeOK
<1>7. cpu.victima # cpu.pagina => pagina'[cpu.victima] = v
  BY <1>1, <1>2 DEF TypeOK
<1>8. \A g \in Paginas :
        g # cpu.pagina /\ g # cpu.victima => pagina'[g] = pagina[g]
  BY <1>1, <1>2 DEF TypeOK
<1>9. pagina'[cpu.pagina].frame = f /\ ~ pagina'[cpu.pagina].P
  BY <1>2, <1>3, <1>5, <1>6
<1>10. pagina'[cpu.victima].frame = f /\ ~ pagina'[cpu.victima].P
  BY <1>3, <1>7, <1>9
<1> QED BY <1>1, <1>2, <1>8, <1>9, <1>10 DEF f

\* Loading a page sets its presence bit, and nothing else of the tables.
LEMMA CargarCambia ==
  ASSUME TypeOK, CpuInv, write_page_in_memory
  PROVE  /\ pagina'[cpu.pagina].frame = pagina[cpu.pagina].frame
         /\ pagina'[cpu.pagina].P
         /\ pagina'[cpu.pagina].M = pagina[cpu.pagina].M
         /\ \A g \in Paginas : g # cpu.pagina => pagina'[g] = pagina[g]
         /\ cpu.pagina \in Paginas /\ ~ pagina[cpu.pagina].P
         /\ cpu' = [cpu EXCEPT !.pc = "marcar"]
<1>1. /\ pagina' = [pagina EXCEPT ![cpu.pagina].P = TRUE]
      /\ cpu' = [cpu EXCEPT !.pc = "marcar"]
      /\ cpu.pagina \in Paginas /\ ~ pagina[cpu.pagina].P
  BY DEF write_page_in_memory, CpuPasa, CpuInv
<1> QED BY <1>1 DEF TypeOK

\* Marking an access sets M on a write, and moves no page.
LEMMA MarcarCambia ==
  ASSUME TypeOK, CpuInv, get_frame_number_Marcar
  PROVE  /\ \A g \in Paginas : /\ pagina'[g].frame = pagina[g].frame
                               /\ pagina'[g].P = pagina[g].P
         /\ \A g \in Paginas : g # cpu.pagina => pagina'[g] = pagina[g]
         /\ pagina'[cpu.pagina].M = (pagina[cpu.pagina].M \/ cpu.escribe)
         /\ cpu.pagina \in Paginas
         /\ cpu' = [cpu EXCEPT !.pc = "acceder", !.frame = pagina[cpu.pagina].frame]
<1> DEFINE m == pagina[cpu.pagina].M \/ cpu.escribe
<1>1. /\ pagina' = [pagina EXCEPT ![cpu.pagina].U = TRUE, ![cpu.pagina].M = m]
      /\ cpu' = [cpu EXCEPT !.pc = "acceder", !.frame = pagina[cpu.pagina].frame]
      /\ cpu.pagina \in Paginas
  BY DEF get_frame_number_Marcar, CpuInv
<1>2. m \in BOOLEAN
  OBVIOUS
<1> HIDE DEF m
<1>3. /\ \A g \in Paginas : g # cpu.pagina => pagina'[g] = pagina[g]
      /\ pagina'[cpu.pagina].frame = pagina[cpu.pagina].frame
      /\ pagina'[cpu.pagina].P = pagina[cpu.pagina].P
      /\ pagina'[cpu.pagina].M = m
  BY <1>1, <1>2 DEF TypeOK
<1> QED BY <1>1, <1>3 DEF m

\* A suspension releases one entry and its frame.
LEMMA LiberarCambia ==
  ASSUME TypeOK, PedidosInv, swap_second_level_entry_Liberar
  PROVE  /\ Entrada \in Paginas /\ Entrada[1] = 1
         /\ \A g \in Paginas : g # Entrada => pagina'[g] = pagina[g]
         /\ pagina'[Entrada].frame = pagina[Entrada].frame
         /\ ~ pagina'[Entrada].P
         /\ ocupados' = ocupados \ {pagina[Entrada].frame}
<1> DEFINE v == [PaginaInicial EXCEPT !.frame = pagina[Entrada].frame]
<1>1. Entrada \in Paginas /\ Entrada[1] = 1
  BY EntradaEs DEF swap_second_level_entry_Liberar, PedidosInv
<1>2. /\ pagina' = [pagina EXCEPT ![Entrada] = v]
      /\ ocupados' = ocupados \ {pagina[Entrada].frame}
  BY DEF swap_second_level_entry_Liberar
<1>3. v.frame = pagina[Entrada].frame /\ v.P = FALSE
  BY DEF PaginaInicial
<1> HIDE DEF v
<1>4. pagina'[Entrada] = v /\ \A g \in Paginas : g # Entrada => pagina'[g] = pagina[g]
  BY <1>1, <1>2 DEF TypeOK
<1> QED BY <1>1, <1>2, <1>3, <1>4

\* Every frame that stays or becomes occupied still has its page.
LEMMA SinFugaSigue ==
  ASSUME TypeOK, PedidosInv, CpuInv, SinFugaDeFrames, [Next]_vars
  PROVE  SinFugaDeFrames'
<1>0. \A f \in ocupados : Tiene(f)
  BY SinFugaEs
<1> SUFFICES ASSUME NEW f \in ocupados' PROVE Tiene(f)'
  BY DEF SinFugaDeFrames, Tiene, EnTransito
<1>1. ASSUME ocupados' \subseteq ocupados, pagina' = pagina,
             cpu' = cpu \/ cpu.pc # "cargar"
      PROVE  Tiene(f)'
  BY <1>0, <1>1 DEF Tiene
<1>2. CASE \/ \E p \in Procesos : PedirInit(p) \/ PedirSuspend(p) \/ PedirKill(p) \/ Reanudar(p)
           \/ process_init \/ process_suspend \/ process_kill
           \/ swap_second_level_entry \/ swap_second_level_entry_Saltear
           \/ suspend_pid_Fin \/ free_memory \/ free_second_level_entry
           \/ process_suspend_Fin \/ process_kill_Fin
  BY <1>1, <1>2 DEF PedirInit, PedirSuspend, PedirKill, Reanudar, server_listen_ram,
     process_init, process_suspend, process_kill, swap_second_level_entry,
     swap_second_level_entry_Saltear, suspend_pid_Fin, free_memory,
     free_second_level_entry, process_suspend_Fin, process_kill_Fin
<1>3. CASE swap_second_level_entry_Liberar
  <2>1. cpu' = cpu
    BY <1>3 DEF swap_second_level_entry_Liberar
  <2>2. f \in ocupados /\ f # pagina[Entrada].frame
    BY <1>3, LiberarCambia
  <2>3. Tiene(f)
    BY <1>0, <2>2
  <2>4. cpu.pc = "cargar" => pagina'[cpu.pagina].frame = pagina[cpu.pagina].frame
    BY <1>3, LiberarCambia DEF CpuInv
  <2> QED BY <1>3, <2>1, <2>2, <2>3, <2>4, LiberarCambia DEF Tiene
<1>4. CASE \/ \E g \in Paginas, escribe \in BOOLEAN : get_frame(g, escribe)
           \/ get_frame_number_Presente \/ get_frame_number_Guardar
           \/ read_fisical_address \/ write_memory_data
  BY <1>1, <1>4 DEF get_frame, get_frame_number_Presente, get_frame_number_Guardar,
     read_fisical_address, write_memory_data
<1>5. CASE get_frame_number_FrameLibre
  <2>1. PICK n \in Frames \ ocupados :
          /\ ocupados' = ocupados \cup {n}
          /\ pagina'[cpu.pagina].frame = n
          /\ \A g \in Paginas : g # cpu.pagina => pagina'[g] = pagina[g]
          /\ cpu.pagina \in Paginas /\ ~ pagina[cpu.pagina].P
          /\ cpu' = [cpu EXCEPT !.pc = "cargar"]
    BY <1>5, MarcoLibreCambia
  <2>2. cpu'.pc = "cargar" /\ cpu'.pagina = cpu.pagina /\ cpu.pc # "cargar"
    BY <1>5, <2>1 DEF TypeOK, get_frame_number_FrameLibre
  <2> QED BY <1>0, <2>1, <2>2 DEF Tiene
<1>6. CASE find_victim_page_to_replace
  <2>1. /\ cpu.pc = "consultar" /\ ocupados' = ocupados /\ cpu.pagina \in Paginas
    BY <1>6 DEF find_victim_page_to_replace, BuscaVictima, CpuInv
  <2>2. \A g \in Paginas : pagina'[g].frame = pagina[g].frame /\ pagina'[g].P = pagina[g].P
    BY <1>6, <2>1, VictimaElegida
  <2> QED BY <1>0, <2>1, <2>2 DEF Tiene
<1>7. CASE get_frame_number_Desalojar
  <2>1. ocupados' = ocupados /\ cpu.pc # "cargar"
    BY <1>7 DEF get_frame_number_Desalojar
  <2>2. PICK g \in Paginas : pagina[g].P /\ pagina[g].frame = f
    BY <1>0, <2>1 DEF Tiene
  <2>3. cpu'.pc = "cargar" /\ cpu'.pagina = cpu.pagina
    BY <1>7, DesalojarCambia DEF TypeOK
  <2>4. CASE g = cpu.victima
    BY <1>7, <2>2, <2>3, <2>4, DesalojarCambia DEF Tiene
  <2>5. CASE g # cpu.victima
    <3>1. pagina'[g] = pagina[g]
      BY <1>7, <2>2, <2>5, DesalojarCambia
    <3> QED BY <2>2, <3>1 DEF Tiene
  <2> QED BY <2>4, <2>5
<1>8. CASE write_page_in_memory
  <2>1. ocupados' = ocupados
    BY <1>8 DEF write_page_in_memory
  <2> QED BY <1>0, <1>8, <2>1, CargarCambia DEF Tiene
<1>9. CASE get_frame_number_Marcar
  <2>1. ocupados' = ocupados /\ cpu.pc # "cargar"
    BY <1>9 DEF get_frame_number_Marcar
  <2> QED BY <1>0, <1>9, <2>1, MarcarCambia DEF Tiene
<1>10. CASE UNCHANGED vars
  BY <1>1, <1>10 DEF vars
<1> QED
  BY <1>2, <1>3, <1>4, <1>5, <1>6, <1>7, <1>8, <1>9, <1>10
  DEF Next, Entorno, process_kernel_functions, process_kernel_salida,
      process_cpu_functions

\* No frame is occupied for nobody, whatever is suspended, ended or replaced,
\* and though memory goes through the wrong table when it suspends or ends.
THEOREM SinFuga == Spec => []SinFugaDeFrames
<1>1. Init => IInv /\ SinFugaDeFrames
  BY IInvInicial DEF Init, SinFugaDeFrames
<1>2. IInv /\ SinFugaDeFrames /\ [Next]_vars => (IInv /\ SinFugaDeFrames)'
  BY TipoSigue, PedidosSiguen, CpuSigue, SinFugaSigue DEF IInv
<1> QED BY <1>1, <1>2, PTL DEF Spec

-----------------------------------------------------------------------------
(* The victim is there *)

EnMemoriaDe(p) == {g \in PaginasDe(p) : pagina[g].P}
EnCamino(p) == IF cpu.pc = "cargar" /\ cpu.pagina[1] = p THEN 1 ELSE 0

\* Process p counts no more frames than it has pages in memory or on their way.
Respaldada(p) ==
  process_extra_info[p].frames_used <= Cardinality(EnMemoriaDe(p)) + EnCamino(p)

\* With only the first process suspended or ended, the table gone through is
\* its own: the count of each process is backed by pages, but for the first's
\* while its pages are given up one by one.
VictimaInv ==
  /\ Salientes \subseteq {1}
  /\ \A i \in DOMAIN kernel_queue :
       kernel_queue[i].op = "INIT" \/ kernel_queue[i].pid = 1
  /\ kernel.pc # "esperar" => kernel.pedido.pid = 1
  /\ \A p \in Procesos :
       (p = 1 => kernel.pc \notin {"swap_entry", "liberar_frame"}) => Respaldada(p)

\* The counts of frames are numbers, and their sets finite.
LEMMA CuentaEsNat ==
  ASSUME TypeOK, NEW p \in Procesos
  PROVE  /\ process_extra_info[p].frames_used \in Nat
         /\ Cardinality(EnMemoriaDe(p)) \in Nat /\ IsFiniteSet(EnMemoriaDe(p))
         /\ EnCamino(p) \in {0, 1}
<1>1. EnMemoriaDe(p) \in SUBSET PaginasDe(p)
  BY DEF EnMemoriaDe
<1>2. process_extra_info[p].frames_used \in Nat
  BY Constantes DEF TypeOK
<1> QED BY <1>1, <1>2, PaginasFinitas DEF EnCamino

\* A process is as backed as it was when its count does not grow, nor its pages
\* in memory or on their way become fewer.
LEMMA RespaldoSigue ==
  ASSUME NEW p \in Procesos, Respaldada(p),
         process_extra_info'[p].frames_used = process_extra_info[p].frames_used,
         EnMemoriaDe(p)' = EnMemoriaDe(p), EnCamino(p)' = EnCamino(p)
  PROVE  Respaldada(p)'
BY DEF Respaldada

\* Of the steps of the CPU's thread.
LEMMA RespaldoDeLaCpu ==
  ASSUME TypeOK, PedidosInv, CpuInv, NEW p \in Procesos, Respaldada(p),
         process_cpu_functions
  PROVE  Respaldada(p)'
<1>1. /\ process_extra_info[p].frames_used \in Nat
      /\ Cardinality(EnMemoriaDe(p)) \in Nat /\ IsFiniteSet(EnMemoriaDe(p))
  BY CuentaEsNat
<1>2. process_extra_info[p].frames_used <= Cardinality(EnMemoriaDe(p)) + EnCamino(p)
  BY DEF Respaldada
<1>3. ASSUME process_extra_info' = process_extra_info,
             \A g \in Paginas : pagina'[g].P = pagina[g].P,
             EnCamino(p)' = EnCamino(p)
      PROVE  Respaldada(p)'
  <2>1. EnMemoriaDe(p)' = EnMemoriaDe(p)
    BY <1>3 DEF EnMemoriaDe, PaginasDe
  <2> QED BY <1>3, <2>1, RespaldoSigue
<1>4. CASE get_frame_number_Presente \/ read_fisical_address \/ write_memory_data
  <2>1. process_extra_info' = process_extra_info /\ pagina' = pagina
    BY <1>4 DEF get_frame_number_Presente, read_fisical_address, write_memory_data
  <2>2. cpu.pc # "cargar" /\ cpu'.pc # "cargar"
    BY <1>4 DEF get_frame_number_Presente, read_fisical_address, write_memory_data,
       CpuPasa, Responde, TypeOK
  <2> QED BY <1>3, <2>1, <2>2 DEF EnCamino
<1>5. CASE get_frame_number_Marcar
  <2>1. process_extra_info' = process_extra_info /\ cpu.pc # "cargar" /\ cpu'.pc # "cargar"
    BY <1>5 DEF get_frame_number_Marcar, TypeOK
  <2> QED BY <1>3, <1>5, <2>1, MarcarCambia DEF EnCamino
<1>6. CASE find_victim_page_to_replace
  <2>1. cpu.pc = "consultar" /\ cpu.pagina \in Paginas
    BY <1>6 DEF find_victim_page_to_replace, BuscaVictima, CpuInv
  <2>2. /\ \A g \in Paginas : pagina'[g].P = pagina[g].P
        /\ process_extra_info'[p].frames_used = process_extra_info[p].frames_used
        /\ cpu' = [cpu EXCEPT !.pc = "reemplazar", !.victima = cpu'.victima]
    BY <1>6, <2>1, VictimaElegida
  <2>3. cpu'.pc = "reemplazar"
    BY <2>2 DEF TypeOK
  <2>4. EnMemoriaDe(p)' = EnMemoriaDe(p)
    BY <2>2 DEF EnMemoriaDe, PaginasDe
  <2> QED BY <2>1, <2>2, <2>3, <2>4, RespaldoSigue DEF EnCamino
<1>7. CASE get_frame_number_FrameLibre
  <2>1. cpu.pc = "consultar" /\ cpu.pagina \in Paginas /\ cpu.pagina[1] \in Procesos
    BY <1>7, Constantes DEF get_frame_number_FrameLibre, CpuInv
  <2>2. /\ \A g \in Paginas : pagina'[g].P = pagina[g].P
        /\ cpu' = [cpu EXCEPT !.pc = "cargar"]
    BY <1>7, MarcoLibreCambia
  <2>3. cpu'.pc = "cargar" /\ cpu'.pagina = cpu.pagina
    BY <2>2 DEF TypeOK
  <2>4. EnMemoriaDe(p)' = EnMemoriaDe(p)
    BY <2>2 DEF EnMemoriaDe, PaginasDe
  <2>5. process_extra_info' =
          [process_extra_info EXCEPT ![cpu.pagina[1]].frames_used = @ + 1]
    BY <1>7 DEF get_frame_number_FrameLibre
  <2>6. CASE cpu.pagina[1] = p
    <3>1. process_extra_info'[p].frames_used = process_extra_info[p].frames_used + 1
      BY <2>5, <2>6 DEF TypeOK
    <3>2. EnCamino(p) = 0 /\ EnCamino(p)' = 1
      BY <2>1, <2>3, <2>6 DEF EnCamino
    <3> QED BY <1>1, <1>2, <2>4, <3>1, <3>2 DEF Respaldada
  <2>7. CASE cpu.pagina[1] # p
    <3>1. process_extra_info'[p] = process_extra_info[p]
      BY <2>1, <2>5, <2>7 DEF TypeOK
    <3>2. EnCamino(p) = 0 /\ EnCamino(p)' = 0
      BY <2>1, <2>3, <2>7 DEF EnCamino
    <3> QED BY <2>4, <3>1, <3>2, RespaldoSigue
  <2> QED BY <2>6, <2>7
<1>8. CASE get_frame_number_Guardar
  <2>1. cpu.victima[1] = cpu.pagina[1] /\ cpu.pagina[1] \in Procesos /\ cpu.pc = "reemplazar"
    BY <1>8, Constantes DEF get_frame_number_Guardar, CpuInv, PaginasDe
  <2>2. /\ pagina' = pagina /\ cpu' = [cpu EXCEPT !.pc = "desalojar"]
        /\ process_extra_info' =
             [process_extra_info EXCEPT ![cpu.victima[1]].frames_used = @ - 1]
    BY <1>8 DEF get_frame_number_Guardar, CpuPasa
  <2>3. EnMemoriaDe(p)' = EnMemoriaDe(p)
    BY <2>2 DEF EnMemoriaDe
  <2>4. EnCamino(p) = 0 /\ EnCamino(p)' = 0
    BY <2>1, <2>2 DEF EnCamino, TypeOK
  <2>5. process_extra_info'[p].frames_used \in
          {process_extra_info[p].frames_used, process_extra_info[p].frames_used - 1}
    BY <2>1, <2>2 DEF TypeOK
  <2> QED BY <1>1, <1>2, <2>3, <2>4, <2>5 DEF Respaldada
<1>9. CASE get_frame_number_Desalojar
  <2> DEFINE v == cpu.victima
             A == EnMemoriaDe(p)
  <2>1. /\ process_extra_info' = process_extra_info
        /\ cpu.pc # "cargar"
    BY <1>9 DEF get_frame_number_Desalojar
  <2>2. cpu'.pc = "cargar" /\ cpu'.pagina = cpu.pagina
    BY <1>9, DesalojarCambia DEF TypeOK
  <2>3. EnMemoriaDe(p)' = A \ {v}
    BY <1>9, DesalojarCambia DEF EnMemoriaDe, PaginasDe
  <2>4. CASE cpu.pagina[1] = p
    <3>1. EnCamino(p) = 0 /\ EnCamino(p)' = 1
      BY <2>1, <2>2, <2>4 DEF EnCamino
    <3>2. Cardinality(A \ {v}) \in {Cardinality(A), Cardinality(A) - 1}
      <4> HIDE DEF A, v
      <4>1. IsFiniteSet(A)
        BY <1>1 DEF A
      <4> QED BY <4>1, FS_RemoveElement
    <3> QED BY <1>1, <1>2, <2>1, <2>3, <3>1, <3>2 DEF Respaldada
  <2>5. CASE cpu.pagina[1] # p
    <3>1. EnCamino(p) = 0 /\ EnCamino(p)' = 0
      BY <2>1, <2>2, <2>5 DEF EnCamino
    <3>2. A \ {v} = A
      BY <1>9, <2>5, DesalojarCambia DEF EnMemoriaDe, PaginasDe
    <3> QED BY <2>1, <2>3, <3>1, <3>2, RespaldoSigue
  <2> QED BY <2>4, <2>5
<1>10. CASE write_page_in_memory
  <2> DEFINE g == cpu.pagina
             A == EnMemoriaDe(p)
  <2>1. process_extra_info' = process_extra_info /\ cpu.pc = "cargar"
    BY <1>10 DEF write_page_in_memory
  <2>2. cpu'.pc = "marcar"
    BY <1>10, CargarCambia DEF TypeOK
  <2>3. g \in PaginasDe(g[1]) /\ ~ pagina[g].P /\ pagina'[g].P
        /\ \A h \in Paginas : h # g => pagina'[h] = pagina[h]
    BY <1>10, CargarCambia, Constantes
  <2>4. CASE g[1] = p
    <3>1. EnCamino(p) = 1 /\ EnCamino(p)' = 0
      BY <2>1, <2>2, <2>4 DEF EnCamino
    <3>2. EnMemoriaDe(p)' = A \cup {g} /\ g \notin A
      BY <2>3, <2>4 DEF EnMemoriaDe, PaginasDe
    <3>3. Cardinality(A \cup {g}) = Cardinality(A) + 1
      <4>1. IsFiniteSet(A) /\ g \notin A
        BY <1>1, <3>2
      <4> HIDE DEF A, g
      <4> QED BY <4>1, FS_AddElement
    <3> QED BY <1>1, <1>2, <2>1, <3>1, <3>2, <3>3 DEF Respaldada
  <2>5. CASE g[1] # p
    <3>1. EnCamino(p) = 0 /\ EnCamino(p)' = 0
      BY <2>1, <2>2, <2>5 DEF EnCamino
    <3>2. EnMemoriaDe(p)' = A
      BY <2>3, <2>5 DEF EnMemoriaDe, PaginasDe
    <3> QED BY <2>1, <3>1, <3>2, RespaldoSigue
  <2> QED BY <2>4, <2>5
<1> QED BY <1>4, <1>5, <1>6, <1>7, <1>8, <1>9, <1>10 DEF process_cpu_functions

\* Every step keeps the counts backed.
LEMMA VictimaSigue ==
  ASSUME TypeOK, PedidosInv, CpuInv, VictimaInv, [Next]_vars
  PROVE  VictimaInv'
<1> DEFINE Cola(q) == \A i \in DOMAIN q : q[i].op = "INIT" \/ q[i].pid = 1
<1>1. Salientes \subseteq {1} /\ Cola(kernel_queue)
  BY DEF VictimaInv
<1>2. ASSUME NEW p \in Procesos, NEW op \in {"INIT", "SUSPEND", "KILL"},
             op = "INIT" \/ p = 1,
             kernel_queue' = Append(kernel_queue, [op |-> op, pid |-> p])
      PROVE  Cola(kernel_queue')
  <2>1. \A i \in DOMAIN kernel_queue' :
          \/ i \in DOMAIN kernel_queue /\ kernel_queue'[i] = kernel_queue[i]
          \/ kernel_queue'[i] = [op |-> op, pid |-> p]
    BY <1>2 DEF TypeOK
  <2> QED BY <1>1, <1>2, <2>1
<1>3. ASSUME Cola(kernel_queue'), kernel' = kernel,
             process_extra_info' = process_extra_info, pagina' = pagina,
             \A p \in Procesos : EnCamino(p)' = EnCamino(p)
      PROVE  VictimaInv'
  <2>1. \A p \in Procesos : EnMemoriaDe(p)' = EnMemoriaDe(p)
    BY <1>3 DEF EnMemoriaDe
  <2>2. \A p \in Procesos : Respaldada(p) => Respaldada(p)'
    BY <1>3, <2>1, RespaldoSigue
  <2> QED BY <1>1, <1>3, <2>2 DEF VictimaInv
<1>4. ASSUME NEW p \in Procesos, PedirInit(p) \/ PedirSuspend(p) \/ PedirKill(p)
      PROVE  VictimaInv'
  <2>1. PICK op \in {"INIT", "SUSPEND", "KILL"} :
          /\ op = "INIT" \/ p \in Salientes
          /\ kernel_queue' = Append(kernel_queue, [op |-> op, pid |-> p])
    BY <1>4 DEF PedirInit, PedirSuspend, PedirKill, server_listen_ram
  <2>2. Cola(kernel_queue')
    BY <1>1, <1>2, <2>1
  <2>3. kernel' = kernel /\ process_extra_info' = process_extra_info /\ pagina' = pagina
        /\ cpu' = cpu
    BY <1>4 DEF PedirInit, PedirSuspend, PedirKill, server_listen_ram
  <2> HIDE DEF Cola
  <2> QED BY <1>3, <2>2, <2>3 DEF EnCamino
<1>5. CASE \/ \E p \in Procesos : Reanudar(p)
           \/ \E g \in Paginas, escribe \in BOOLEAN : get_frame(g, escribe)
  <2>1. kernel' = kernel /\ process_extra_info' = process_extra_info /\ pagina' = pagina
        /\ kernel_queue' = kernel_queue
    BY <1>5 DEF Reanudar, get_frame, pedidos
  <2>2. CASE \E p \in Procesos : Reanudar(p)
    <3>1. cpu' = cpu
      BY <2>2 DEF Reanudar
    <3> HIDE DEF Cola
    <3> QED BY <1>1, <1>3, <2>1, <3>1 DEF EnCamino
  <2>3. ASSUME NEW g \in Paginas, NEW escribe \in BOOLEAN, get_frame(g, escribe)
        PROVE  cpu.pc # "cargar" /\ cpu'.pc # "cargar"
    BY <2>3 DEF get_frame, TypeOK
  <2> HIDE DEF Cola
  <2> QED BY <1>1, <1>3, <1>5, <2>1, <2>2, <2>3 DEF EnCamino
<1>6. CASE process_cpu_functions
  <2>1. kernel' = kernel /\ kernel_queue' = kernel_queue
    BY <1>6 DEF process_cpu_functions, pedidos, get_frame_number_Presente,
       get_frame_number_FrameLibre, find_victim_page_to_replace, get_frame_number_Guardar,
       get_frame_number_Desalojar, write_page_in_memory, get_frame_number_Marcar,
       read_fisical_address, write_memory_data
  <2>2. \A p \in Procesos : Respaldada(p) => Respaldada(p)'
    BY <1>6, RespaldoDeLaCpu
  <2> QED BY <2>1, <2>2 DEF VictimaInv
<1>7. ASSUME NEW op \in {"INIT", "SUSPEND", "KILL"}, NEW pc \in {"esperar", "swap_entry", "free_memory"},
             Tomar(op, pc), op = "INIT" <=> pc = "esperar", pagina' = pagina, cpu' = cpu,
             process_extra_info' = process_extra_info
      PROVE  VictimaInv'
  <2>1. /\ kernel_queue[1].op = op
        /\ kernel' = [pc |-> pc, pedido |-> kernel_queue[1], n |-> 1]
        /\ \A i \in DOMAIN kernel_queue' :
             i + 1 \in DOMAIN kernel_queue /\ kernel_queue'[i] = kernel_queue[i + 1]
        /\ kernel.pc = "esperar"
    BY <1>7, TomarSigue
  <2>2. Cola(kernel_queue')
    BY <1>1, <2>1
  <2>3. 1 \in DOMAIN kernel_queue
    BY <1>7 DEF Tomar, TypeOK
  <2>4. kernel'.pc # "esperar" => kernel'.pedido.pid = 1
    BY <1>1, <1>7, <2>1, <2>3
  <2>5. \A p \in Procesos : Respaldada(p)
    BY <2>1 DEF VictimaInv
  <2>6. \A p \in Procesos : Respaldada(p)'
    <3>1. \A p \in Procesos : EnMemoriaDe(p)' = EnMemoriaDe(p) /\ EnCamino(p)' = EnCamino(p)
      BY <1>7 DEF EnMemoriaDe, EnCamino
    <3> QED BY <1>7, <2>5, <3>1, RespaldoSigue
  <2> QED BY <1>1, <2>2, <2>4, <2>6 DEF VictimaInv
<1>8. CASE process_init \/ process_suspend \/ process_kill
  BY <1>7, <1>8 DEF process_init, process_suspend, process_kill
<1>9. ASSUME kernel_queue' = kernel_queue, cpu' = cpu, kernel.pc # "esperar",
             kernel'.pedido = kernel.pedido,
             \A p \in Procesos : \/ p # 1 \/ kernel.pc \notin {"swap_entry", "liberar_frame"}
                                 \/ kernel'.pc \in {"swap_entry", "liberar_frame"}
                                 \/ process_extra_info'[p].frames_used = 0,
             \A p \in Procesos : process_extra_info'[p] = process_extra_info[p]
                                 \/ process_extra_info'[p].frames_used = 0,
             \A g \in Paginas : \/ pagina'[g].P = pagina[g].P
                                \/ g[1] = 1 /\ kernel'.pc = "swap_entry"
      PROVE  VictimaInv'
  <2>1. kernel'.pedido.pid = 1
    BY <1>9 DEF VictimaInv
  <2>2. ASSUME NEW p \in Procesos, p = 1 => kernel'.pc \notin {"swap_entry", "liberar_frame"}
        PROVE  Respaldada(p)'
    <3>1. EnMemoriaDe(p)' = EnMemoriaDe(p) /\ EnCamino(p)' = EnCamino(p)
      BY <1>9, <2>2 DEF EnMemoriaDe, PaginasDe, EnCamino
    <3>2. Cardinality(EnMemoriaDe(p)) \in Nat /\ EnCamino(p) \in {0, 1}
      BY CuentaEsNat
    <3>3. CASE process_extra_info'[p].frames_used = 0
      BY <3>1, <3>2, <3>3 DEF Respaldada
    <3>4. CASE process_extra_info'[p].frames_used # 0
      <4>1. Respaldada(p) /\ process_extra_info'[p] = process_extra_info[p]
        BY <1>9, <2>2, <3>4 DEF VictimaInv
      <4> QED BY <3>1, <4>1, RespaldoSigue
    <3> QED BY <3>3, <3>4
  <2> QED BY <1>1, <1>9, <2>1, <2>2 DEF VictimaInv
<1>10. CASE swap_second_level_entry_Liberar
  <2>1. /\ kernel_queue' = kernel_queue /\ cpu' = cpu /\ process_extra_info' = process_extra_info
        /\ kernel.pc = "liberar_frame"
        /\ kernel'.pedido = kernel.pedido /\ kernel'.pc = "swap_entry"
    BY <1>10 DEF swap_second_level_entry_Liberar, AEntradaSiguiente, TypeOK, pedidos
  <2> QED BY <1>9, <1>10, <2>1, LiberarCambia
<1>11. CASE suspend_pid_Fin
  <2>1. /\ kernel_queue' = kernel_queue /\ cpu' = cpu /\ pagina' = pagina
        /\ kernel.pc = "swap_entry" /\ kernel'.pedido = kernel.pedido
    BY <1>11 DEF suspend_pid_Fin, TypeOK, pedidos
  <2>2. kernel.pedido.pid = 1 /\ kernel.pedido.pid \in Procesos
    BY <2>1 DEF VictimaInv, PedidosInv, Pedido
  <2>3. \A p \in Procesos : IF p = 1 THEN process_extra_info'[p].frames_used = 0
                            ELSE process_extra_info'[p] = process_extra_info[p]
    BY <1>11, <2>2 DEF suspend_pid_Fin, TypeOK
  <2>4. \A p \in Procesos : \/ p # 1 \/ kernel.pc \notin {"swap_entry", "liberar_frame"}
                           \/ kernel'.pc \in {"swap_entry", "liberar_frame"}
                           \/ process_extra_info'[p].frames_used = 0
    BY <2>3
  <2>5. \A p \in Procesos : process_extra_info'[p] = process_extra_info[p]
                           \/ process_extra_info'[p].frames_used = 0
    BY <2>3
  <2>6. ASSUME NEW g \in Paginas PROVE pagina'[g].P = pagina[g].P
    BY <2>1
  <2> QED BY <1>9, <2>1, <2>4, <2>5, <2>6
<1>12. CASE \/ swap_second_level_entry \/ swap_second_level_entry_Saltear
            \/ free_memory \/ free_second_level_entry
            \/ process_suspend_Fin \/ process_kill_Fin
  <2>1. /\ kernel_queue' = kernel_queue /\ cpu' = cpu /\ pagina' = pagina
        /\ process_extra_info' = process_extra_info
    BY <1>12 DEF swap_second_level_entry, swap_second_level_entry_Saltear, free_memory,
       free_second_level_entry, process_suspend_Fin, process_kill_Fin, pedidos
  <2>2. /\ kernel.pc # "esperar" /\ kernel'.pedido = kernel.pedido
        /\ kernel.pc \in {"swap_entry", "liberar_frame"} =>
             kernel'.pc \in {"swap_entry", "liberar_frame"}
    BY <1>12 DEF swap_second_level_entry, swap_second_level_entry_Saltear, free_memory,
       free_second_level_entry, process_suspend_Fin, process_kill_Fin,
       AEntradaSiguiente, TypeOK
  <2>3. \A p \in Procesos : \/ p # 1 \/ kernel.pc \notin {"swap_entry", "liberar_frame"}
                           \/ kernel'.pc \in {"swap_entry", "liberar_frame"}
                           \/ process_extra_info'[p].frames_used = 0
    BY <2>2
  <2>4. \A p \in Procesos : process_extra_info'[p] = process_extra_info[p]
                           \/ process_extra_info'[p].frames_used = 0
    BY <2>1
  <2>5. ASSUME NEW g \in Paginas PROVE pagina'[g].P = pagina[g].P
    BY <2>1
  <2> QED BY <1>9, <2>1, <2>2, <2>3, <2>4, <2>5
<1>13. CASE UNCHANGED vars
  <2> HIDE DEF Cola
  <2> QED BY <1>1, <1>3, <1>13 DEF vars, pedidos, EnCamino
<1> QED
  BY <1>4, <1>5, <1>6, <1>8, <1>10, <1>11, <1>12, <1>13
  DEF Next, Entorno, process_kernel_functions, process_kernel_salida

\* Nothing has a page in memory at the start, nor counts a frame.
LEMMA VictimaInicial ==
  ASSUME Init, Salientes \subseteq {1}
  PROVE  VictimaInv
<1>1. ASSUME NEW p \in Procesos PROVE Respaldada(p)
  <2>1. TypeOK
    BY IInvInicial DEF IInv
  <2>2. process_extra_info[p].frames_used = 0
    BY DEF Init
  <2> QED BY <2>1, <2>2, CuentaEsNat DEF Respaldada
<1> QED BY <1>1 DEF VictimaInv, Init

\* When a victim is looked for, the pointer of the clock is inside the list.
LEMMA VictimaEsta ==
  ASSUME TypeOK, PedidosInv, CpuInv, VictimaInv
  PROVE  VictimaDisponible
<1> SUFFICES ASSUME BuscaVictima PROVE PunteroEnLista
  BY DEF VictimaDisponible
<1> DEFINE p == cpu.pagina[1]
<1>1. /\ cpu.pc = "consultar" /\ p \in Procesos /\ estado[p] = "listo"
      /\ process_extra_info[p].frames_used >= MARCOS_POR_PROCESO
  BY Constantes DEF BuscaVictima, CpuInv, extra
<1>2. p = 1 => kernel.pc \notin {"swap_entry", "liberar_frame"}
  BY <1>1 DEF PedidosInv, VictimaInv, EnEspera
<1>3. Respaldada(p) /\ EnCamino(p) = 0
  BY <1>1, <1>2 DEF VictimaInv, EnCamino
<1> HIDE DEF p
<1>4. /\ process_extra_info[p].frames_used \in Nat
      /\ Cardinality(EnMemoriaDe(p)) \in Nat
  BY <1>1, CuentaEsNat
<1>5. Len(listaEntradas(p)) = Cardinality(EnMemoriaDe(p))
  BY <1>1, ListaEntradas DEF EnMemoriaDe
<1> QED BY <1>1, <1>3, <1>4, <1>5, Constantes DEF Respaldada, PunteroEnLista, p

\* The clock's pointer never leaves the list of the pages it goes through, as
\* long as the only process suspended or ended is the first: memory goes
\* through the first one's table whoever is suspended.
THEOREM VictimaCorrecta ==
  Spec /\ Salientes \subseteq {1} => []VictimaDisponible
<1> DEFINE Inv == IInv /\ VictimaInv
<1>1. Init /\ Salientes \subseteq {1} => Inv
  BY IInvInicial, VictimaInicial
<1>2. Inv /\ [Next]_vars => Inv'
  BY TipoSigue, PedidosSiguen, CpuSigue, VictimaSigue DEF IInv
<1>3. Inv => VictimaDisponible
  BY VictimaEsta DEF IInv
<1> HIDE DEF Inv
<1> QED BY <1>1, <1>2, <1>3, PTL DEF Spec

-----------------------------------------------------------------------------
(* While nothing is suspended or ended *)

\* The kernel only initialises processes.
SinSalientes ==
  /\ Salientes = {}
  /\ kernel.pc = "esperar"
  /\ \A i \in DOMAIN kernel_queue : kernel_queue[i].op = "INIT"
  /\ \A p \in Procesos : estado[p] \in {"nuevo", "creando", "listo"}

\* A present page is of a process that runs, and has its value in its frame.
EnSuMarco ==
  \A g \in Paginas : pagina[g].P =>
    /\ estado[g[1]] = "listo"
    /\ pagina[g].frame \in ocupados
    /\ memoria[pagina[g].frame] = g

\* A page whose value is not in a frame, or was not changed there, has it in
\* swap.
Guardada ==
  \A g \in Paginas :
    estado[g[1]] = "listo" /\ ~ (pagina[g].P /\ pagina[g].M) => g \in swap

\* What the access being served knows of its page, its frame and its victim.
Acceso ==
  /\ cpu.pc = "cargar" =>
       /\ pagina[cpu.pagina].frame \in ocupados
       /\ \A g \in Paginas : pagina[g].P => pagina[g].frame # pagina[cpu.pagina].frame
  /\ cpu.pc \in {"marcar", "acceder"} => pagina[cpu.pagina].P
  /\ cpu.pc = "acceder" => /\ cpu.frame = pagina[cpu.pagina].frame
                           /\ cpu.escribe => pagina[cpu.pagina].M
  /\ cpu.pc \in {"reemplazar", "desalojar"} => pagina[cpu.victima].P
  /\ cpu.pc = "desalojar" => cpu.victima \in swap

MemInv == SinSalientes /\ EnSuMarco /\ Guardada /\ Acceso

\* The only steps left.
LEMMA SoloInicia ==
  ASSUME TypeOK, SinSalientes, [Next]_vars
  PROVE  \/ \E p \in Procesos : PedirInit(p)
         \/ \E g \in Paginas, escribe \in BOOLEAN : get_frame(g, escribe)
         \/ process_init
         \/ process_cpu_functions
         \/ UNCHANGED vars
<1>1. ~ \E p \in Procesos : PedirSuspend(p) \/ PedirKill(p) \/ Reanudar(p)
  BY DEF SinSalientes, PedirSuspend, PedirKill, Reanudar
<1>2. ~ process_suspend /\ ~ process_kill
  <2>1. ASSUME NEW op, NEW pc, Tomar(op, pc) PROVE op = "INIT"
    <3>1. 1 \in DOMAIN kernel_queue /\ Head(kernel_queue) = kernel_queue[1]
      BY <2>1 DEF Tomar, TypeOK
    <3> QED BY <2>1, <3>1 DEF Tomar, SinSalientes
  <2>2. ~ Tomar("SUSPEND", "swap_entry") /\ ~ Tomar("KILL", "free_memory")
    BY <2>1
  <2> QED BY <2>2 DEF process_suspend, process_kill
<1>3. /\ ~ swap_second_level_entry /\ ~ swap_second_level_entry_Liberar
      /\ ~ swap_second_level_entry_Saltear /\ ~ suspend_pid_Fin
      /\ ~ free_memory /\ ~ free_second_level_entry
      /\ ~ process_suspend_Fin /\ ~ process_kill_Fin
  BY DEF SinSalientes, swap_second_level_entry, swap_second_level_entry_Liberar,
     swap_second_level_entry_Saltear, suspend_pid_Fin, free_memory,
     free_second_level_entry, process_suspend_Fin, process_kill_Fin
<1> QED BY <1>1, <1>2, <1>3 DEF Next, Entorno, process_kernel_functions, process_kernel_salida

\* A step of the thread that serves the CPU does not touch the kernel's.
LEMMA CpuNoPide ==
  ASSUME process_cpu_functions \/ \E g \in Paginas, escribe \in BOOLEAN : get_frame(g, escribe)
  PROVE  estado' = estado /\ kernel_queue' = kernel_queue /\ kernel' = kernel
BY DEF process_cpu_functions, pedidos, get_frame_number_Presente,
   get_frame_number_FrameLibre, find_victim_page_to_replace, get_frame_number_Guardar,
   get_frame_number_Desalojar, write_page_in_memory, get_frame_number_Marcar,
   read_fisical_address, write_memory_data, get_frame

\* While no process may leave, no request to suspend or to end is ever made.
LEMMA SinSalientesSigue ==
  ASSUME TypeOK, PedidosInv, SinSalientes, [Next]_vars
  PROVE  SinSalientes'
<1>1. ASSUME NEW p \in Procesos, PedirInit(p) PROVE SinSalientes'
  <2>1. /\ estado' = [estado EXCEPT ![p] = "creando"] /\ kernel' = kernel
        /\ kernel_queue' = Append(kernel_queue, [op |-> "INIT", pid |-> p])
    BY <1>1 DEF PedirInit, server_listen_ram
  <2>2. \A i \in DOMAIN kernel_queue' :
          \/ i \in DOMAIN kernel_queue /\ kernel_queue'[i] = kernel_queue[i]
          \/ kernel_queue'[i] = [op |-> "INIT", pid |-> p]
    BY <2>1 DEF TypeOK
  <2>3. \A q \in Procesos : estado'[q] \in {"nuevo", "creando", "listo"}
    BY <2>1 DEF TypeOK, SinSalientes
  <2> QED BY <2>1, <2>2, <2>3 DEF SinSalientes
<1>2. CASE process_init
  <2>1. Tomar("INIT", "esperar")
        /\ estado' = [estado EXCEPT ![Head(kernel_queue).pid] = "listo"]
    BY <1>2 DEF process_init
  <2>2. /\ kernel'.pc = "esperar"
        /\ \A i \in DOMAIN kernel_queue' :
             i + 1 \in DOMAIN kernel_queue /\ kernel_queue'[i] = kernel_queue[i + 1]
    BY <2>1, TomarSigue
  <2>3. \A q \in Procesos : estado'[q] \in {"nuevo", "creando", "listo"}
    BY <2>1 DEF TypeOK, SinSalientes
  <2> QED BY <2>2, <2>3 DEF SinSalientes
<1>3. ASSUME estado' = estado, kernel_queue' = kernel_queue, kernel' = kernel
      PROVE  SinSalientes'
  BY <1>3 DEF SinSalientes
<1>4. CASE UNCHANGED vars
  BY <1>3, <1>4 DEF vars, pedidos
<1> QED BY <1>1, <1>2, <1>3, <1>4, SoloInicia, CpuNoPide

\* Present pages have different frames.
LEMMA MarcosDistintos ==
  ASSUME EnSuMarco, NEW g \in Paginas, NEW h \in Paginas, pagina[g].P, pagina[h].P,
         pagina[g].frame = pagina[h].frame
  PROVE  g = h
BY DEF EnSuMarco

\* A step that leaves the data alone.
LEMMA DatosQuietos ==
  ASSUME EnSuMarco, Guardada, estado' = estado, pagina' = pagina,
         ocupados' = ocupados, memoria' = memoria, swap' = swap
  PROVE  EnSuMarco' /\ Guardada'
BY DEF EnSuMarco, Guardada

\* A process is initialised.
LEMMA InicioSigue ==
  ASSUME TypeOK, PedidosInv, CpuInv, MemInv,
         process_init \/ \E p \in Procesos : PedirInit(p)
  PROVE  EnSuMarco' /\ Guardada' /\ Acceso'
<1>1. ASSUME NEW p \in Procesos, PedirInit(p) PROVE EnSuMarco' /\ Guardada' /\ Acceso'
  <2>1. /\ estado' = [estado EXCEPT ![p] = "creando"] /\ estado[p] = "nuevo"
        /\ cpu' = cpu /\ pagina' = pagina /\ ocupados' = ocupados
        /\ memoria' = memoria /\ swap' = swap
    BY <1>1 DEF PedirInit, server_listen_ram, datos
  <2>2. \A q \in Procesos : estado'[q] = "listo" <=> estado[q] = "listo"
    BY <2>1 DEF TypeOK
  <2>3. \A g \in Paginas : g[1] \in Procesos
    BY Constantes
  <2> QED BY <2>1, <2>2, <2>3 DEF MemInv, EnSuMarco, Guardada, Acceso
<1>2. CASE process_init
  <2> DEFINE p == Head(kernel_queue).pid
  <2>1. /\ estado' = [estado EXCEPT ![p] = "listo"]
        /\ swap' = swap \cup PaginasDe(p)
        /\ cpu' = cpu /\ pagina' = pagina /\ ocupados' = ocupados
        /\ memoria' = memoria
    BY <1>2 DEF process_init
  <2> HIDE DEF p
  <2>2. \A q \in Procesos : estado[q] = "listo" => estado'[q] = "listo"
    BY <2>1 DEF TypeOK
  <2>3. \A q \in Procesos : estado'[q] = "listo" => estado[q] = "listo" \/ q = p
    BY <2>1 DEF TypeOK
  <2>4. \A g \in Paginas : g[1] \in Procesos /\ g \in PaginasDe(g[1])
    BY Constantes
  <2>5. EnSuMarco'
    BY <2>1, <2>2, <2>4 DEF MemInv, EnSuMarco
  <2>6. Guardada'
    BY <2>1, <2>3, <2>4 DEF MemInv, Guardada
  <2>7. Acceso'
    BY <2>1 DEF MemInv, Acceso
  <2> QED BY <2>5, <2>6, <2>7
<1> QED BY <1>1, <1>2

\* An access is asked for, and its page is looked for.
LEMMA PedidoSigue ==
  ASSUME TypeOK, CpuInv, MemInv,
         \/ \E g \in Paginas, escribe \in BOOLEAN : get_frame(g, escribe)
         \/ get_frame_number_Presente \/ read_fisical_address
  PROVE  EnSuMarco' /\ Guardada' /\ Acceso'
<1>1. /\ estado' = estado /\ pagina' = pagina /\ ocupados' = ocupados
      /\ memoria' = memoria /\ swap' = swap
  BY DEF get_frame, get_frame_number_Presente, read_fisical_address, pedidos, datos
<1>2. EnSuMarco' /\ Guardada'
  BY <1>1, DatosQuietos DEF MemInv
<1>3. CASE get_frame_number_Presente
  <2>1. cpu'.pc = "marcar" /\ cpu'.pagina = cpu.pagina /\ pagina[cpu.pagina].P
    BY <1>3 DEF get_frame_number_Presente, CpuPasa, TypeOK
  <2> QED BY <1>1, <1>2, <2>1 DEF Acceso
<1>4. ASSUME NEW g \in Paginas, NEW escribe \in BOOLEAN, get_frame(g, escribe)
      PROVE  Acceso'
  <2>1. cpu'.pc = "consultar"
    BY <1>4 DEF get_frame, TypeOK
  <2> QED BY <2>1 DEF Acceso
<1>5. CASE read_fisical_address
  <2>1. cpu'.pc = "esperar"
    BY <1>5 DEF read_fisical_address, Responde, TypeOK
  <2> QED BY <1>2, <2>1 DEF Acceso
<1> QED BY <1>2, <1>3, <1>4, <1>5

\* A frame is taken for the page.
LEMMA MarcoLibreSigue ==
  ASSUME TypeOK, CpuInv, MemInv, get_frame_number_FrameLibre
  PROVE  EnSuMarco' /\ Guardada' /\ Acceso'
<1>1. estado' = estado /\ memoria' = memoria /\ swap' = swap
  BY DEF get_frame_number_FrameLibre, pedidos, datos
<1>2. PICK f \in Frames \ ocupados :
        /\ ocupados' = ocupados \cup {f}
        /\ pagina'[cpu.pagina].frame = f
        /\ pagina'[cpu.pagina].P = pagina[cpu.pagina].P
        /\ pagina'[cpu.pagina].M = pagina[cpu.pagina].M
        /\ \A g \in Paginas : g # cpu.pagina => pagina'[g] = pagina[g]
        /\ cpu.pagina \in Paginas /\ ~ pagina[cpu.pagina].P
        /\ cpu' = [cpu EXCEPT !.pc = "cargar"]
  BY MarcoLibreCambia
<1>3. cpu'.pc = "cargar" /\ cpu'.pagina = cpu.pagina
  BY <1>2 DEF TypeOK
<1>4. EnSuMarco'
  BY <1>1, <1>2 DEF MemInv, EnSuMarco
<1>5. Guardada'
  BY <1>1, <1>2 DEF MemInv, Guardada
<1>6. \A g \in Paginas : pagina'[g].P => pagina'[g].frame \in ocupados
  BY <1>2 DEF MemInv, EnSuMarco
<1>7. Acceso'
  BY <1>2, <1>3, <1>6 DEF Acceso
<1> QED BY <1>4, <1>5, <1>7

\* A victim is chosen.
LEMMA BusquedaSigue ==
  ASSUME TypeOK, CpuInv, MemInv, find_victim_page_to_replace
  PROVE  EnSuMarco' /\ Guardada' /\ Acceso'
<1>1. estado' = estado /\ memoria' = memoria /\ swap' = swap /\ ocupados' = ocupados
  BY DEF find_victim_page_to_replace, pedidos, datos
<1>2. cpu.pagina \in Paginas
  BY DEF find_victim_page_to_replace, BuscaVictima, CpuInv
<1>3. /\ \A g \in Paginas : /\ pagina'[g].frame = pagina[g].frame
                            /\ pagina'[g].P = pagina[g].P
                            /\ pagina'[g].M = pagina[g].M
      /\ cpu' = [cpu EXCEPT !.pc = "reemplazar", !.victima = cpu'.victima]
      /\ cpu'.victima \in PaginasDe(cpu.pagina[1])
      /\ pagina[cpu'.victima].P
  BY <1>2, VictimaElegida
<1>4. cpu'.pc = "reemplazar" /\ cpu'.victima \in Paginas
  BY <1>3 DEF TypeOK, PaginasDe
<1>5. EnSuMarco'
  BY <1>1, <1>3 DEF MemInv, EnSuMarco
<1>6. Guardada'
  BY <1>1, <1>3 DEF MemInv, Guardada
<1>7. Acceso'
  BY <1>3, <1>4 DEF Acceso
<1> QED BY <1>5, <1>6, <1>7

\* A modified victim is saved.
LEMMA GuardarSigue ==
  ASSUME TypeOK, CpuInv, MemInv, get_frame_number_Guardar
  PROVE  EnSuMarco' /\ Guardada' /\ Acceso'
<1>1. /\ estado' = estado /\ memoria' = memoria /\ ocupados' = ocupados
      /\ pagina' = pagina /\ cpu' = [cpu EXCEPT !.pc = "desalojar"]
      /\ swap' = IF memoria[pagina[cpu.victima].frame] = cpu.victima
                   THEN swap \cup {cpu.victima} ELSE swap \ {cpu.victima}
      /\ cpu.pc = "reemplazar"
  BY DEF get_frame_number_Guardar, CpuPasa, write_frame_in_swap, pedidos
<1>2. cpu.victima \in Paginas /\ pagina[cpu.victima].P
  BY <1>1 DEF MemInv, Acceso, CpuInv, PaginasDe
<1>3. swap' = swap \cup {cpu.victima}
  BY <1>1, <1>2 DEF MemInv, EnSuMarco
<1>4. cpu'.pc = "desalojar" /\ cpu'.victima = cpu.victima
  BY <1>1 DEF TypeOK
<1>5. EnSuMarco'
  BY <1>1 DEF MemInv, EnSuMarco
<1>6. Guardada'
  BY <1>1, <1>3 DEF MemInv, Guardada
<1>7. Acceso'
  BY <1>1, <1>2, <1>3, <1>4 DEF Acceso
<1> QED BY <1>5, <1>6, <1>7

\* The victim gives its frame to the page.
LEMMA DesalojarSigue ==
  ASSUME TypeOK, CpuInv, MemInv, get_frame_number_Desalojar
  PROVE  EnSuMarco' /\ Guardada' /\ Acceso'
<1> DEFINE v == cpu.victima
<1>1. /\ estado' = estado /\ memoria' = memoria /\ swap' = swap /\ ocupados' = ocupados
      /\ cpu.pc \in {"reemplazar", "desalojar"}
      /\ cpu.pc = "desalojar" \/ ~ pagina[v].M
  BY DEF get_frame_number_Desalojar, pedidos, datos
<1>2. /\ pagina'[cpu.pagina].frame = pagina[v].frame
      /\ ~ pagina'[cpu.pagina].P /\ ~ pagina'[v].P
      /\ \A g \in Paginas : g # cpu.pagina /\ g # v => pagina'[g] = pagina[g]
      /\ cpu.pagina \in Paginas /\ v \in PaginasDe(cpu.pagina[1])
      /\ ~ pagina[cpu.pagina].P
      /\ cpu' = [cpu EXCEPT !.pc = "cargar"]
  BY DesalojarCambia
<1>3. cpu'.pc = "cargar" /\ cpu'.pagina = cpu.pagina
  BY <1>2 DEF TypeOK
<1>4. v \in Paginas /\ pagina[v].P /\ estado[v[1]] = "listo"
  BY <1>1, <1>2 DEF MemInv, Acceso, CpuInv, PaginasDe
<1>5. v \in swap /\ cpu.pagina \in swap
  BY <1>1, <1>2, <1>4 DEF MemInv, Acceso, Guardada, CpuInv
<1>6. EnSuMarco'
  BY <1>1, <1>2 DEF MemInv, EnSuMarco
<1>7. Guardada'
  BY <1>1, <1>2, <1>5 DEF MemInv, Guardada
<1>8. pagina[v].frame \in ocupados
  BY <1>4 DEF MemInv, EnSuMarco
<1>9. ASSUME NEW g \in Paginas, pagina'[g].P
      PROVE  pagina'[g].frame # pagina'[cpu.pagina].frame
  <2>1. g # cpu.pagina /\ g # v /\ pagina[g].P /\ pagina'[g] = pagina[g]
    BY <1>2, <1>9
  <2> QED BY <1>2, <1>4, <2>1, MarcosDistintos DEF MemInv
<1>10. Acceso'
  BY <1>1, <1>2, <1>3, <1>8, <1>9 DEF Acceso
<1> QED BY <1>6, <1>7, <1>10

\* The page is brought into its frame.
LEMMA CargarSigue ==
  ASSUME TypeOK, CpuInv, MemInv, write_page_in_memory
  PROVE  EnSuMarco' /\ Guardada' /\ Acceso'
<1> DEFINE g == cpu.pagina
           f == pagina[g].frame
<1>1. /\ estado' = estado /\ ocupados' = ocupados /\ swap' = swap
      /\ memoria' = [memoria EXCEPT ![f] = IF g \in swap THEN g ELSE NADA]
      /\ cpu.pc = "cargar"
  BY DEF write_page_in_memory, read_page_in_swap, pedidos
<1>2. /\ pagina'[g].frame = f /\ pagina'[g].P /\ pagina'[g].M = pagina[g].M
      /\ \A h \in Paginas : h # g => pagina'[h] = pagina[h]
      /\ g \in Paginas /\ ~ pagina[g].P
      /\ cpu' = [cpu EXCEPT !.pc = "marcar"]
  BY CargarCambia
<1>3. cpu'.pc = "marcar" /\ cpu'.pagina = g
  BY <1>2 DEF TypeOK
<1>4. estado[g[1]] = "listo" /\ g \in swap
  BY <1>1, <1>2 DEF MemInv, Guardada, CpuInv
<1>5. /\ f \in ocupados /\ f \in Frames
      /\ \A h \in Paginas : pagina[h].P => pagina[h].frame # f
  BY <1>1 DEF MemInv, Acceso, TypeOK
<1>6. memoria'[f] = g /\ \A e \in Frames : e # f => memoria'[e] = memoria[e]
  BY <1>1, <1>4, <1>5 DEF TypeOK
<1>7. EnSuMarco'
  <2>1. ocupados \subseteq Frames
    BY DEF TypeOK
  <2> HIDE DEF f, g
  <2> QED BY <1>1, <1>2, <1>4, <1>5, <1>6, <2>1 DEF MemInv, EnSuMarco
<1>8. Guardada'
  BY <1>1, <1>2, <1>4 DEF MemInv, Guardada
<1>9. Acceso'
  BY <1>2, <1>3 DEF Acceso
<1> QED BY <1>7, <1>8, <1>9

\* The page is marked as used, and as modified if it will be.
LEMMA MarcarSigue ==
  ASSUME TypeOK, CpuInv, MemInv, get_frame_number_Marcar
  PROVE  EnSuMarco' /\ Guardada' /\ Acceso'
<1>1. /\ estado' = estado /\ memoria' = memoria /\ swap' = swap /\ ocupados' = ocupados
      /\ cpu.pc = "marcar"
  BY DEF get_frame_number_Marcar, pedidos, datos
<1>2. /\ \A g \in Paginas : /\ pagina'[g].frame = pagina[g].frame
                            /\ pagina'[g].P = pagina[g].P
      /\ \A g \in Paginas : g # cpu.pagina => pagina'[g] = pagina[g]
      /\ pagina'[cpu.pagina].M = (pagina[cpu.pagina].M \/ cpu.escribe)
      /\ cpu.pagina \in Paginas
      /\ cpu' = [cpu EXCEPT !.pc = "acceder", !.frame = pagina[cpu.pagina].frame]
  BY MarcarCambia
<1>3. /\ cpu'.pc = "acceder" /\ cpu'.pagina = cpu.pagina /\ cpu'.escribe = cpu.escribe
      /\ cpu'.frame = pagina[cpu.pagina].frame
  BY <1>2 DEF TypeOK
<1>4. EnSuMarco'
  BY <1>1, <1>2 DEF MemInv, EnSuMarco
<1>5. Guardada'
  <2>1. \A g \in Paginas : pagina[g].M => pagina'[g].M
    BY <1>2
  <2> QED BY <1>1, <1>2, <2>1 DEF MemInv, Guardada
<1>6. Acceso'
  BY <1>1, <1>2, <1>3 DEF MemInv, Acceso
<1> QED BY <1>4, <1>5, <1>6

\* The page is written to.
LEMMA EscribirSigue ==
  ASSUME TypeOK, CpuInv, MemInv, write_memory_data
  PROVE  EnSuMarco' /\ Guardada' /\ Acceso'
<1> DEFINE g == cpu.pagina
<1>1. /\ estado' = estado /\ ocupados' = ocupados /\ pagina' = pagina
      /\ memoria' = [f \in Frames |-> IF f = cpu.frame THEN g
                                      ELSE IF memoria[f] = g THEN NADA ELSE memoria[f]]
      /\ swap' = swap \ {g}
      /\ cpu.pc = "acceder" /\ cpu.escribe
  BY DEF write_memory_data, pedidos
<1>2. cpu'.pc = "esperar"
  BY DEF write_memory_data, Responde, TypeOK
<1>3. /\ g \in Paginas /\ pagina[g].P /\ pagina[g].M /\ cpu.frame = pagina[g].frame
  BY <1>1 DEF MemInv, Acceso, CpuInv
<1>4. EnSuMarco'
  <2>1. \A h \in Paginas : pagina[h].P => /\ pagina[h].frame \in Frames
                                          /\ memoria[pagina[h].frame] = h
    BY DEF MemInv, EnSuMarco, TypeOK
  <2>2. ASSUME NEW h \in Paginas, pagina[h].P PROVE memoria'[pagina[h].frame] = h
    <3>1. CASE h = g
      BY <1>1, <1>3, <2>1, <2>2, <3>1
    <3>2. CASE h # g
      <4>1. pagina[h].frame # cpu.frame /\ memoria[pagina[h].frame] # g
        BY <1>3, <2>1, <2>2, <3>2
      <4> QED BY <1>1, <2>1, <2>2, <4>1
    <3> QED BY <3>1, <3>2
  <2> QED BY <1>1, <2>2 DEF MemInv, EnSuMarco
<1>5. Guardada'
  BY <1>1, <1>3 DEF MemInv, Guardada
<1>6. Acceso'
  BY <1>2 DEF Acceso
<1> QED BY <1>4, <1>5, <1>6

\* Every step keeps the invariant about the contents of memory.
LEMMA MemSigue ==
  ASSUME TypeOK, PedidosInv, CpuInv, MemInv, [Next]_vars
  PROVE  MemInv'
<1>1. SinSalientes'
  BY SinSalientesSigue DEF MemInv
<1>2. CASE UNCHANGED vars
  <2>1. /\ estado' = estado /\ pagina' = pagina /\ ocupados' = ocupados
        /\ memoria' = memoria /\ swap' = swap /\ cpu' = cpu
    BY <1>2 DEF vars, pedidos, datos
  <2> QED BY <1>1, <2>1, DatosQuietos DEF MemInv, Acceso
<1>3. CASE process_cpu_functions
  <2>1. EnSuMarco' /\ Guardada' /\ Acceso'
    BY <1>3, PedidoSigue, MarcoLibreSigue, BusquedaSigue, GuardarSigue, DesalojarSigue,
       CargarSigue, MarcarSigue, EscribirSigue DEF process_cpu_functions
  <2> QED BY <1>1, <2>1 DEF MemInv
<1> QED BY <1>1, <1>2, <1>3, SoloInicia, InicioSigue, PedidoSigue DEF MemInv

\* It holds at the start: memory is empty.
LEMMA MemInicial ==
  ASSUME Init, Salientes = {}
  PROVE  MemInv
<1>1. /\ \A g \in Paginas : ~ pagina[g].P /\ g[1] \in Procesos
      /\ \A p \in Procesos : estado[p] = "nuevo"
      /\ kernel.pc = "esperar" /\ cpu.pc = "esperar" /\ kernel_queue = <<>>
  BY Constantes DEF Init, PaginaInicial
<1> QED BY <1>1 DEF MemInv, SinSalientes, EnSuMarco, Guardada, Acceso

\* While nothing ends, every present page is of a live process.
LEMMA PresentesEs ==
  ASSUME TypeOK, MemInv
  PROVE  Presentes = {g \in Paginas : pagina[g].P}
BY Constantes DEF Presentes, Vivas, MemInv, EnSuMarco

\* Under it a present page has its value in its frame,
LEMMA EnMemoriaEs ==
  ASSUME TypeOK, MemInv
  PROVE  PresenteEnMemoria
BY PresentesEs DEF PresenteEnMemoria, MemInv, EnSuMarco

\* a page absent from its slot is in some frame,
LEMMA NadaPerdido ==
  ASSUME TypeOK, MemInv
  PROVE  SinDatosPerdidos
<1> SUFFICES ASSUME NEW g \in Vivas, g \notin swap
             PROVE  \E f \in Frames : memoria[f] = g
  BY DEF SinDatosPerdidos
<1>1. g \in Paginas /\ estado[g[1]] = "listo"
  BY Constantes DEF Vivas, MemInv, SinSalientes
<1>2. pagina[g].P
  BY <1>1 DEF MemInv, Guardada
<1> QED BY <1>1, <1>2 DEF MemInv, EnSuMarco, TypeOK

\* and the busy frames are those of the present pages.
LEMMA MarcosContados ==
  ASSUME TypeOK, PedidosInv, CpuInv, MemInv, SinFugaDeFrames
  PROVE  FramesExactos
<1> DEFINE A == {g \in Paginas : pagina[g].P}
           B == {pagina[g].frame : g \in A}
<1>1. Presentes = A
  BY PresentesEs
<1>2. B \subseteq ocupados /\ EnTransito \subseteq ocupados
  BY DEF MemInv, EnSuMarco, Acceso, EnTransito
<1>3. ocupados = B \cup EnTransito
  BY <1>2 DEF SinFugaDeFrames
<1>4. IsFiniteSet(Frames)
  BY Constantes, FS_Interval DEF Frames
<1>5. IsFiniteSet(B)
  <2>1. B \subseteq Frames
    BY <1>2 DEF TypeOK
  <2> HIDE DEF B
  <2> QED BY <1>4, <2>1, FS_Subset
<1>6. IsFiniteSet(A) /\ Cardinality(A) = Cardinality(B)
  <2> DEFINE m == [g \in A |-> pagina[g].frame]
             n == [f \in B |-> CHOOSE g \in A : pagina[g].frame = f]
  <2>1. \A g, h \in A : pagina[g].frame = pagina[h].frame => g = h
    BY MarcosDistintos DEF MemInv
  <2>2. n \in Bijection(B, A)
    <3>1. \A f \in B : n[f] \in A /\ pagina[n[f]].frame = f
      OBVIOUS
    <3>2. \A g \in A : pagina[g].frame \in B /\ n[pagina[g].frame] = g
      BY <2>1, <3>1
    <3>3. n \in [B -> A]
      BY <3>1
    <3> HIDE DEF n, A, B
    <3> QED BY <3>1, <3>2, <3>3
            DEF Bijection, Injection, Surjection, IsInjective
  <2> HIDE DEF A, B, n
  <2>3. ExistsBijection(B, A)
    BY <2>2 DEF ExistsBijection
  <2> QED BY <1>5, <2>3, FS_Bijection
<1>7. /\ IsFiniteSet(EnTransito) /\ B \cap EnTransito = {}
      /\ Cardinality(EnTransito) \in Nat
  <2>1. IsFiniteSet(EnTransito)
    BY FS_Singleton, FS_EmptySet DEF EnTransito
  <2>2. B \cap EnTransito = {}
    BY DEF EnTransito, MemInv, Acceso
  <2> QED BY <2>1, <2>2, FS_CardinalityType
<1>8. Cardinality(B \cup EnTransito) = Cardinality(B) + Cardinality(EnTransito)
  <2> DEFINE T == EnTransito
  <2>1. IsFiniteSet(T) /\ B \cap T = {} /\ Cardinality(T) \in Nat
    BY <1>7
  <2> HIDE DEF B, T
  <2>2. Cardinality(B \cup T) = Cardinality(B) + Cardinality(T) - Cardinality(B \cap T)
    BY <1>5, <2>1, FS_Union
  <2>3. Cardinality(B \cap T) = 0 /\ Cardinality(B) \in Nat
    BY <1>5, <2>1, FS_EmptySet, FS_CardinalityType
  <2>4. Cardinality(B \cup T) = Cardinality(B) + Cardinality(T)
    BY <2>1, <2>2, <2>3
  <2> QED BY <2>4 DEF T
<1> QED BY <1>1, <1>3, <1>6, <1>8 DEF FramesExactos

\* What the invariant of the accesses is kept with.
MemoriaInv == IInv /\ SinFugaDeFrames /\ MemInv

\* The whole invariant holds at the start
LEMMA MemoriaInvInicial ==
  Init /\ Salientes = {} => MemoriaInv
<1>1. Init => SinFugaDeFrames
  BY DEF Init, SinFugaDeFrames
<1> QED BY <1>1, IInvInicial, MemInicial DEF MemoriaInv

\* and every step keeps it.
LEMMA MemoriaInvSigue ==
  MemoriaInv /\ [Next]_vars => MemoriaInv'
BY TipoSigue, PedidosSiguen, CpuSigue, SinFugaSigue, MemSigue DEF MemoriaInv, IInv

\* While nothing is suspended or ended, a page with the presence bit set has
\* its latest value in its frame, through every replacement and every other
\* process's access.
THEOREM PresenteCorrecto == Spec /\ Salientes = {} => []PresenteEnMemoria
<1>1. MemoriaInv => PresenteEnMemoria
  BY EnMemoriaEs DEF MemoriaInv, IInv
<1> QED BY MemoriaInvInicial, MemoriaInvSigue, <1>1, PTL DEF Spec

\* While nothing is suspended or ended, no value written is lost: a victim is
\* never thrown away before its changes are in the swap file.
THEOREM DatosCorrectos == Spec /\ Salientes = {} => []SinDatosPerdidos
<1>1. MemoriaInv => SinDatosPerdidos
  BY NadaPerdido DEF MemoriaInv, IInv
<1> QED BY MemoriaInvInicial, MemoriaInvSigue, <1>1, PTL DEF Spec

\* While nothing is suspended or ended, the frames occupied are as many as the
\* pages in memory and the one on its way, each with a frame of its own.
THEOREM FramesCorrectos == Spec /\ Salientes = {} => []FramesExactos
<1>1. MemoriaInv => FramesExactos
  BY MarcosContados DEF MemoriaInv, IInv
<1> QED BY MemoriaInvInicial, MemoriaInvSigue, <1>1, PTL DEF Spec
=============================================================================
