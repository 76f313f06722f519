-------------------------- MODULE MemoriaMmuProofs --------------------------
(***************************************************************************)
(* The theorems about Paginacion and MemoriaMmu.  For any size of page and *)
(* of table, any number of processes and any sizes, the way the CPU goes   *)
(* through the tables leads to the page of the address, and every swap     *)
(* slot is in its file; the TLB never holds a page twice; the RAM and the  *)
(* CPU together walk those tables; and, when nothing is suspended and no   *)
(* process has more pages than frames, every access of the CPU reaches the *)
(* byte of its address.                                                    *)
(***************************************************************************)
EXTENDS MemoriaMmu, MemoriaProofs, SequenceTheorems

-----------------------------------------------------------------------------
(* Quotients and remainders *)

\* A number is its quotient and its remainder.
LEMMA Division ==
  ASSUME NEW a \in Nat, NEW b \in Nat \ {0}
  PROVE  /\ a \div b \in Nat /\ a % b \in 0 .. b - 1
         /\ a = ((a \div b) * b) + (a % b)
OBVIOUS

\* And there is only one way to write it so.
LEMMA DivisionUnica ==
  ASSUME NEW b \in Nat \ {0}, NEW q \in Nat, NEW r \in 0 .. b - 1
  PROVE  ((q * b) + r) \div b = q /\ ((q * b) + r) % b = r
OBVIOUS

\* A whole number of blocks more, when there is one more block.
LEMMA Monotonia ==
  ASSUME NEW q \in Nat, NEW r \in Nat, NEW b \in Nat, q < r
  PROVE  (q * b) + b <= r * b
<1>1. PICK k \in Nat : r = q + 1 + k
  <2> WITNESS r - q - 1 \in Nat
  <2> QED OBVIOUS
<1>2. r * b = (q * b) + b + (k * b)
  BY <1>1
<1>3. k * b \in Nat /\ q * b \in Nat
  OBVIOUS
<1> QED BY <1>2, <1>3

\* A function from 1 to n is a sequence of n elements.
LEMMA SecuenciaDe ==
  ASSUME NEW S, NEW n \in Nat, NEW f \in [1 .. n -> S]
  PROVE  f \in Seq(S) /\ Len(f) = n /\ DOMAIN f = 1 .. n
<1>1. f = [i \in 1 .. n |-> f[i]] /\ \A i \in 1 .. n : f[i] \in S
  OBVIOUS
<1>2. f \in Seq(S)
  <2>1. [i \in 1 .. n |-> f[i]] \in Seq(S)
    BY <1>1, IsASeq
  <2> QED BY <2>1, <1>1
<1>3. Len(f) \in Nat /\ DOMAIN f = 1 .. Len(f)
  BY <1>2, LenProperties
<1> QED BY <1>2, <1>3

\* Element i of the second of two sequences, in both.
LEMMA ConcatSegunda ==
  ASSUME NEW S, NEW s1 \in Seq(S), NEW s2 \in Seq(S), NEW i \in 1 .. Len(s2)
  PROVE  /\ Len(s1) + i \in 1 .. Len(s1) + Len(s2)
         /\ (s1 \o s2)[Len(s1) + i] = s2[i]
<1>1. Len(s1) \in Nat /\ Len(s2) \in Nat
  BY LenProperties
<1>2. /\ Len(s1) + i \in 1 .. Len(s1) + Len(s2)
      /\ ~(Len(s1) + i <= Len(s1)) /\ (Len(s1) + i) - Len(s1) = i
  BY <1>1
<1> QED BY <1>2, ConcatProperties

-----------------------------------------------------------------------------
(* The pages and the tables of one process *)

\* The pages of a process are a number, and hold every byte of it
\* (process_total_pages_needed rounds up).
LEMMA PaginasAlcanzan ==
  ASSUME NEW size \in Nat
  PROVE  /\ process_total_pages_needed(size) \in Nat
         /\ \A d \in 0 .. size - 1 :
              obtenerNumeroPagina(d) \in 0 .. process_total_pages_needed(size) - 1
<1> DEFINE T == TAM_PAGINA
           total == (size + T - 1) \div T
<1>1. T \in Nat \ {0}
  BY ConstantesPaginacion
<1>2. size + T - 1 \in Nat
  BY <1>1
<1>3. total \in Nat /\ size + T - 1 <= (total * T) + T - 1
  <2> HIDE DEF T
  <2>1. /\ (size + T - 1) \div T \in Nat /\ (size + T - 1) % T \in 0 .. T - 1
        /\ size + T - 1 = (((size + T - 1) \div T) * T) + ((size + T - 1) % T)
    BY <1>1, <1>2, Division
  <2> DEFINE q == (size + T - 1) \div T
             r == (size + T - 1) % T
  <2>2. q \in Nat /\ r \in 0 .. T - 1 /\ size + T - 1 = (q * T) + r
    BY <2>1
  <2>3. q * T \in Nat
    BY <2>2, <1>1
  <2> HIDE DEF q, r
  <2>4. size + T - 1 <= (q * T) + T - 1
    BY <2>2, <2>3, <1>1
  <2> QED BY <2>2, <2>4 DEF q
<1>4. ASSUME NEW d \in 0 .. size - 1
      PROVE  d \div T \in 0 .. total - 1
  <2> HIDE DEF T, total
  <2>1. /\ d \div T \in Nat /\ d % T \in 0 .. T - 1
        /\ d = ((d \div T) * T) + (d % T)
    <3>1. d \in Nat
      OBVIOUS
    <3> QED BY <3>1, <1>1, Division
  <2> DEFINE q == d \div T
  <2>2. q \in Nat /\ q * T <= d
    <3>1. (d \div T) * T \in Nat
      BY <2>1, <1>1
    <3> QED BY <2>1, <3>1, <1>1
  <2> HIDE DEF q
  <2>3. CASE total <= q
    <3>1. total * T <= q * T
      <4>1. CASE total = q
        <5>1. total * T \in Nat
          BY <1>1, <1>3
        <5> QED BY <4>1, <5>1
      <4>2. CASE total < q
        <5>1. (total * T) + T <= q * T
          BY <4>2, <1>1, <1>3, <2>2, Monotonia
        <5>2. total * T \in Nat /\ q * T \in Nat
          BY <1>1, <1>3, <2>2
        <5> QED BY <5>1, <5>2, <1>1
      <4> QED BY <4>1, <4>2, <2>3, <1>3, <2>2
    <3>2. total * T \in Nat /\ q * T \in Nat
      BY <1>1, <1>3, <2>2
    <3> QED BY <3>1, <3>2, <2>2, <1>1, <1>3
  <2>4. CASE q < total
    BY <2>4, <2>2, <1>3 DEF q
  <2> QED BY <2>3, <2>4, <2>2, <1>3
<1> QED BY <1>3, <1>4 DEF process_total_pages_needed, obtenerNumeroPagina

\* How many tables a process has.
CantTablas(total) ==
  (total \div ENTRADAS_POR_TABLA) + (IF total % ENTRADAS_POR_TABLA > 0 THEN 1 ELSE 0)

\* And how many pages the i-th of them has.
PaginasDeTabla(total, i) ==
  IF i <= total \div ENTRADAS_POR_TABLA THEN ENTRADAS_POR_TABLA
                                        ELSE total % ENTRADAS_POR_TABLA

\* tablasDe, table by table.
LEMMA FormaDeTablas ==
  ASSUME NEW pid, NEW total \in Nat
  PROVE  /\ CantTablas(total) \in Nat
         /\ tablasDe(pid, total) \in Seq(Seq([pid : {pid}, swap_page_id : Int]))
         /\ Len(tablasDe(pid, total)) = CantTablas(total)
         /\ DOMAIN tablasDe(pid, total) = 1 .. CantTablas(total)
         /\ \A i \in 1 .. CantTablas(total) :
              /\ PaginasDeTabla(total, i) \in Nat
              /\ DOMAIN tablasDe(pid, total)[i] = 1 .. PaginasDeTabla(total, i)
              /\ \A j \in 1 .. PaginasDeTabla(total, i) :
                   tablasDe(pid, total)[i][j]
                     = [pid |-> pid,
                        swap_page_id |-> ((i - 1) * ENTRADAS_POR_TABLA) + (j - 1)]
<1> DEFINE E == ENTRADAS_POR_TABLA
           ts == tablasDe(pid, total)
           cant == CantTablas(total)
           pags(i) == PaginasDeTabla(total, i)
<1>1. E \in Nat \ {0}
  BY ConstantesPaginacion
<1>2. total \div E \in Nat /\ total % E \in 0 .. E - 1
  BY <1>1, Division
<1>3. cant \in Nat
  BY <1>2 DEF CantTablas
<1>4. \A i \in 1 .. cant : pags(i) \in Nat
  BY <1>1, <1>2 DEF PaginasDeTabla
<1>5. ts = [i \in 1 .. cant |->
              create_second_level_table(pags(i), pid, (i - 1) * E)]
  BY DEF tablasDe, process_complete_second_level_tables, CantTablas, PaginasDeTabla
<1> HIDE DEF ts, cant, pags, E
<1>6. \A i \in 1 .. cant :
        ts[i] = [j \in 1 .. pags(i) |->
                   [pid |-> pid, swap_page_id |-> ((i - 1) * E) + (j - 1)]]
  BY <1>5 DEF create_second_level_table
<1>7. \A i \in 1 .. cant : ts[i] \in Seq([pid : {pid}, swap_page_id : Int])
  <2> SUFFICES ASSUME NEW i \in 1 .. cant
               PROVE  ts[i] \in Seq([pid : {pid}, swap_page_id : Int])
    OBVIOUS
  <2> DEFINE R == [pid : {pid}, swap_page_id : Int]
             pag(j) == [pid |-> pid, swap_page_id |-> ((i - 1) * E) + (j - 1)]
  <2>1. (i - 1) * E \in Int
    BY <1>1, <1>3
  <2>2. \A j \in 1 .. pags(i) : pag(j) \in R
    BY <2>1
  <2>a. ts[i] = [j \in 1 .. pags(i) |-> pag(j)]
    BY <1>6
  <2> HIDE DEF R, pag
  <2>3. ts[i] \in [1 .. pags(i) -> R]
    BY <2>2, <2>a
  <2> QED BY <2>3, <1>4, SecuenciaDe DEF R
<1>8. ts \in Seq(Seq([pid : {pid}, swap_page_id : Int])) /\ Len(ts) = cant
  <2>1. DOMAIN ts = 1 .. cant /\ ts = [i \in 1 .. cant |-> ts[i]]
    BY <1>5
  <2>2. ts \in [1 .. cant -> Seq([pid : {pid}, swap_page_id : Int])]
    BY <2>1, <1>7
  <2> QED BY <2>2, <1>3, SecuenciaDe
<1> QED BY <1>3, <1>4, <1>5, <1>6, <1>8 DEF ts, cant, pags, E

\* Entry r of table q of a process, both counted from 0.
LEMMA EntradaDeTablas ==
  ASSUME NEW pid, NEW total \in Nat, NEW q \in Nat, NEW r \in Nat,
         q + 1 \in 1 .. CantTablas(total),
         r + 1 \in 1 .. PaginasDeTabla(total, q + 1)
  PROVE  tablasDe(pid, total)[q + 1][r + 1]
           = [pid |-> pid, swap_page_id |-> (q * ENTRADAS_POR_TABLA) + r]
<1>1. tablasDe(pid, total)[q + 1][r + 1]
        = [pid |-> pid,
           swap_page_id |-> (((q + 1) - 1) * ENTRADAS_POR_TABLA) + ((r + 1) - 1)]
  BY FormaDeTablas
<1>2. (q + 1) - 1 = q /\ (r + 1) - 1 = r
  OBVIOUS
<1> QED BY <1>1, <1>2

\* The entries the CPU computes for page n are those of page n.
LEMMA EntradasDePagina ==
  ASSUME NEW pid, NEW total \in Nat, NEW n \in 0 .. total - 1
  PROVE  LET i == obtenerEntradaTabla1erNivel(n) + 1
             j == obtenerEntradaTabla2doNivel(n) + 1
         IN  /\ i \in DOMAIN tablasDe(pid, total)
             /\ tablasDe(pid, total)[i][j] = [pid |-> pid, swap_page_id |-> n]
<1> DEFINE E == ENTRADAS_POR_TABLA
           q == n \div E
           r == n % E
           tq == total \div E
           tr == total % E
<1>1. E \in Nat \ {0}
  BY ConstantesPaginacion
<1>2. q \in Nat /\ r \in 0 .. E - 1 /\ n = (q * E) + r
  <2>1. n \in Nat
    OBVIOUS
  <2> QED BY <2>1, <1>1, Division
<1>3. tq \in Nat /\ tr \in 0 .. E - 1 /\ total = (tq * E) + tr
  BY <1>1, Division
<1> HIDE DEF E, q, r, tq, tr
<1>4. q * E \in Nat /\ tq * E \in Nat
  BY <1>1, <1>2, <1>3
<1>5. q <= tq
  <2>1. CASE tq < q
    <3>1. (tq * E) + E <= q * E
      BY <2>1, <1>1, <1>2, <1>3, Monotonia
    <3> QED BY <3>1, <1>1, <1>2, <1>3, <1>4
  <2> QED BY <2>1, <1>2, <1>3
<1>6. q = tq => r < tr
  BY <1>2, <1>3, <1>4
<1>7. q + 1 \in 1 .. CantTablas(total) /\ r + 1 \in 1 .. PaginasDeTabla(total, q + 1)
  <2>1. CASE q < tq
    BY <2>1, <1>1, <1>2, <1>3 DEF CantTablas, PaginasDeTabla, E, tq, tr
  <2>2. CASE q = tq
    BY <2>2, <1>1, <1>2, <1>3, <1>6 DEF CantTablas, PaginasDeTabla, E, tq, tr
  <2> QED BY <2>1, <2>2, <1>5, <1>2, <1>3
<1>8. tablasDe(pid, total)[q + 1][r + 1]
        = [pid |-> pid, swap_page_id |-> (q * ENTRADAS_POR_TABLA) + r]
  BY <1>1, <1>2, <1>7, EntradaDeTablas
<1>9. (q * ENTRADAS_POR_TABLA) + r = n
  BY <1>2 DEF E
<1>10. DOMAIN tablasDe(pid, total) = 1 .. CantTablas(total)
  BY FormaDeTablas
<1> QED BY <1>7, <1>8, <1>9, <1>10
        DEF obtenerEntradaTabla1erNivel, obtenerEntradaTabla2doNivel, q, r, E

\* The slots of a process are those of its pages, from 0.
LEMMA SlotsDePaginas ==
  ASSUME NEW pid, NEW total \in Nat,
         NEW i \in DOMAIN tablasDe(pid, total),
         NEW j \in DOMAIN tablasDe(pid, total)[i]
  PROVE  /\ tablasDe(pid, total)[i][j].pid = pid
         /\ tablasDe(pid, total)[i][j].swap_page_id \in 0 .. total - 1
<1> DEFINE E == ENTRADAS_POR_TABLA
           tq == total \div E
           tr == total % E
<1>1. E \in Nat \ {0}
  BY ConstantesPaginacion
<1>2. tq \in Nat /\ tr \in 0 .. E - 1 /\ total = (tq * E) + tr
  BY <1>1, Division
<1>3. /\ i \in 1 .. CantTablas(total) /\ CantTablas(total) \in Nat
      /\ j \in 1 .. PaginasDeTabla(total, i)
      /\ tablasDe(pid, total)[i][j]
           = [pid |-> pid, swap_page_id |-> ((i - 1) * E) + (j - 1)]
  <2>1. /\ CantTablas(total) \in Nat
        /\ DOMAIN tablasDe(pid, total) = 1 .. CantTablas(total)
        /\ \A a \in 1 .. CantTablas(total) :
             /\ DOMAIN tablasDe(pid, total)[a] = 1 .. PaginasDeTabla(total, a)
             /\ \A b \in 1 .. PaginasDeTabla(total, a) :
                  tablasDe(pid, total)[a][b]
                    = [pid |-> pid, swap_page_id |-> ((a - 1) * E) + (b - 1)]
    BY FormaDeTablas DEF E
  <2>2. i \in 1 .. CantTablas(total)
    BY <2>1
  <2>3. j \in 1 .. PaginasDeTabla(total, i)
    BY <2>1, <2>2
  <2> QED BY <2>1, <2>2, <2>3
<1> HIDE DEF E, tq, tr
<1>4. tq * E \in Nat /\ (i - 1) * E \in Nat
  BY <1>1, <1>2, <1>3
<1>5. CASE i <= tq
  <2>1. j <= E
    BY <1>5, <1>3, <1>1 DEF PaginasDeTabla, E, tq
  <2>2. ((i - 1) * E) + E <= tq * E
    BY <1>5, <1>1, <1>2, <1>3, Monotonia
  <2>3. ((i - 1) * E) + (j - 1) \in 0 .. total - 1
    <3>1. j \in Nat \ {0}
      BY <1>3
    <3> QED BY <2>1, <2>2, <3>1, <1>1, <1>2, <1>4
  <2> QED BY <2>3, <1>3
<1>6. CASE i > tq
  <2>1. i = tq + 1 /\ j <= tr
    <3>1. CantTablas(total) <= tq + 1
      BY <1>2 DEF CantTablas, E, tq
    <3> QED BY <3>1, <1>6, <1>2, <1>3 DEF PaginasDeTabla, E, tq, tr
  <2>2. (i - 1) * E = tq * E
    BY <2>1, <1>2
  <2>3. ((i - 1) * E) + (j - 1) \in 0 .. total - 1
    <3>1. j \in Nat \ {0}
      BY <1>3
    <3> QED BY <2>1, <2>2, <3>1, <1>2, <1>4
  <2> QED BY <2>3, <1>3
<1> QED BY <1>5, <1>6, <1>2, <1>3

-----------------------------------------------------------------------------
(* Addresses *)

\* Whatever frame a page is in, the physical address of a byte is in that
\* frame, at the offset the byte has in its page (obtenerDesplazamiento and
\* obtenerDireccionFisica, mmu.c:222-228).
THEOREM DireccionExacta ==
  ASSUME NEW d \in Nat, NEW marco \in Nat
  PROVE  LET fisica == obtenerDireccionFisica(
                         obtenerDesplazamiento(d, obtenerNumeroPagina(d)), marco)
         IN  fisica \div TAM_PAGINA = marco /\ fisica % TAM_PAGINA = d % TAM_PAGINA
<1> DEFINE T == TAM_PAGINA
           q == d \div T
           r == d % T
<1>1. T \in Nat \ {0}
  BY ConstantesPaginacion
<1>2. q \in Nat /\ r \in 0 .. T - 1 /\ d = (q * T) + r
  BY <1>1, Division
<1>3. q * T \in Nat /\ marco * T \in Nat
  BY <1>1, <1>2
<1>4. obtenerDireccionFisica(obtenerDesplazamiento(d, obtenerNumeroPagina(d)), marco)
        = (d - (q * T)) + (marco * T)
  BY DEF obtenerDireccionFisica, obtenerDesplazamiento, obtenerNumeroPagina
<1> HIDE DEF q, r, T
<1>5. (d - (q * T)) + (marco * T) = (marco * T) + r
  BY <1>2, <1>3
<1>6. ((marco * T) + r) \div T = marco /\ ((marco * T) + r) % T = r
  BY <1>1, <1>2, DivisionUnica
<1> QED BY <1>4, <1>5, <1>6 DEF r, T

-----------------------------------------------------------------------------
(* The tables of all the processes *)

Entrada1 == [pid : DOMAIN PROCESS_SIZE, first_level_entries : Seq(Nat)]
Pagina2 == [pid : DOMAIN PROCESS_SIZE, swap_page_id : Int]
Archivo == [pid : DOMAIN PROCESS_SIZE, swap_size : Nat]

\* Type invariant of the tables.
TypeTablas ==
  /\ global_first_level_page_tables \in Seq(Entrada1)
  /\ global_second_level_page_tables \in Seq(Seq(Pagina2))
  /\ swap_files_list \in Seq(Archivo)

\* The numbers in a first-level table are those of the second-level tables
\* made for its process, in their order.
TablasPropias ==
  \A t \in DOMAIN global_first_level_page_tables :
    LET pid == global_first_level_page_tables[t].pid
        e == global_first_level_page_tables[t].first_level_entries
        ts == tablasDe(pid, PaginasDeProceso(pid))
    IN  \A i \in DOMAIN ts :
          /\ e[i] + 1 \in DOMAIN global_second_level_page_tables
          /\ global_second_level_page_tables[e[i] + 1] = ts[i]

\* Every page has its slot and its file the size of all of them.
SlotsPropios ==
  \A t \in DOMAIN global_second_level_page_tables :
    \A i \in DOMAIN global_second_level_page_tables[t] :
      LET g == global_second_level_page_tables[t][i]
      IN  /\ g.swap_page_id \in 0 .. PaginasDeProceso(g.pid) - 1
          /\ \E a \in DOMAIN swap_files_list :
               /\ swap_files_list[a].pid = g.pid
               /\ swap_files_list[a].swap_size = get_swap_size(PROCESS_SIZE[g.pid])

IInvTablas == TypeTablas /\ TablasPropias /\ SlotsPropios

\* The number of pages of each process, and the bytes of its swap file.
LEMMA PaginasNat ==
  ASSUME NEW pid \in DOMAIN PROCESS_SIZE
  PROVE  /\ PROCESS_SIZE[pid] \in Nat /\ PaginasDeProceso(pid) \in Nat
         /\ get_swap_size(PROCESS_SIZE[pid]) = PaginasDeProceso(pid) * TAM_PAGINA
         /\ get_swap_size(PROCESS_SIZE[pid]) \in Nat
<1>1. PROCESS_SIZE[pid] \in Nat /\ TAM_PAGINA \in Nat
  BY ConstantesPaginacion
<1>2. process_total_pages_needed(PROCESS_SIZE[pid]) \in Nat
  BY <1>1, PaginasAlcanzan
<1> DEFINE n == process_total_pages_needed(PROCESS_SIZE[pid])
<1>3. n * TAM_PAGINA \in Nat
  <2> HIDE DEF n
  <2>1. n \in Nat
    BY <1>2 DEF n
  <2> QED BY <2>1, <1>1
<1> QED BY <1>1, <1>2, <1>3 DEF get_swap_size, PaginasDeProceso

\* With no process there is no table.
LEMMA TablasIniciales == InitTablas => IInvTablas
  BY DEF InitTablas, IInvTablas, TypeTablas, TablasPropias, SlotsPropios

\* A new process leaves the invariant as it was.
LEMMA PasoTablas ==
  IInvTablas /\ [NextTablas]_tablas => IInvTablas'
<1> SUFFICES ASSUME IInvTablas, [NextTablas]_tablas PROVE IInvTablas'
  OBVIOUS
<1> USE DEF IInvTablas
<1>1. CASE UNCHANGED tablas
  BY <1>1 DEF tablas, TypeTablas, TablasPropias, SlotsPropios
<1>2. ASSUME NEW pid \in DOMAIN PROCESS_SIZE, crearEstructuras(pid)
      PROVE  IInvTablas'
  <2> DEFINE primeras == global_first_level_page_tables
             segundas == global_second_level_page_tables
             archivos == swap_files_list
             total == PaginasDeProceso(pid)
             nuevas == tablasDe(pid, total)
             numeros == [i \in 1 .. Len(nuevas) |-> Len(segundas) + (i - 1)]
             primera == [pid |-> pid, first_level_entries |-> numeros]
             archivo == [pid |-> pid, swap_size |-> get_swap_size(PROCESS_SIZE[pid])]
  <2>1. total \in Nat /\ get_swap_size(PROCESS_SIZE[pid]) \in Nat
    BY PaginasNat
  <2>2. /\ primeras' = Append(primeras, primera)
        /\ segundas' = segundas \o nuevas
        /\ archivos' = Append(archivos, archivo)
    BY <1>2 DEF crearEstructuras, create_pid_memory, swap_create
  <2>3. /\ primeras \in Seq(Entrada1) /\ segundas \in Seq(Seq(Pagina2))
        /\ archivos \in Seq(Archivo)
    BY DEF TypeTablas
  <2>4. nuevas \in Seq(Seq([pid : {pid}, swap_page_id : Int]))
    BY <2>1, FormaDeTablas
  <2>5. nuevas \in Seq(Seq(Pagina2))
    <3> HIDE DEF nuevas
    <3>1. \A i \in DOMAIN nuevas : nuevas[i] \in Seq(Pagina2)
      <4> SUFFICES ASSUME NEW i \in DOMAIN nuevas PROVE nuevas[i] \in Seq(Pagina2)
        OBVIOUS
      <4>1. nuevas[i] \in Seq([pid : {pid}, swap_page_id : Int])
        BY <2>4, LenProperties, ElementOfSeq
      <4>2. nuevas[i] \in [1 .. Len(nuevas[i]) -> [pid : {pid}, swap_page_id : Int]]
            /\ Len(nuevas[i]) \in Nat
        BY <4>1, LenProperties
      <4>3. nuevas[i] \in [1 .. Len(nuevas[i]) -> Pagina2]
        BY <4>2, <1>2 DEF Pagina2
      <4> QED BY <4>2, <4>3, SecuenciaDe
    <3>2. nuevas \in [1 .. Len(nuevas) -> Seq(Pagina2)] /\ Len(nuevas) \in Nat
      <4>1. /\ nuevas \in [1 .. Len(nuevas) -> Seq([pid : {pid}, swap_page_id : Int])]
            /\ Len(nuevas) \in Nat
        BY <2>4, LenProperties
      <4> QED BY <4>1, <3>1
    <3> QED BY <3>2, SecuenciaDe
  <2> HIDE DEF nuevas
  <2>6. numeros \in Seq(Nat) /\ primera \in Entrada1 /\ archivo \in Archivo
    <3>1. Len(nuevas) \in Nat /\ Len(segundas) \in Nat
      BY <2>3, <2>5
    <3>2. numeros \in Seq(Nat)
      <4>1. \A i \in 1 .. Len(nuevas) : Len(segundas) + (i - 1) \in Nat
        BY <3>1
      <4>2. numeros \in [1 .. Len(nuevas) -> Nat]
        BY <4>1
      <4> QED BY <4>2, <3>1, SecuenciaDe
    <3> QED BY <3>2, <2>1, <1>2 DEF Entrada1, Archivo
  <2>7. TypeTablas'
    <3>1. primeras' \in Seq(Entrada1)
      BY <2>2, <2>3, <2>6, AppendProperties
    <3>2. segundas' \in Seq(Seq(Pagina2))
      BY <2>2, <2>3, <2>5, ConcatProperties
    <3>3. archivos' \in Seq(Archivo)
      BY <2>2, <2>3, <2>6, AppendProperties
    <3> QED BY <3>1, <3>2, <3>3 DEF TypeTablas
  <2> HIDE DEF primera, archivo
  <2>8. /\ DOMAIN segundas' = 1 .. Len(segundas) + Len(nuevas)
        /\ \A k \in DOMAIN segundas : k \in DOMAIN segundas' /\ segundas'[k] = segundas[k]
        /\ \A i \in DOMAIN nuevas : /\ Len(segundas) + i \in DOMAIN segundas'
                                    /\ segundas'[Len(segundas) + i] = nuevas[i]
    <3> DEFINE n == Len(segundas)
               m == Len(nuevas)
    <3>1. /\ n \in Nat /\ m \in Nat
          /\ DOMAIN segundas = 1 .. n /\ DOMAIN nuevas = 1 .. m
      BY <2>3, <2>5, LenProperties
    <3>2. /\ segundas' \in Seq(Seq(Pagina2)) /\ Len(segundas') = n + m
          /\ \A k \in 1 .. n + m :
               segundas'[k] = IF k <= n THEN segundas[k] ELSE nuevas[k - n]
      BY <2>2, <2>3, <2>5, ConcatProperties
    <3>3. DOMAIN segundas' = 1 .. n + m
      BY <3>2, LenProperties
    <3>4. \A k \in 1 .. n : k \in 1 .. n + m /\ segundas'[k] = segundas[k]
      BY <3>1, <3>2
    <3>5. \A i \in 1 .. m : n + i \in 1 .. n + m /\ segundas'[n + i] = nuevas[i]
      BY <2>2, <2>3, <2>5, <3>1, ConcatSegunda
    <3> QED BY <3>1, <3>3, <3>4, <3>5
  <2>9. TablasPropias'
    <3> SUFFICES ASSUME NEW t \in DOMAIN primeras',
                        NEW i \in DOMAIN tablasDe(primeras'[t].pid,
                                                  PaginasDeProceso(primeras'[t].pid))
                 PROVE  LET e == primeras'[t].first_level_entries
                        IN  /\ e[i] + 1 \in DOMAIN segundas'
                            /\ segundas'[e[i] + 1]
                                 = tablasDe(primeras'[t].pid,
                                            PaginasDeProceso(primeras'[t].pid))[i]
      BY DEF TablasPropias, PaginasDeProceso
    <3>1. CASE t \in DOMAIN primeras
      <4>1. primeras'[t] = primeras[t]
        BY <2>2, <2>3, <3>1
      <4> DEFINE e == primeras[t].first_level_entries
      <4>2. /\ e[i] + 1 \in DOMAIN segundas
            /\ segundas[e[i] + 1] = tablasDe(primeras[t].pid,
                                             PaginasDeProceso(primeras[t].pid))[i]
        BY <3>1, <4>1 DEF TablasPropias
      <4> QED BY <4>1, <4>2, <2>8
    <3>2. CASE t = Len(primeras) + 1
      <4>1. primeras'[t] = primera
        BY <2>2, <2>3, <3>2
      <4>2. primeras'[t].pid = pid /\ primeras'[t].first_level_entries = numeros
        BY <4>1 DEF primera
      <4>3. i \in DOMAIN nuevas
        BY <4>2 DEF nuevas
      <4>4. i \in 1 .. Len(nuevas) /\ Len(segundas) \in Nat
        BY <4>3, <2>3, <2>5
      <4>5. numeros[i] + 1 = Len(segundas) + i
        BY <4>4
      <4> QED BY <4>2, <4>3, <4>5, <2>8 DEF nuevas
    <3> QED BY <3>1, <3>2, <2>2, <2>3
  <2>10. SlotsPropios'
    <3> SUFFICES ASSUME NEW k \in DOMAIN segundas', NEW i \in DOMAIN segundas'[k]
                 PROVE  LET g == segundas'[k][i]
                        IN  /\ g.swap_page_id \in 0 .. PaginasDeProceso(g.pid) - 1
                            /\ \E a \in DOMAIN archivos' :
                                 /\ archivos'[a].pid = g.pid
                                 /\ archivos'[a].swap_size
                                      = get_swap_size(PROCESS_SIZE[g.pid])
      BY DEF SlotsPropios, PaginasDeProceso, get_swap_size
    <3>1. \A a \in DOMAIN archivos : a \in DOMAIN archivos' /\ archivos'[a] = archivos[a]
      BY <2>2, <2>3
    <3>2. Len(archivos) + 1 \in DOMAIN archivos' /\ archivos'[Len(archivos) + 1] = archivo
      BY <2>2, <2>3
    <3>3. CASE k \in DOMAIN segundas
      <4>1. segundas'[k] = segundas[k]
        BY <3>3, <2>8
      <4> QED BY <4>1, <3>1, <3>3 DEF SlotsPropios
    <3>4. CASE k \notin DOMAIN segundas
      <4>1. PICK j \in DOMAIN nuevas : k = Len(segundas) + j
        <5>1. k - Len(segundas) \in DOMAIN nuevas
          BY <3>4, <2>8, <2>3, <2>5
        <5>2. k = Len(segundas) + (k - Len(segundas))
          BY <2>8, <2>3, <2>5
        <5> QED BY <5>1, <5>2
      <4>2. segundas'[k] = nuevas[j]
        BY <4>1, <2>8
      <4>3. /\ nuevas[j][i].pid = pid
            /\ nuevas[j][i].swap_page_id \in 0 .. total - 1
        BY <4>2, <2>1, SlotsDePaginas DEF nuevas
      <4>4. archivo.pid = pid /\ archivo.swap_size = get_swap_size(PROCESS_SIZE[pid])
        BY DEF archivo
      <4> QED BY <4>2, <4>3, <4>4, <3>2
    <3> QED BY <3>3, <3>4
  <2> QED BY <2>7, <2>9, <2>10
<1> QED BY <1>1, <1>2 DEF NextTablas

\* The invariant gives both properties.
LEMMA TablasDanPropiedades == IInvTablas => TraduccionExacta /\ SlotEnArchivo
<1> SUFFICES ASSUME IInvTablas PROVE TraduccionExacta /\ SlotEnArchivo
  OBVIOUS
<1>1. TraduccionExacta
  <2> SUFFICES ASSUME NEW t \in DOMAIN global_first_level_page_tables,
                      NEW n \in 0 .. PaginasDeProceso(
                                       global_first_level_page_tables[t].pid) - 1
               PROVE  PaginaDeTabla(
                        get_second_level_page_table(t - 1, obtenerEntradaTabla1erNivel(n)),
                        obtenerEntradaTabla2doNivel(n))
                      = [pid |-> global_first_level_page_tables[t].pid,
                         swap_page_id |-> n]
    BY DEF TraduccionExacta
  <2> DEFINE pid == global_first_level_page_tables[t].pid
             e == global_first_level_page_tables[t].first_level_entries
             i == obtenerEntradaTabla1erNivel(n) + 1
             j == obtenerEntradaTabla2doNivel(n) + 1
             ts == tablasDe(pid, PaginasDeProceso(pid))
  <2>1. pid \in DOMAIN PROCESS_SIZE /\ t \in Nat
    <3>1. global_first_level_page_tables \in Seq(Entrada1)
      BY DEF IInvTablas, TypeTablas
    <3>2. t \in 1 .. Len(global_first_level_page_tables)
      BY <3>1, LenProperties
    <3>3. global_first_level_page_tables[t] \in Entrada1
      BY <3>1, <3>2, ElementOfSeq
    <3> QED BY <3>2, <3>3 DEF Entrada1
  <2>2. i \in DOMAIN ts /\ ts[i][j] = [pid |-> pid, swap_page_id |-> n]
    <3>1. PaginasDeProceso(pid) \in Nat
      BY <2>1, PaginasNat
    <3> QED BY <3>1, EntradasDePagina
  <2>3. global_second_level_page_tables[e[i] + 1] = ts[i]
    BY <2>2 DEF IInvTablas, TablasPropias
  <2>4. get_second_level_page_table(t - 1, obtenerEntradaTabla1erNivel(n)) = e[i]
    <3>1. t - 1 + 1 = t
      BY <2>1
    <3> QED BY <3>1 DEF get_second_level_page_table
  <2> QED BY <2>2, <2>3, <2>4 DEF PaginaDeTabla
<1>2. SlotEnArchivo
  <2> SUFFICES ASSUME NEW t \in DOMAIN global_second_level_page_tables,
                      NEW i \in DOMAIN global_second_level_page_tables[t]
               PROVE  LET g == global_second_level_page_tables[t][i]
                      IN  \E a \in DOMAIN swap_files_list :
                            /\ swap_files_list[a].pid = g.pid
                            /\ desplazamientoEnSwap(g.swap_page_id) + TAM_PAGINA
                                 <= swap_files_list[a].swap_size
    BY DEF SlotEnArchivo
  <2> DEFINE g == global_second_level_page_tables[t][i]
             total == PaginasDeProceso(g.pid)
             s == g.swap_page_id
  <2>1. g.pid \in DOMAIN PROCESS_SIZE
    <3>1. global_second_level_page_tables \in Seq(Seq(Pagina2))
      BY DEF IInvTablas, TypeTablas
    <3>2. global_second_level_page_tables[t] \in Seq(Pagina2)
      BY <3>1, LenProperties, ElementOfSeq
    <3>3. g \in Pagina2
      BY <3>2, LenProperties, ElementOfSeq
    <3> QED BY <3>3 DEF Pagina2
  <2>2. /\ s \in 0 .. total - 1
        /\ \E a \in DOMAIN swap_files_list :
             /\ swap_files_list[a].pid = g.pid
             /\ swap_files_list[a].swap_size = get_swap_size(PROCESS_SIZE[g.pid])
    BY DEF IInvTablas, SlotsPropios
  <2>3. total \in Nat /\ get_swap_size(PROCESS_SIZE[g.pid]) = total * TAM_PAGINA
    BY <2>1, PaginasNat
  <2>4. (s * TAM_PAGINA) + TAM_PAGINA <= total * TAM_PAGINA
    <3> HIDE DEF s, total
    <3> QED BY <2>2, <2>3, Monotonia, ConstantesPaginacion
  <2> QED BY <2>2, <2>3, <2>4 DEF desplazamientoEnSwap
<1> QED BY <1>1, <1>2

\* In every reachable state of the tables the entries that the CPU computes
\* for a page are those of that page, for any sizes of page, table and
\* process.
THEOREM TraduccionSiempreExacta == SpecTablas => []TraduccionExacta
<1> QED BY TablasIniciales, PasoTablas, TablasDanPropiedades, PTL DEF SpecTablas

\* And every slot is in its file.
THEOREM SlotSiempreEnArchivo == SpecTablas => []SlotEnArchivo
<1> QED BY TablasIniciales, PasoTablas, TablasDanPropiedades, PTL DEF SpecTablas

-----------------------------------------------------------------------------
(* The TLB *)

Distintos(u) == \A i, j \in DOMAIN u : u[i] = u[j] => i = j

\* A sequence without its element k, and with the others moved up.
LEMMA QuitarElemento ==
  ASSUME NEW u \in Seq(Nat), Distintos(u), NEW k \in 1 .. Len(u)
  PROVE  /\ RemoveFirst(u, u[k]) \in Seq(Nat)
         /\ Len(RemoveFirst(u, u[k])) = Len(u) - 1
         /\ \A i \in 1 .. Len(u) - 1 :
              RemoveFirst(u, u[k])[i] = u[IF i < k THEN i ELSE i + 1]
<1> DEFINE n == Len(u)
           I == {i \in 1 .. n : u[i] = u[k]}
           a == SubSeq(u, 1, k - 1)
           b == SubSeq(u, k + 1, n)
<1>1. n \in Nat /\ DOMAIN u = 1 .. n /\ k \in 1 .. n
  BY LenProperties
<1>2. I = {k}
  BY <1>1 DEF Distintos
<1>3. SelectInSeq(u, LAMBDA v : v = u[k]) = k
  <2>1. Min({k}) = k
    BY <1>1 DEF Min
  <2>2. SelectInSeq(u, LAMBDA v : v = u[k]) = IF I # {} THEN Min(I) ELSE 0
    BY DEF SelectInSeq
  <2> QED BY <1>2, <2>1, <2>2
<1>4. RemoveFirst(u, u[k]) = a \o b
  <2>1. \E i \in 1 .. Len(u) : u[i] = u[k]
    BY <1>1
  <2>2. RemoveFirst(u, u[k]) = RemoveAt(u, SelectInSeq(u, LAMBDA v : v = u[k]))
    BY <2>1 DEF RemoveFirst
  <2> QED BY <1>3, <2>2 DEF RemoveAt
<1>5. /\ a \in Seq(Nat) /\ Len(a) = k - 1
      /\ \A i \in 1 .. k - 1 : a[i] = u[i]
  BY <1>1, SubSeqProperties
<1>6. /\ b \in Seq(Nat) /\ Len(b) = n - k
      /\ \A i \in 1 .. n - k : b[i] = u[k + i]
  <2>1. \A i \in k + 1 .. n : u[i] \in Nat
    BY <1>1
  <2>2. /\ b \in Seq(Nat) /\ Len(b) = IF k + 1 <= n THEN n - (k + 1) + 1 ELSE 0
        /\ \A i \in 1 .. n - (k + 1) + 1 : b[i] = u[k + 1 + i - 1]
    BY <1>1, <2>1, SubSeqProperties
  <2>3. Len(b) = n - k /\ n - (k + 1) + 1 = n - k
    <3> HIDE DEF n, b
    <3>1. k \in Nat /\ k <= n
      BY <1>1
    <3> QED BY <1>1, <2>2, <3>1
  <2>4. \A i \in 1 .. n - k : k + 1 + i - 1 = k + i
    BY <1>1
  <2> QED BY <2>2, <2>3, <2>4
<1> HIDE DEF a, b
<1>7. /\ a \o b \in Seq(Nat) /\ Len(a \o b) = n - 1
      /\ \A i \in 1 .. n - 1 : (a \o b)[i] = IF i <= k - 1 THEN a[i] ELSE b[i - (k - 1)]
  <2>1. Len(a) + Len(b) = n - 1
    BY <1>1, <1>5, <1>6
  <2>2. /\ a \o b \in Seq(Nat) /\ Len(a \o b) = Len(a) + Len(b)
        /\ \A i \in 1 .. Len(a) + Len(b) :
             (a \o b)[i] = IF i <= Len(a) THEN a[i] ELSE b[i - Len(a)]
    BY <1>5, <1>6, ConcatProperties
  <2> QED BY <1>5, <2>1, <2>2
<1>8. ASSUME NEW i \in 1 .. n - 1 PROVE (a \o b)[i] = u[IF i < k THEN i ELSE i + 1]
  <2>1. CASE i < k
    <3>1. i \in 1 .. k - 1 /\ i <= k - 1
      BY <1>1, <2>1
    <3> QED BY <1>5, <1>7, <2>1, <3>1
  <2>2. CASE ~ (i < k)
    <3>1. /\ ~ (i <= k - 1) /\ i - (k - 1) \in 1 .. n - k
          /\ k + (i - (k - 1)) = i + 1
      BY <1>1, <2>2
    <3> QED BY <1>6, <1>7, <2>2, <3>1
  <2> QED BY <2>1, <2>2
<1> QED BY <1>1, <1>4, <1>7, <1>8

\* The place of the i-th of the elements other than element k.
Salta(i, k) == IF i < k THEN i ELSE i + 1

\* The positions of a list without its k-th element.
LEMMA Saltos ==
  ASSUME NEW n \in Nat, NEW k \in 1 .. n
  PROVE  /\ \A i \in 1 .. n - 1 : /\ i \in 1 .. n /\ i # n
                                 /\ Salta(i, k) \in 1 .. n /\ Salta(i, k) # k
         /\ \A i, j \in 1 .. n - 1 : Salta(i, k) = Salta(j, k) => i = j
         /\ \A i \in 1 .. n : i # n => i \in 1 .. n - 1
         /\ \A i \in 1 .. n : i # k => \E j \in 1 .. n - 1 : Salta(j, k) = i
         /\ n \in 1 .. n
<1>1. k \in Nat /\ k >= 1 /\ k <= n
  OBVIOUS
<1>2. \A i \in 1 .. n - 1 : /\ i \in 1 .. n /\ i # n
                            /\ Salta(i, k) \in 1 .. n /\ Salta(i, k) # k
  BY <1>1 DEF Salta
<1>3. \A i, j \in 1 .. n - 1 : Salta(i, k) = Salta(j, k) => i = j
  BY <1>1 DEF Salta
<1>4. \A i \in 1 .. n : i # n => i \in 1 .. n - 1
  BY <1>1
<1>5. ASSUME NEW i \in 1 .. n, i # k PROVE \E j \in 1 .. n - 1 : Salta(j, k) = i
  <2>1. CASE i < k
    <3>1. i \in 1 .. n - 1 /\ Salta(i, k) = i
      BY <1>1, <2>1 DEF Salta
    <3> QED BY <3>1
  <2>2. CASE i > k
    <3>1. i - 1 \in 1 .. n - 1 /\ Salta(i - 1, k) = i
      BY <1>1, <2>2 DEF Salta
    <3> QED BY <3>1
  <2> QED BY <1>1, <1>5, <2>1, <2>2
<1> QED BY <1>1, <1>2, <1>3, <1>4, <1>5

\* v is u without its element k.
SinElemento(v, u, k) ==
  /\ v \in Seq(Nat) /\ Len(v) = Len(u) - 1
  /\ \A i \in 1 .. Len(u) - 1 : v[i] = u[Salta(i, k)]

\* w is as long as u, and its elements are m and those of u but for element k.
ConNuevo(w, u, k, m) ==
  /\ w \in Seq(Nat) /\ Len(w) = Len(u) /\ Distintos(w)
  /\ \A j \in DOMAIN w : w[j] = m \/ \E i \in DOMAIN u : i # k /\ w[j] = u[i]
  /\ \E j \in DOMAIN w : w[j] = m
  /\ \A i \in DOMAIN u : i # k => \E j \in DOMAIN w : w[j] = u[i]

\* What adding an element at the end does.
LEMMA NuevoAlFinal ==
  ASSUME NEW u \in Seq(Nat), Distintos(u), NEW k \in 1 .. Len(u),
         NEW v, SinElemento(v, u, k), NEW m \in Nat,
         \A i \in DOMAIN u : i # k => u[i] # m
  PROVE  ConNuevo(Append(v, m), u, k, m)
<1> DEFINE w == Append(v, m)
           n == Len(u)
<1>1. /\ n \in Nat /\ DOMAIN u = 1 .. n /\ k \in 1 .. n
  BY LenProperties
<1>2. v \in Seq(Nat) /\ Len(v) = n - 1 /\ \A i \in 1 .. n - 1 : v[i] = u[Salta(i, k)]
  BY DEF SinElemento
<1>3. /\ w \in Seq(Nat) /\ Len(w) = Len(v) + 1
      /\ \A i \in 1 .. Len(v) : w[i] = v[i]
      /\ w[Len(v) + 1] = m
  BY <1>2, AppendProperties
<1> HIDE DEF w, n
<1>4. n - 1 + 1 = n
  BY <1>1
<1>5. DOMAIN w = 1 .. n /\ Len(w) = n
      /\ w[n] = m /\ \A i \in 1 .. n - 1 : w[i] = u[Salta(i, k)]
  BY <1>2, <1>3, <1>4, LenProperties
<1>6. \A i \in 1 .. n - 1 : /\ i \in 1 .. n /\ i # n
                            /\ Salta(i, k) \in 1 .. n /\ Salta(i, k) # k
  BY <1>1, Saltos
<1>7. \A i, j \in 1 .. n - 1 : Salta(i, k) = Salta(j, k) => i = j
  BY <1>1, Saltos
<1>8. \A i \in 1 .. n : i # n => i \in 1 .. n - 1
  BY <1>1, Saltos
<1>9. \A i \in 1 .. n : i # k => \E j \in 1 .. n - 1 : Salta(j, k) = i
  BY <1>1, Saltos
<1>10. \A i \in 1 .. n - 1 : w[i] # m
  BY <1>1, <1>5, <1>6
<1>11. Distintos(w)
  <2>1. ASSUME NEW i \in 1 .. n, NEW j \in 1 .. n, w[i] = w[j] PROVE i = j
    <3>1. CASE i = n
      BY <1>5, <1>8, <1>10, <2>1, <3>1
    <3>2. CASE j = n
      BY <1>5, <1>8, <1>10, <2>1, <3>2
    <3>3. CASE i # n /\ j # n
      <4>1. i \in 1 .. n - 1 /\ j \in 1 .. n - 1
        BY <1>8, <3>3
      <4>2. u[Salta(i, k)] = u[Salta(j, k)]
        BY <1>5, <2>1, <4>1
      <4> QED BY <1>1, <1>6, <1>7, <4>1, <4>2 DEF Distintos
    <3> QED BY <3>1, <3>2, <3>3
  <2> QED BY <1>5, <2>1 DEF Distintos
<1>12. \A j \in 1 .. n : w[j] = m \/ \E i \in 1 .. n : i # k /\ w[j] = u[i]
  BY <1>5, <1>6, <1>8
<1>13. n \in 1 .. n
  BY <1>1, Saltos
<1>14. ASSUME NEW i \in 1 .. n, i # k PROVE \E j \in 1 .. n : w[j] = u[i]
  <2>1. PICK j \in 1 .. n - 1 : Salta(j, k) = i
    BY <1>9, <1>14
  <2>2. j \in 1 .. n /\ w[j] = u[i]
    BY <1>5, <1>6, <2>1
  <2> QED BY <2>2
<1>15. w \in Seq(Nat)
  BY <1>3
<1>16. ConNuevo(w, u, k, m)
  BY <1>1, <1>5, <1>11, <1>12, <1>13, <1>14, <1>15 DEF n, ConNuevo
<1> QED BY <1>16 DEF w

\* The entries l and the order u of the TLB: a page at most once, and the same
\* pages in both.
TlbBien(l, u) ==
  /\ \E S : l \in Seq(S)
  /\ u \in Seq(Nat) /\ Len(u) = Len(l) /\ Len(l) <= ENTRADAS_TLB
  /\ \A i \in DOMAIN l : l[i].pagina \in Nat
  /\ \A i, j \in DOMAIN l : l[i].pagina = l[j].pagina => i = j
  /\ Distintos(u)
  /\ \A i \in DOMAIN l : \E j \in DOMAIN u : u[j] = l[i].pagina
  /\ \A j \in DOMAIN u : \E i \in DOMAIN l : l[i].pagina = u[j]

\* The TLB and its use counts have the same positions.
LEMMA LargosTlb ==
  ASSUME NEW l, NEW u, TlbBien(l, u)
  PROVE  /\ Len(l) \in Nat /\ DOMAIN l = 1 .. Len(l)
         /\ Len(u) = Len(l) /\ DOMAIN u = 1 .. Len(l) /\ u \in Seq(Nat)
<1>1. PICK S : l \in Seq(S)
  BY DEF TlbBien
<1>2. Len(l) \in Nat /\ DOMAIN l = 1 .. Len(l)
  BY <1>1, LenProperties
<1>3. u \in Seq(Nat) /\ Len(u) = Len(l)
  BY DEF TlbBien
<1> QED BY <1>2, <1>3, LenProperties

\* The entry found is one of the page.
LEMMA EntradaEncontrada ==
  ASSUME TlbBien(listaTLB, usos), NEW n, EntradasDe(n) # {}
  PROVE  \E h \in DOMAIN listaTLB :
           obtenerEntradaTLB(n) = listaTLB[h] /\ listaTLB[h].pagina = n
<1>1. PICK h \in DOMAIN listaTLB : listaTLB[h].pagina = n
  BY DEF EntradasDe
<1>2. \A i, j \in DOMAIN listaTLB : listaTLB[i].pagina = listaTLB[j].pagina => i = j
  BY DEF TlbBien
<1>3. EntradasDe(n) = {h}
  BY <1>1, <1>2 DEF EntradasDe
<1>4. h \in Nat
  BY <1>1, LargosTlb
<1>5. Min({h}) = h
  BY <1>4 DEF Min
<1> QED BY <1>1, <1>3, <1>5 DEF obtenerEntradaTLB

\* And the pages in the order of use have one.
LEMMA EntradaDeUso ==
  ASSUME TlbBien(listaTLB, usos), NEW i \in DOMAIN usos
  PROVE  \E h \in DOMAIN listaTLB :
           obtenerEntradaTLB(usos[i]) = listaTLB[h] /\ listaTLB[h].pagina = usos[i]
<1>1. EntradasDe(usos[i]) # {}
  BY DEF TlbBien, EntradasDe
<1> QED BY <1>1, EntradaEncontrada

\* A hit makes the page the last one used.
LEMMA AciertoTlb ==
  ASSUME TlbBien(listaTLB, usos), NEW n, EntradasDe(n) # {}, actualizarTLB(n)
  PROVE  TlbBien(listaTLB, usos)'
<1>1. usos' = Append(RemoveFirst(usos, n), n) /\ listaTLB' = listaTLB
  BY DEF actualizarTLB
<1>2. /\ Len(listaTLB) \in Nat /\ DOMAIN listaTLB = 1 .. Len(listaTLB)
      /\ Len(usos) = Len(listaTLB) /\ DOMAIN usos = 1 .. Len(listaTLB)
      /\ usos \in Seq(Nat) /\ Distintos(usos)
  BY LargosTlb DEF TlbBien
<1>3. PICK e \in DOMAIN listaTLB : listaTLB[e].pagina = n
  BY DEF EntradasDe
<1>4. PICK k \in 1 .. Len(usos) : usos[k] = n
  BY <1>2, <1>3 DEF TlbBien
<1>5. n \in Nat /\ \A i \in DOMAIN usos : i # k => usos[i] # n
  <2>1. n \in Nat
    BY <1>3 DEF TlbBien
  <2> QED BY <1>2, <1>4, <2>1 DEF Distintos
<1> DEFINE v == RemoveFirst(usos, n)
           w == Append(v, n)
<1>6. SinElemento(v, usos, k)
  <2>1. v = RemoveFirst(usos, usos[k])
    BY <1>4
  <2> HIDE DEF v
  <2> QED BY <1>2, <2>1, QuitarElemento DEF SinElemento, Salta
<1>7. ConNuevo(w, usos, k, n)
  <2> HIDE DEF v
  <2> QED BY <1>2, <1>5, <1>6, NuevoAlFinal
<1> HIDE DEF w
<1>8. \A i \in DOMAIN listaTLB : \E j \in DOMAIN w : w[j] = listaTLB[i].pagina
  <2> SUFFICES ASSUME NEW i \in DOMAIN listaTLB
               PROVE  \E j \in DOMAIN w : w[j] = listaTLB[i].pagina
    OBVIOUS
  <2>1. PICK h \in DOMAIN usos : usos[h] = listaTLB[i].pagina
    BY DEF TlbBien
  <2> QED BY <1>4, <1>7, <2>1 DEF ConNuevo
<1>9. ASSUME NEW j \in DOMAIN w
      PROVE  \E i \in DOMAIN listaTLB : listaTLB[i].pagina = w[j]
  <2>1. CASE w[j] = n
    BY <1>3, <2>1
  <2>2. ASSUME NEW h \in DOMAIN usos, w[j] = usos[h]
        PROVE  \E i \in DOMAIN listaTLB : listaTLB[i].pagina = w[j]
    BY <2>2 DEF TlbBien
  <2> QED BY <1>7, <2>1, <2>2 DEF ConNuevo
<1>10. TlbBien(listaTLB, w)
  BY <1>2, <1>7, <1>8, <1>9 DEF TlbBien, ConNuevo
<1>11. usos' = w
  BY <1>1 DEF w
<1> QED BY <1>1, <1>10, <1>11 DEF TlbBien, Distintos

\* A new page takes a free entry.
LEMMA LibreTlb ==
  ASSUME TlbBien(listaTLB, usos), NEW n \in Nat, NEW marco, EntradasDe(n) = {},
         agregarTLB_Libre(n, marco)
  PROVE  TlbBien(listaTLB, usos)'
<1> DEFINE e == newEntradaTLB(n, marco)
           l == Append(listaTLB, e)
           u == Append(usos, n)
           m == Len(listaTLB)
<1>1. listaTLB' = l /\ usos' = u /\ m < ENTRADAS_TLB
  BY DEF agregarTLB_Libre
<1>2. /\ m \in Nat /\ DOMAIN listaTLB = 1 .. m
      /\ Len(usos) = m /\ DOMAIN usos = 1 .. m /\ usos \in Seq(Nat)
  BY LargosTlb
<1>3. e.pagina = n
  BY DEF newEntradaTLB
<1>4. PICK S : listaTLB \in Seq(S)
  BY DEF TlbBien
<1> HIDE DEF e
<1>5. /\ l \in Seq(S \cup {e}) /\ Len(l) = m + 1 /\ DOMAIN l = 1 .. m + 1
      /\ \A i \in 1 .. m : l[i] = listaTLB[i]
      /\ l[m + 1] = e
  <2>1. listaTLB \in Seq(S \cup {e}) /\ e \in S \cup {e}
    BY <1>4
  <2>2. l \in Seq(S \cup {e}) /\ Len(l) = m + 1
        /\ (\A i \in 1 .. m : l[i] = listaTLB[i]) /\ l[m + 1] = e
    BY <2>1, AppendProperties
  <2> QED BY <2>2, LenProperties
<1>6. /\ u \in Seq(Nat) /\ Len(u) = m + 1 /\ DOMAIN u = 1 .. m + 1
      /\ \A i \in 1 .. m : u[i] = usos[i]
      /\ u[m + 1] = n
  <2>1. u \in Seq(Nat) /\ Len(u) = m + 1
        /\ (\A i \in 1 .. m : u[i] = usos[i]) /\ u[m + 1] = n
    BY <1>2, AppendProperties
  <2> QED BY <2>1, LenProperties
<1>7. \A i \in 1 .. m + 1 : i \in 1 .. m \/ i = m + 1
  BY <1>2
<1>8. \A i \in 1 .. m : i \in 1 .. m + 1 /\ i # m + 1
  BY <1>2
<1>9. m + 1 <= ENTRADAS_TLB /\ m + 1 \in 1 .. m + 1
  BY <1>1, <1>2, ConstantesMmu
<1>10. \A i \in 1 .. m : listaTLB[i].pagina # n
  BY <1>2 DEF EntradasDe
<1>11. \A i \in 1 .. m : usos[i] # n
  BY ZenonT(30), <1>2, <1>10 DEF TlbBien
<1>a. /\ \A i, j \in 1 .. m : usos[i] = usos[j] => i = j
      /\ \A i, j \in 1 .. m : listaTLB[i].pagina = listaTLB[j].pagina => i = j
      /\ \A i \in 1 .. m : listaTLB[i].pagina \in Nat
      /\ \A i \in 1 .. m : \E j \in 1 .. m : usos[j] = listaTLB[i].pagina
      /\ \A j \in 1 .. m : \E i \in 1 .. m : listaTLB[i].pagina = usos[j]
  BY <1>2 DEF TlbBien, Distintos
<1> HIDE DEF l, u, m
<1>12. Distintos(u)
  <2>1. ASSUME NEW i \in 1 .. m + 1, NEW j \in 1 .. m + 1, u[i] = u[j] PROVE i = j
    <3>1. CASE i = m + 1
      BY <1>6, <1>7, <1>11, <2>1, <3>1
    <3>2. CASE j = m + 1
      BY <1>6, <1>7, <1>11, <2>1, <3>2
    <3>3. CASE i \in 1 .. m /\ j \in 1 .. m
      BY <1>6, <1>a, <2>1, <3>3
    <3> QED BY <1>7, <3>1, <3>2, <3>3
  <2> QED BY <1>6, <2>1 DEF Distintos
<1>13. ASSUME NEW i \in DOMAIN l, NEW j \in DOMAIN l, l[i].pagina = l[j].pagina PROVE i = j
  <2>1. CASE i = m + 1
    BY <1>3, <1>5, <1>7, <1>10, <1>13, <2>1
  <2>2. CASE j = m + 1
    BY <1>3, <1>5, <1>7, <1>10, <1>13, <2>2
  <2>3. CASE i \in 1 .. m /\ j \in 1 .. m
    BY <1>5, <1>a, <1>13, <2>3
  <2> QED BY <1>5, <1>7, <2>1, <2>2, <2>3
<1>14. \A i \in DOMAIN l : l[i].pagina \in Nat
  BY <1>3, <1>5, <1>7, <1>a
<1>15. ASSUME NEW i \in DOMAIN l PROVE \E j \in DOMAIN u : u[j] = l[i].pagina
  <2>1. CASE i = m + 1
    BY <1>3, <1>5, <1>6, <2>1
  <2>2. CASE i \in 1 .. m
    <3>1. PICK j \in 1 .. m : usos[j] = listaTLB[i].pagina
      BY <1>a, <2>2
    <3> QED BY <1>5, <1>6, <1>8, <2>2, <3>1
  <2> QED BY <1>5, <1>7, <2>1, <2>2
<1>16. ASSUME NEW j \in DOMAIN u PROVE \E i \in DOMAIN l : l[i].pagina = u[j]
  <2>1. CASE j = m + 1
    BY <1>3, <1>5, <1>6, <2>1
  <2>2. CASE j \in 1 .. m
    <3>1. PICK i \in 1 .. m : listaTLB[i].pagina = usos[j]
      BY <1>a, <2>2
    <3> QED BY <1>5, <1>6, <1>8, <2>2, <3>1
  <2> QED BY <1>6, <1>7, <2>1, <2>2
<1>17. TlbBien(l, u)
  BY <1>5, <1>6, <1>9, <1>12, <1>13, <1>14, <1>15, <1>16 DEF TlbBien
<1> QED BY <1>1, <1>17 DEF TlbBien, Distintos

\* In FIFO order a new page takes the entry at the index.
LEMMA FifoTlb ==
  ASSUME TlbBien(listaTLB, usos), NEW n \in Nat, NEW marco, EntradasDe(n) = {},
         indiceFIFO \in 0 .. ENTRADAS_TLB - 1, reemplazarTLB_FIFO(n, marco)
  PROVE  TlbBien(listaTLB, usos)'
<1> DEFINE e == newEntradaTLB(n, marco)
           m == Len(listaTLB)
           f == indiceFIFO + 1
           l == [listaTLB EXCEPT ![f] = e]
           v == RemoveFirst(usos, listaTLB[f].pagina)
           u == Append(v, n)
<1>1. listaTLB' = l /\ usos' = u /\ m >= ENTRADAS_TLB
  BY DEF reemplazarTLB_FIFO
<1>2. /\ m \in Nat /\ DOMAIN listaTLB = 1 .. m
      /\ Len(usos) = m /\ DOMAIN usos = 1 .. m
      /\ usos \in Seq(Nat) /\ Distintos(usos)
  BY LargosTlb DEF TlbBien
<1>3. m = ENTRADAS_TLB /\ f \in 1 .. m
  <2>1. m <= ENTRADAS_TLB
    BY DEF TlbBien
  <2>2. ENTRADAS_TLB \in Nat /\ indiceFIFO \in 0 .. ENTRADAS_TLB - 1
    BY ConstantesMmu
  <2> HIDE DEF m, l, u
  <2>3. m = ENTRADAS_TLB
    BY <1>1, <1>2, <2>1, <2>2
  <2> QED BY <2>2, <2>3
<1>4. e.pagina = n
  BY DEF newEntradaTLB
<1>5. PICK k \in 1 .. m : usos[k] = listaTLB[f].pagina
  BY <1>2, <1>3 DEF TlbBien
<1>6. \A i \in 1 .. m : listaTLB[i].pagina # n
  BY <1>2 DEF EntradasDe
<1>8. PICK S : listaTLB \in Seq(S)
  BY DEF TlbBien
<1>a. /\ \A i, j \in 1 .. m : usos[i] = usos[j] => i = j
      /\ \A i, j \in 1 .. m : listaTLB[i].pagina = listaTLB[j].pagina => i = j
      /\ \A i \in 1 .. m : listaTLB[i].pagina \in Nat
      /\ \A i \in 1 .. m : \E j \in 1 .. m : usos[j] = listaTLB[i].pagina
      /\ \A j \in 1 .. m : \E i \in 1 .. m : listaTLB[i].pagina = usos[j]
  BY <1>2 DEF TlbBien, Distintos
<1> HIDE DEF e, m, f
<1>7. \A i \in 1 .. m : usos[i] # n
  BY <1>6, <1>a
<1>9. /\ \E T : l \in Seq(T)
      /\ Len(l) = m /\ DOMAIN l = 1 .. m /\ l[f] = e
      /\ \A i \in 1 .. m : i # f => l[i] = listaTLB[i]
  <2>1. listaTLB \in Seq(S \cup {e}) /\ f \in 1 .. Len(listaTLB)
    BY <1>3, <1>8 DEF m
  <2>2. l \in Seq(S \cup {e}) /\ Len(l) = m
    BY <2>1, ExceptSeq DEF m
  <2> QED BY <1>2, <1>3, <2>2
<1> HIDE DEF l
<1>10. SinElemento(v, usos, k)
  <2>1. v = RemoveFirst(usos, usos[k])
    BY <1>5
  <2> HIDE DEF v
  <2> QED BY <1>2, <2>1, QuitarElemento DEF SinElemento, Salta
<1>11. ConNuevo(u, usos, k, n)
  <2>1. \A i \in DOMAIN usos : i # k => usos[i] # n
    BY <1>2, <1>7
  <2> HIDE DEF v
  <2> QED BY <1>2, <1>10, <2>1, NuevoAlFinal
<1> HIDE DEF u, v
<1>12. ASSUME NEW i \in DOMAIN l, NEW j \in DOMAIN l, l[i].pagina = l[j].pagina
       PROVE  i = j
  <2>1. i \in 1 .. m /\ j \in 1 .. m
    BY <1>9
  <2>2. CASE i = f \/ j = f
    BY <1>4, <1>6, <1>9, <1>12, <2>1, <2>2
  <2>3. CASE i # f /\ j # f
    BY <1>9, <1>12, <1>a, <2>1, <2>3
  <2> QED BY <2>2, <2>3
<1>13. \A i \in DOMAIN l : l[i].pagina \in Nat
  BY <1>4, <1>9, <1>a
<1>14. ASSUME NEW i \in DOMAIN l PROVE \E j \in DOMAIN u : u[j] = l[i].pagina
  <2>1. CASE i = f
    BY <1>4, <1>9, <1>11, <2>1 DEF ConNuevo
  <2>2. CASE i # f
    <3>1. i \in 1 .. m /\ l[i] = listaTLB[i]
      BY <1>9, <2>2
    <3>2. PICK h \in 1 .. m : usos[h] = listaTLB[i].pagina
      BY <1>a, <3>1
    <3>3. h # k
      BY <1>3, <1>5, <1>a, <2>2, <3>1, <3>2
    <3> QED BY <1>2, <1>11, <3>1, <3>2, <3>3 DEF ConNuevo
  <2> QED BY <2>1, <2>2
<1>15. ASSUME NEW j \in DOMAIN u PROVE \E i \in DOMAIN l : l[i].pagina = u[j]
  <2>1. CASE u[j] = n
    BY <1>3, <1>4, <1>9, <2>1
  <2>2. ASSUME NEW h \in DOMAIN usos, h # k, u[j] = usos[h]
        PROVE  \E i \in DOMAIN l : l[i].pagina = u[j]
    <3>1. PICK i \in 1 .. m : listaTLB[i].pagina = usos[h]
      BY <1>2, <1>a, <2>2
    <3>2. i # f
      <4>1. h \in 1 .. m
        BY <1>2
      <4>2. usos[h] # usos[k]
        BY <1>5, <1>a, <2>2, <4>1
      <4> QED BY <1>5, <3>1, <4>2
    <3> QED BY <1>9, <2>2, <3>1, <3>2
  <2> QED BY <1>11, <2>1, <2>2 DEF ConNuevo
<1>16. TlbBien(l, u)
  <2>1. Len(l) <= ENTRADAS_TLB
    BY <1>3, <1>9, ConstantesMmu
  <2> QED BY <1>2, <1>9, <1>11, <1>12, <1>13, <1>14, <1>15, <2>1
          DEF TlbBien, ConNuevo, m
<1> QED BY <1>1, <1>16 DEF TlbBien, Distintos

\* In LRU order it takes that of the page used the longest ago, which goes
\* with its stamp: the list ends up in the order of the stamps.
LEMMA LruTlb ==
  ASSUME TlbBien(listaTLB, usos), NEW n \in Nat, NEW marco, EntradasDe(n) = {},
         reemplazarTLB_LRU(n, marco)
  PROVE  TlbBien(listaTLB, usos)'
<1> DEFINE e == newEntradaTLB(n, marco)
           m == Len(listaTLB)
           orden == [i \in DOMAIN usos |-> obtenerEntradaTLB(usos[i])]
           l == Append(Tail(orden), e)
           u == Append(Tail(usos), n)
<1>1. listaTLB' = l /\ usos' = u /\ m >= ENTRADAS_TLB
  BY DEF reemplazarTLB_LRU
<1>2. /\ m \in Nat /\ DOMAIN listaTLB = 1 .. m
      /\ Len(usos) = m /\ DOMAIN usos = 1 .. m
      /\ usos \in Seq(Nat) /\ Distintos(usos)
  BY LargosTlb DEF TlbBien
<1>3. m = ENTRADAS_TLB /\ m >= 1
  <2>1. m <= ENTRADAS_TLB
    BY DEF TlbBien
  <2>2. ENTRADAS_TLB \in Nat /\ ENTRADAS_TLB >= 1
    BY ConstantesMmu
  <2> HIDE DEF m, l, u
  <2> QED BY <1>1, <1>2, <2>1, <2>2
<1>4. e.pagina = n
  BY DEF newEntradaTLB
<1>5. \A i \in 1 .. m : usos[i] # n
  <2>1. \A i \in 1 .. m : listaTLB[i].pagina # n
    BY <1>2 DEF EntradasDe
  <2>2. \A j \in 1 .. m : \E i \in 1 .. m : listaTLB[i].pagina = usos[j]
    BY <1>2 DEF TlbBien
  <2> QED BY <2>1, <2>2
<1>6. PICK S : listaTLB \in Seq(S)
  BY DEF TlbBien
<1>7. ASSUME NEW i \in 1 .. m
      PROVE  obtenerEntradaTLB(usos[i]) \in S /\ obtenerEntradaTLB(usos[i]).pagina = usos[i]
  <2>1. PICK h \in 1 .. m : /\ obtenerEntradaTLB(usos[i]) = listaTLB[h]
                            /\ listaTLB[h].pagina = usos[i]
    BY <1>2, EntradaDeUso
  <2> QED BY <1>2, <1>6, <2>1, ElementOfSeq
<1>8. /\ orden \in Seq(S) /\ Len(orden) = m
      /\ \A i \in 1 .. m : orden[i].pagina = usos[i]
  <2>1. orden \in [1 .. m -> S]
    BY <1>2, <1>7
  <2> QED BY <1>2, <1>7, <2>1, SecuenciaDe
<1> HIDE DEF orden, e, m
<1>9. /\ Tail(orden) \in Seq(S) /\ Len(Tail(orden)) = m - 1
      /\ \A i \in 1 .. m - 1 : Tail(orden)[i] = orden[i + 1]
  <2>1. orden # <<>>
    BY <1>2, <1>3, <1>8
  <2> QED BY <1>8, <2>1, HeadTailProperties
<1>10. SinElemento(Tail(usos), usos, 1)
  <2>1. usos # <<>>
    BY <1>2, <1>3
  <2>2. /\ Tail(usos) \in Seq(Nat) /\ Len(Tail(usos)) = m - 1
        /\ \A i \in 1 .. m - 1 : Tail(usos)[i] = usos[i + 1]
    BY <1>2, <2>1, HeadTailProperties
  <2>3. \A i \in 1 .. m - 1 : Salta(i, 1) = i + 1
    BY <1>2 DEF Salta
  <2> QED BY <1>2, <2>2, <2>3 DEF SinElemento
<1>11. ConNuevo(u, usos, 1, n)
  <2>1. 1 \in 1 .. Len(usos) /\ \A i \in DOMAIN usos : i # 1 => usos[i] # n
    BY <1>2, <1>3, <1>5
  <2> QED BY <1>2, <1>10, <2>1, NuevoAlFinal
<1>12. /\ \E T : l \in Seq(T)
       /\ Len(l) = m /\ DOMAIN l = 1 .. m
       /\ \A i \in 1 .. m : l[i].pagina = u[i]
  <2>1. Tail(orden) \in Seq(S \cup {e}) /\ e \in S \cup {e}
    BY <1>9
  <2>2. l \in Seq(S \cup {e}) /\ Len(l) = m - 1 + 1
        /\ (\A i \in 1 .. m - 1 : l[i] = Tail(orden)[i]) /\ l[m - 1 + 1] = e
    BY <1>9, <2>1, AppendProperties
  <2>3. Tail(usos) \in Seq(Nat) /\ Len(Tail(usos)) = m - 1
        /\ \A i \in 1 .. m - 1 : Tail(usos)[i] = usos[i + 1]
    BY <1>2, <1>3, HeadTailProperties
  <2>4. (\A i \in 1 .. m - 1 : u[i] = Tail(usos)[i]) /\ u[m - 1 + 1] = n
    BY <2>3, AppendProperties
  <2>5. m - 1 + 1 = m /\ \A i \in 1 .. m - 1 : i + 1 \in 1 .. m
    BY <1>2
  <2>6. \A i \in 1 .. m : i \in 1 .. m - 1 \/ i = m
    BY <1>2
  <2> HIDE DEF l, u
  <2>7. \A i \in 1 .. m - 1 : l[i].pagina = u[i]
    BY <1>8, <1>9, <2>2, <2>3, <2>4, <2>5
  <2>8. l[m].pagina = u[m]
    BY <1>4, <2>2, <2>4, <2>5
  <2>9. DOMAIN l = 1 .. m
    BY <2>2, <2>5, LenProperties
  <2> QED BY <2>2, <2>5, <2>6, <2>7, <2>8, <2>9
<1> HIDE DEF l, u
<1>13. u \in Seq(Nat) /\ Len(u) = m /\ DOMAIN u = 1 .. m /\ Distintos(u)
  BY <1>2, <1>11, LenProperties DEF ConNuevo
<1>14. \A i \in 1 .. m : u[i] \in Nat
  BY <1>13, ElementOfSeq
<1>15. TlbBien(l, u)
  <2>1. Len(l) <= ENTRADAS_TLB
    BY <1>3, <1>12, ConstantesMmu
  <2>2. \A i, j \in 1 .. m : l[i].pagina = l[j].pagina => i = j
    BY <1>12, <1>13 DEF Distintos
  <2>3. \A i \in 1 .. m : l[i].pagina \in Nat
    BY <1>12, <1>14
  <2> QED BY <1>12, <1>13, <2>1, <2>2, <2>3 DEF TlbBien
<1> QED BY <1>1, <1>15 DEF TlbBien, Distintos

\* A dispatch of another process empties it.
LEMMA VaciarTlb ==
  ASSUME TlbBien(listaTLB, usos), NEW pid, vaciarTLB(pid)
  PROVE  /\ TlbBien(listaTLB, usos)'
         /\ listaTLB' \in {<<>>, listaTLB} /\ indiceFIFO' = indiceFIFO
<1>1. CASE listaTLB' = <<>> /\ usos' = <<>>
  <2> DEFINE l == <<>>
  <2>1. /\ l \in Seq(Nat) /\ Len(l) = 0 /\ DOMAIN l = {}
    <3>1. <<>> \in Seq(Nat) /\ Len(<<>>) = 0
      BY EmptySeq
    <3>2. 1 .. 0 = {}
      OBVIOUS
    <3> QED BY <3>1, <3>2, LenProperties
  <2>2. 0 <= ENTRADAS_TLB
    BY ConstantesMmu
  <2>3. listaTLB' = l /\ usos' = l
    BY <1>1
  <2> HIDE DEF l
  <2>4. TlbBien(l, l)
    BY <2>1, <2>2 DEF TlbBien, Distintos
  <2>5. TlbBien(listaTLB, usos)'
    BY <2>3, <2>4 DEF TlbBien, Distintos
  <2> QED BY <1>1, <2>5 DEF vaciarTLB
<1>2. CASE UNCHANGED <<listaTLB, usos>>
  BY <1>2 DEF vaciarTLB, TlbBien, Distintos
<1> QED BY <1>1, <1>2 DEF vaciarTLB

\* While memory is asked for the frame of a page the TLB has no entry of it.
AccesoEnCurso ==
  /\ DOMAIN acceso = DOMAIN AccesoLibre /\ acceso.direccion \in Nat
  /\ acceso.pc \in {"tabla", "marco"} => EntradasDe(numeroPagina) = {}

\* Inductive invariant of the TLB.
TlbInv ==
  /\ TlbBien(listaTLB, usos)
  /\ indiceFIFO \in 0 .. ENTRADAS_TLB - 1
  /\ AccesoEnCurso

\* A miss adds the page with one of the three ways of agregarTLB.
LEMMA FalloTlb ==
  ASSUME TlbInv, NEW n \in Nat, NEW marco, EntradasDe(n) = {}, agregarTLB(n, marco)
  PROVE  TlbBien(listaTLB, usos)' /\ indiceFIFO' \in 0 .. ENTRADAS_TLB - 1
<1>1. TlbBien(listaTLB, usos) /\ indiceFIFO \in 0 .. ENTRADAS_TLB - 1
  BY DEF TlbInv
<1>2. CASE agregarTLB_Libre(n, marco)
  <2>1. indiceFIFO' = indiceFIFO
    BY <1>2 DEF agregarTLB_Libre
  <2> QED BY <1>1, <1>2, <2>1, LibreTlb
<1>3. CASE reemplazarTLB_FIFO(n, marco)
  <2>1. indiceFIFO' = (indiceFIFO + 1) % ENTRADAS_TLB
    BY <1>3 DEF reemplazarTLB_FIFO
  <2>2. indiceFIFO' \in 0 .. ENTRADAS_TLB - 1
    BY <1>1, <2>1, ConstantesMmu
  <2> QED BY <1>1, <1>3, <2>2, FifoTlb
<1>4. CASE reemplazarTLB_LRU(n, marco)
  <2>1. indiceFIFO' = indiceFIFO
    BY <1>4 DEF reemplazarTLB_LRU
  <2> QED BY <1>1, <1>4, <2>1, LruTlb
<1> QED BY <1>2, <1>3, <1>4 DEF agregarTLB

\* An address has a page.
LEMMA PaginaNat ==
  ASSUME NEW d \in Nat PROVE obtenerNumeroPagina(d) \in Nat
BY Division, ConstantesPaginacion DEF obtenerNumeroPagina

\* A step that changes neither the TLB nor the access.
LEMMA TlbQuieto == TlbInv /\ UNCHANGED <<listaTLB, usos, indiceFIFO, acceso>> => TlbInv'
BY DEF TlbInv, TlbBien, Distintos, AccesoEnCurso, EntradasDe, numeroPagina

\* The TLB starts empty.
LEMMA TlbInicial == InitSistema => TlbInv
<1> SUFFICES ASSUME InitSistema PROVE TlbInv
  OBVIOUS
<1>1. listaTLB = <<>> /\ usos = <<>> /\ indiceFIFO = 0 /\ acceso = AccesoLibre
  BY DEF InitSistema, iniciarEstructurasMMU
<1>2. listaTLB \in Seq(Nat) /\ usos \in Seq(Nat)
      /\ Len(listaTLB) = 0 /\ Len(usos) = 0 /\ DOMAIN listaTLB = {} /\ DOMAIN usos = {}
  <2>1. <<>> \in Seq(Nat) /\ Len(<<>>) = 0
    BY EmptySeq
  <2>2. 1 .. 0 = {}
    OBVIOUS
  <2> QED BY <1>1, <2>1, <2>2, LenProperties
<1>3. TlbBien(listaTLB, usos)
  <2>1. 0 <= ENTRADAS_TLB
    BY ConstantesMmu
  <2> QED BY <1>2, <2>1 DEF TlbBien, Distintos
<1>4. indiceFIFO \in 0 .. ENTRADAS_TLB - 1
  BY <1>1, ConstantesMmu
<1>5. AccesoEnCurso
  BY <1>1 DEF AccesoEnCurso, AccesoLibre
<1> QED BY <1>3, <1>4, <1>5 DEF TlbInv

\* Every step of the MMU keeps it.
LEMMA PasoTlb == TlbInv /\ [NextSistema]_varsSistema => TlbInv'
<1> SUFFICES ASSUME TlbInv, [NextSistema]_varsSistema PROVE TlbInv'
  OBVIOUS
<1>1. CASE UNCHANGED cpuMmu
  BY <1>1, TlbQuieto DEF cpuMmu, tlb
<1>2. ASSUME NEW p \in Procesos, deserializarDispatch(p) PROVE TlbInv'
  <2>1. vaciarTLB(p) /\ acceso' = acceso
    BY <1>2 DEF deserializarDispatch
  <2>2. /\ TlbBien(listaTLB, usos)'
        /\ listaTLB' \in {<<>>, listaTLB} /\ indiceFIFO' = indiceFIFO
    BY <2>1, VaciarTlb DEF TlbInv
  <2>3. CASE listaTLB' = listaTLB
    BY <2>1, <2>2, <2>3 DEF TlbInv, AccesoEnCurso, EntradasDe, numeroPagina
  <2>4. CASE listaTLB' = <<>>
    <3>1. DOMAIN listaTLB' = {}
      <4>1. <<>> \in Seq(Nat) /\ Len(<<>>) = 0 /\ 1 .. 0 = {}
        BY EmptySeq
      <4> QED BY <2>4, <4>1, LenProperties
    <3>2. EntradasDe(numeroPagina)' = {}
      BY <3>1 DEF EntradasDe
    <3> QED BY <2>1, <2>2, <3>2 DEF TlbInv, AccesoEnCurso
  <2> QED BY <2>2, <2>3, <2>4
<1>3. CASE cicloInstruccion_Devuelve
  BY <1>3, TlbQuieto DEF cicloInstruccion_Devuelve, tlb
<1>4. ASSUME NEW d \in Direcciones, NEW escribe \in BOOLEAN,
             consultarTablaSegundoNivel(d, escribe)
      PROVE  TlbInv'
  <2>1. UNCHANGED <<listaTLB, usos, indiceFIFO>>
    BY <1>4 DEF consultarTablaSegundoNivel, tlb
  <2>2. /\ EntradasDe(obtenerNumeroPagina(d)) = {}
        /\ DOMAIN acceso' = DOMAIN AccesoLibre /\ acceso'.direccion = d
    BY <1>4 DEF consultarTablaSegundoNivel, AccesoLibre
  <2>3. d \in Nat
    BY ConstantesMemoriaMmu
  <2>4. EntradasDe(numeroPagina)' = {}
    BY <2>1, <2>2 DEF EntradasDe, numeroPagina, obtenerNumeroPagina
  <2>5. AccesoEnCurso'
    BY <2>2, <2>3, <2>4 DEF AccesoEnCurso, AccesoLibre
  <2> QED BY <2>1, <2>5 DEF TlbInv, TlbBien, Distintos
<1>5. CASE consultarMarco
  <2>1. UNCHANGED <<listaTLB, usos, indiceFIFO>>
    BY <1>5 DEF consultarMarco, tlb
  <2>2. acceso.pc = "tabla" /\ acceso' = [acceso EXCEPT !.pc = "marco"]
    BY <1>5 DEF consultarMarco
  <2>3. DOMAIN acceso' = DOMAIN acceso /\ acceso'.direccion = acceso.direccion
    BY <2>2 DEF TlbInv, AccesoEnCurso, AccesoLibre
  <2>4. AccesoEnCurso'
    BY <2>1, <2>2, <2>3
       DEF TlbInv, AccesoEnCurso, AccesoLibre, EntradasDe, numeroPagina
  <2> QED BY <2>1, <2>4 DEF TlbInv, TlbBien, Distintos
<1>6. CASE consultarDireccionFisica_Miss
  <2>1. /\ acceso.pc = "marco"
        /\ agregarTLB(numeroPagina, pagina[cpu.pagina].frame)
        /\ acceso' = [acceso EXCEPT !.pc = "direccion",
                        !.fisica = direccionFisica(acceso.direccion,
                                                   pagina[cpu.pagina].frame)]
    BY <1>6 DEF consultarDireccionFisica_Miss
  <2>2. numeroPagina \in Nat /\ EntradasDe(numeroPagina) = {}
    BY <2>1, PaginaNat DEF TlbInv, AccesoEnCurso, numeroPagina
  <2>3. TlbBien(listaTLB, usos)' /\ indiceFIFO' \in 0 .. ENTRADAS_TLB - 1
    BY <2>1, <2>2, FalloTlb
  <2>4. /\ DOMAIN acceso' = DOMAIN acceso /\ acceso'.pc = "direccion"
        /\ acceso'.direccion = acceso.direccion
    BY <2>1 DEF TlbInv, AccesoEnCurso, AccesoLibre
  <2>5. AccesoEnCurso'
    BY <2>4 DEF TlbInv, AccesoEnCurso, AccesoLibre
  <2> QED BY <2>3, <2>5 DEF TlbInv
<1>7. ASSUME NEW d \in Direcciones, NEW escribe \in BOOLEAN,
             consultarDireccionFisica_Hit(d, escribe)
      PROVE  TlbInv'
  <2> DEFINE fisica == direccionFisica(d, obtenerEntradaTLB(obtenerNumeroPagina(d)).marco)
  <2>1. /\ EntradasDe(obtenerNumeroPagina(d)) # {}
        /\ actualizarTLB(obtenerNumeroPagina(d))
        /\ acceso' = [AccesoLibre EXCEPT !.pc = "direccion", !.direccion = d,
                                         !.escribe = escribe, !.fisica = fisica]
    BY <1>7 DEF consultarDireccionFisica_Hit
  <2> HIDE DEF fisica
  <2>2. TlbBien(listaTLB, usos)'
    BY <2>1, AciertoTlb DEF TlbInv
  <2>3. indiceFIFO' \in 0 .. ENTRADAS_TLB - 1
    BY <2>1 DEF TlbInv, actualizarTLB
  <2>4. d \in Nat
    BY ConstantesMemoriaMmu
  <2>5. AccesoEnCurso'
    BY <2>1, <2>4 DEF AccesoEnCurso, AccesoLibre
  <2> QED BY <2>2, <2>3, <2>5 DEF TlbInv
<1>8. CASE Acceder
  <2>1. UNCHANGED <<listaTLB, usos, indiceFIFO>> /\ acceso' = AccesoLibre
    BY <1>8 DEF Acceder, tlb
  <2>2. AccesoEnCurso'
    BY <2>1 DEF AccesoEnCurso, AccesoLibre
  <2> QED BY <2>1, <2>2 DEF TlbInv, TlbBien, Distintos
<1>9. UNCHANGED varsSistema => UNCHANGED cpuMmu
  BY DEF varsSistema
<1>10. PasoKernel \/ PasoMemoria \/ process_init_Tablas => UNCHANGED cpuMmu
  BY DEF PasoKernel, PasoMemoria, process_init_Tablas
<1> QED BY <1>1, <1>2, <1>3, <1>4, <1>5, <1>6, <1>7, <1>8, <1>9, <1>10
        DEF NextSistema

\* Whatever the accesses, the algorithm and the number of entries, the TLB
\* holds a page once at most and orders the pages it holds (mmu.c:56-179).
THEOREM TlbCorrecto == SpecSistema => []TlbSinDuplicados
<1>1. TlbInv => TlbSinDuplicados
  <2> SUFFICES ASSUME TlbInv PROVE TlbSinDuplicados
    OBVIOUS
  <2>1. TlbBien(listaTLB, usos)
    BY DEF TlbInv
  <2>2. ToSet(usos) = {listaTLB[i].pagina : i \in DOMAIN listaTLB}
    <3>1. \A i \in DOMAIN listaTLB : \E j \in DOMAIN usos : usos[j] = listaTLB[i].pagina
      BY <2>1 DEF TlbBien
    <3>2. \A j \in DOMAIN usos : \E i \in DOMAIN listaTLB : listaTLB[i].pagina = usos[j]
      BY <2>1 DEF TlbBien
    <3> QED BY <3>1, <3>2 DEF ToSet
  <2> QED BY <2>1, <2>2 DEF TlbBien, TlbSinDuplicados
<1> QED BY <1>1, TlbInicial, PasoTlb, PTL DEF SpecSistema

-----------------------------------------------------------------------------
(* Memory and the MMU together *)

\* The process in the CPU is ready, and the TLB is its own.
Corriendo ==
  /\ ejecutando \in Procesos \cup {NADIE}
  /\ ejecutando # NADIE => estado[ejecutando] = "listo" /\ PCB_ACTUAL = ejecutando

\* Every process initialised has the number of a table of its own.
NumerosDeTabla ==
  /\ tablaDePaginas \in [Procesos -> Nat]
  /\ \A p \in Procesos : estado[p] \notin {"nuevo", "creando"} =>
       /\ tablaDePaginas[p] + 1 \in DOMAIN global_first_level_page_tables
       /\ global_first_level_page_tables[tablaDePaginas[p] + 1].pid = p

\* The frames of the entries are numbers of frames.
MarcosTlb == \A i \in DOMAIN listaTLB : listaTLB[i].marco \in 0 .. CANTIDAD_FRAMES

\* What the access has done so far: memory is serving it between the request
\* and the bytes, for the page of the address.
PasosDelAcceso ==
  /\ acceso.pc \in {"libre", "tabla", "marco", "direccion"} /\ acceso.escribe \in BOOLEAN
  /\ acceso.pc # "libre" => /\ ejecutando # NADIE /\ acceso.direccion \in Direcciones
                            /\ acceso.direccion + 4 <= PROCESS_SIZE[ejecutando]
  /\ acceso.pc \in {"libre", "tabla"} <=> cpu.pc = "esperar"
  /\ acceso.pc = "tabla" =>
       /\ acceso.tabla2 + 1 \in DOMAIN global_second_level_page_tables
       /\ PaginaDeTabla(acceso.tabla2, obtenerEntradaTabla2doNivel(numeroPagina))
            = [pid |-> ejecutando, swap_page_id |-> numeroPagina]
  /\ acceso.pc \in {"marco", "direccion"} =>
       cpu.pagina = <<ejecutando, numeroPagina + 1>>
  /\ acceso.pc = "direccion" <=> cpu.pc = "acceder"
  /\ acceso.pc = "direccion" =>
       /\ cpu.frame = acceso.fisica \div TAM_PAGINA
       /\ acceso.fisica % TAM_PAGINA = acceso.direccion % TAM_PAGINA

\* The inductive invariant of the two processes, whatever the kernel suspends.
SistemaInv == Corriendo /\ NumerosDeTabla /\ MarcosTlb /\ PasosDelAcceso

\* A page of a process that runs and is not in memory has its value in swap.
Respaldo ==
  \A g \in Paginas : estado[g[1]] = "listo" /\ ~ pagina[g].P => g \in swap

\* The page the thread serves.
EnServicio ==
  /\ cpu.pc \notin {"reemplazar", "desalojar"}
  /\ cpu.pc = "cargar" =>
       /\ pagina[cpu.pagina].frame \in ocupados
       /\ \A g \in Paginas : pagina[g].P => pagina[g].frame # pagina[cpu.pagina].frame
  /\ cpu.pc \in {"marcar", "acceder"} => pagina[cpu.pagina].P
  /\ cpu.pc = "acceder" => cpu.frame = pagina[cpu.pagina].frame

\* Every entry of the TLB is of a page in memory, with its frame.
EsVigente(e) ==
  LET g == <<PCB_ACTUAL, e.pagina + 1>>
  IN  g \in Paginas /\ pagina[g].P /\ pagina[g].frame = e.marco

TlbVigente == \A i \in DOMAIN listaTLB : EsVigente(listaTLB[i])

\* An entry added leaves entries that were there, and itself.
SonDeAntes(l, e) ==
  \A i \in DOMAIN l : l[i] = e \/ \E j \in DOMAIN listaTLB : l[i] = listaTLB[j]

LEMMA EntradasTlb ==
  ASSUME TlbInv, NEW n \in Nat, NEW marco, agregarTLB(n, marco)
  PROVE  SonDeAntes(listaTLB', newEntradaTLB(n, marco))
<1> DEFINE e == newEntradaTLB(n, marco)
           m == Len(listaTLB)
<1>1. PICK S : listaTLB \in Seq(S)
  BY DEF TlbInv, TlbBien
<1>2. /\ m \in Nat /\ DOMAIN listaTLB = 1 .. m
      /\ Len(usos) = m /\ DOMAIN usos = 1 .. m /\ usos \in Seq(Nat)
  BY LargosTlb DEF TlbInv
<1> HIDE DEF e
<1>3. listaTLB \in Seq(S \cup {e}) /\ e \in S \cup {e}
  BY <1>1
<1>4. CASE listaTLB' = Append(listaTLB, e)
  <2>1. /\ listaTLB' \in Seq(S \cup {e}) /\ Len(listaTLB') = m + 1
        /\ \A i \in 1 .. m : listaTLB'[i] = listaTLB[i]
        /\ listaTLB'[m + 1] = e
    BY <1>3, <1>4, AppendProperties
  <2>2. DOMAIN listaTLB' = 1 .. m + 1
    BY <2>1, LenProperties
  <2>3. \A i \in 1 .. m + 1 : i \in 1 .. m \/ i = m + 1
    BY <1>2
  <2> QED BY <1>2, <2>1, <2>2, <2>3 DEF SonDeAntes, e
<1>5. CASE \E f : listaTLB' = [listaTLB EXCEPT ![f] = e]
  BY <1>5 DEF SonDeAntes, e
<1>6. CASE reemplazarTLB_LRU(n, marco)
  <2> DEFINE orden == [i \in DOMAIN usos |-> obtenerEntradaTLB(usos[i])]
  <2>1. listaTLB' = Append(Tail(orden), e) /\ m >= ENTRADAS_TLB
    BY <1>6 DEF reemplazarTLB_LRU, e
  <2>2. ASSUME NEW i \in 1 .. m
        PROVE  \E h \in 1 .. m : obtenerEntradaTLB(usos[i]) = listaTLB[h]
    BY <1>2, EntradaDeUso DEF TlbInv
  <2>3. /\ orden \in Seq(S) /\ Len(orden) = m
        /\ \A i \in 1 .. m : \E h \in 1 .. m : orden[i] = listaTLB[h]
    <3>1. \A i \in 1 .. m : listaTLB[i] \in S
      BY <1>1, <1>2, ElementOfSeq
    <3>2. \A i \in 1 .. m : obtenerEntradaTLB(usos[i]) \in S
      BY <2>2, <3>1
    <3>3. orden \in [1 .. m -> S]
      BY <1>2, <3>2
    <3> QED BY <1>2, <2>2, <3>3, SecuenciaDe
  <2>4. m >= 1
    <3>1. ENTRADAS_TLB \in Nat /\ ENTRADAS_TLB >= 1
      BY ConstantesMmu
    <3> HIDE DEF m, orden
    <3> QED BY <1>2, <2>1, <3>1
  <2> HIDE DEF orden
  <2>5. /\ Tail(orden) \in Seq(S \cup {e}) /\ Len(Tail(orden)) = m - 1
        /\ \A i \in 1 .. m - 1 : Tail(orden)[i] = orden[i + 1]
    <3>1. orden # <<>>
      BY <1>2, <2>3, <2>4
    <3>2. Tail(orden) \in Seq(S) /\ Len(Tail(orden)) = m - 1
          /\ \A i \in 1 .. m - 1 : Tail(orden)[i] = orden[i + 1]
      BY <2>3, <3>1, HeadTailProperties
    <3> QED BY <3>2
  <2>6. /\ listaTLB' \in Seq(S \cup {e}) /\ Len(listaTLB') = m - 1 + 1
        /\ \A i \in 1 .. m - 1 : listaTLB'[i] = Tail(orden)[i]
        /\ listaTLB'[m - 1 + 1] = e
    BY <1>3, <2>1, <2>5, AppendProperties
  <2>7. DOMAIN listaTLB' = 1 .. m /\ m - 1 + 1 = m
    <3>1. m - 1 + 1 = m
      BY <1>2
    <3> QED BY <2>6, <3>1, LenProperties
  <2> HIDE DEF m
  <2>8. \A i \in 1 .. m : i = m \/ (i \in 1 .. m - 1 /\ i + 1 \in 1 .. m)
    BY <1>2
  <2>9. ASSUME NEW i \in 1 .. m
        PROVE  listaTLB'[i] = e \/ \E h \in 1 .. m : listaTLB'[i] = listaTLB[h]
    <3>1. CASE i = m
      BY <2>6, <2>7, <3>1
    <3>2. CASE i \in 1 .. m - 1 /\ i + 1 \in 1 .. m
      <4>1. listaTLB'[i] = orden[i + 1]
        BY <2>5, <2>6, <3>2
      <4>2. PICK h \in 1 .. m : orden[i + 1] = listaTLB[h]
        BY <2>3, <3>2
      <4> QED BY <4>1, <4>2
    <3> QED BY <2>8, <3>1, <3>2
  <2> QED BY <1>2, <2>7, <2>9 DEF SonDeAntes, e
<1> QED BY <1>4, <1>5, <1>6
        DEF agregarTLB, agregarTLB_Libre, reemplazarTLB_FIFO, e

\* An address of a process is in a page of it.
LEMMA PaginaDeDireccion ==
  ASSUME NEW p \in Procesos, NEW d \in Direcciones, d + 4 <= PROCESS_SIZE[p]
  PROVE  /\ d \in Nat /\ obtenerNumeroPagina(d) \in Nat
         /\ obtenerNumeroPagina(d) \in 0 .. PaginasDeProceso(p) - 1
         /\ <<p, obtenerNumeroPagina(d) + 1>> \in Paginas
<1> DEFINE n == obtenerNumeroPagina(d)
<1>1. d \in Nat /\ p \in DOMAIN PROCESS_SIZE /\ Tamanio[p] = PaginasDeProceso(p)
  BY ConstantesMemoriaMmu
<1>2. PROCESS_SIZE[p] \in Nat /\ PaginasDeProceso(p) \in Nat
  BY <1>1, PaginasNat
<1>3. d \in 0 .. PROCESS_SIZE[p] - 1
  BY <1>1, <1>2
<1>4. n \in 0 .. PaginasDeProceso(p) - 1
  BY <1>2, <1>3, PaginasAlcanzan DEF PaginasDeProceso
<1> HIDE DEF n
<1>5. n \in Nat /\ n + 1 \in Nat /\ n + 1 >= 1 /\ n + 1 <= Tamanio[p]
  BY <1>1, <1>2, <1>4
<1>6. <<p, n + 1>> \in Paginas
  BY <1>5, Constantes
<1> QED BY <1>1, <1>4, <1>5, <1>6 DEF n

\* And the way the CPU goes through the tables of the process leads to it.
LEMMA PaginaPorTablas ==
  ASSUME IInvTablas, NumerosDeTabla, NEW p \in Procesos, estado[p] = "listo",
         NEW d \in Direcciones, d + 4 <= PROCESS_SIZE[p],
         NEW n, n = obtenerNumeroPagina(d),
         NEW t2, t2 = get_second_level_page_table(tablaDePaginas[p],
                                                  obtenerEntradaTabla1erNivel(n))
  PROVE  /\ t2 + 1 \in DOMAIN global_second_level_page_tables
         /\ PaginaDeTabla(t2, obtenerEntradaTabla2doNivel(n))
              = [pid |-> p, swap_page_id |-> n]
<1> DEFINE t == tablaDePaginas[p] + 1
           e == global_first_level_page_tables[t].first_level_entries
           total == PaginasDeProceso(p)
           ts == tablasDe(p, total)
           i == obtenerEntradaTabla1erNivel(n) + 1
           j == obtenerEntradaTabla2doNivel(n) + 1
<1>1. n \in 0 .. total - 1
  BY PaginaDeDireccion
<1>2. total \in Nat
  BY PaginasNat, ConstantesMemoriaMmu
<1>3. /\ t \in DOMAIN global_first_level_page_tables
      /\ global_first_level_page_tables[t].pid = p
  BY DEF NumerosDeTabla
<1>4. i \in DOMAIN ts /\ ts[i][j] = [pid |-> p, swap_page_id |-> n]
  <2> HIDE DEF total
  <2> QED BY <1>1, <1>2, EntradasDePagina
<1>5. /\ e[i] + 1 \in DOMAIN global_second_level_page_tables
      /\ global_second_level_page_tables[e[i] + 1] = ts[i]
  BY <1>3, <1>4 DEF IInvTablas, TablasPropias
<1>6. t2 = e[i]
  BY DEF get_second_level_page_table
<1> QED BY <1>4, <1>5, <1>6 DEF PaginaDeTabla

\* The tables only grow, and those made last are of the new process.
LEMMA TablasCrecen ==
  ASSUME IInvTablas, NEW pid \in DOMAIN PROCESS_SIZE, crearEstructuras(pid)
  PROVE  /\ Len(global_first_level_page_tables) \in Nat
         /\ \A t \in DOMAIN global_first_level_page_tables :
              /\ t \in DOMAIN global_first_level_page_tables'
              /\ global_first_level_page_tables'[t] = global_first_level_page_tables[t]
         /\ \A t \in DOMAIN global_second_level_page_tables :
              /\ t \in DOMAIN global_second_level_page_tables'
              /\ global_second_level_page_tables'[t] = global_second_level_page_tables[t]
         /\ LET t == Len(global_first_level_page_tables) + 1
            IN  /\ t \in DOMAIN global_first_level_page_tables'
                /\ global_first_level_page_tables'[t].pid = pid
<1> DEFINE primeras == global_first_level_page_tables
           segundas == global_second_level_page_tables
           nuevas == tablasDe(pid, PaginasDeProceso(pid))
           numeros == [i \in 1 .. Len(nuevas) |-> Len(segundas) + (i - 1)]
           primera == [pid |-> pid, first_level_entries |-> numeros]
<1>1. primeras' = Append(primeras, primera) /\ segundas' = segundas \o nuevas
  BY DEF crearEstructuras, create_pid_memory
<1>2. primeras \in Seq(Entrada1) /\ segundas \in Seq(Seq(Pagina2))
  BY DEF IInvTablas, TypeTablas
<1>3. nuevas \in Seq(Seq([pid : {pid}, swap_page_id : Int]))
  BY PaginasNat, FormaDeTablas
<1>4. primera.pid = pid
  OBVIOUS
<1> HIDE DEF nuevas, primera
<1>5. /\ Len(primeras) \in Nat /\ DOMAIN primeras = 1 .. Len(primeras)
      /\ DOMAIN primeras' = 1 .. Len(primeras) + 1
      /\ \A t \in 1 .. Len(primeras) : primeras'[t] = primeras[t]
      /\ primeras'[Len(primeras) + 1] = primera
  <2> DEFINE S == Entrada1 \cup {primera}
  <2>1. primeras \in Seq(S) /\ primera \in S
    BY <1>2
  <2> HIDE DEF S
  <2>2. /\ Append(primeras, primera) \in Seq(S)
        /\ Len(Append(primeras, primera)) = Len(primeras) + 1
        /\ \A t \in 1 .. Len(primeras) : Append(primeras, primera)[t] = primeras[t]
        /\ Append(primeras, primera)[Len(primeras) + 1] = primera
    BY <2>1, AppendProperties
  <2> QED BY <1>1, <2>1, <2>2, LenProperties
<1>6. /\ DOMAIN segundas = 1 .. Len(segundas) /\ Len(segundas) \in Nat
      /\ Len(nuevas) \in Nat
      /\ DOMAIN segundas' = 1 .. Len(segundas) + Len(nuevas)
      /\ \A t \in 1 .. Len(segundas) : segundas'[t] = segundas[t]
  <2> DEFINE A == Seq(Pagina2)
             B == Seq([pid : {pid}, swap_page_id : Int])
             S == A \cup B
  <2>1. segundas \in Seq(S) /\ nuevas \in Seq(S)
    <3>1. segundas \in Seq(A) /\ nuevas \in Seq(B)
      BY <1>2, <1>3
    <3> HIDE DEF A, B
    <3> QED BY <3>1
  <2> HIDE DEF S
  <2>2. /\ DOMAIN segundas = 1 .. Len(segundas) /\ Len(segundas) \in Nat
        /\ Len(nuevas) \in Nat
    BY <2>1, LenProperties
  <2>3. /\ segundas \o nuevas \in Seq(S)
        /\ Len(segundas \o nuevas) = Len(segundas) + Len(nuevas)
        /\ \A t \in 1 .. Len(segundas) + Len(nuevas) :
             (segundas \o nuevas)[t] = IF t <= Len(segundas) THEN segundas[t]
                                       ELSE nuevas[t - Len(segundas)]
    BY <2>1, ConcatProperties
  <2>4. \A t \in 1 .. Len(segundas) :
          t \in 1 .. Len(segundas) + Len(nuevas) /\ t <= Len(segundas)
    BY <2>2
  <2> QED BY <1>1, <2>2, <2>3, <2>4, LenProperties
<1>7. \A t \in 1 .. Len(primeras) : t \in 1 .. Len(primeras) + 1
  BY <1>5
<1>8. Len(primeras) + 1 \in 1 .. Len(primeras) + 1
  BY <1>5
<1>9. \A t \in 1 .. Len(segundas) : t \in 1 .. Len(segundas) + Len(nuevas)
  BY <1>6
<1> QED BY <1>4, <1>5, <1>6, <1>7, <1>8, <1>9

\* A hit reads or writes the frame of the entry, for the page of the address.
LEMMA AciertoCambia ==
  ASSUME TypeOK, TlbInv, SistemaInv, NEW d \in Direcciones, NEW escribe \in BOOLEAN,
         consultarDireccionFisica_Hit(d, escribe)
  PROVE  \E h \in DOMAIN listaTLB :
           LET n == obtenerNumeroPagina(d)
           IN  /\ ejecutando \in Procesos /\ estado[ejecutando] = "listo"
               /\ PCB_ACTUAL = ejecutando
               /\ listaTLB[h].pagina = n /\ listaTLB[h].marco \in 0 .. CANTIDAD_FRAMES
               /\ <<ejecutando, n + 1>> \in Paginas
               /\ cpu' = [cpu EXCEPT !.pc = "acceder", !.pagina = <<ejecutando, n + 1>>,
                                     !.escribe = escribe, !.frame = listaTLB[h].marco]
               /\ cpu.pc = "esperar" /\ cpu'.pc = "acceder"
               /\ cpu'.pagina = <<ejecutando, n + 1>>
               /\ cpu'.frame = listaTLB[h].marco
               /\ cpu'.frame = acceso'.fisica \div TAM_PAGINA
               /\ acceso'.fisica % TAM_PAGINA = d % TAM_PAGINA
               /\ acceso'.pc = "direccion" /\ acceso'.direccion = d
<1> DEFINE n == obtenerNumeroPagina(d)
           fisica == direccionFisica(d, obtenerEntradaTLB(n).marco)
           f == fisica \div TAM_PAGINA
<1>1. /\ ejecutando # NADIE /\ acceso.pc = "libre" /\ d + 4 <= PROCESS_SIZE[ejecutando]
      /\ EntradasDe(n) # {}
      /\ acceso' = [AccesoLibre EXCEPT !.pc = "direccion", !.direccion = d,
                                       !.escribe = escribe, !.fisica = fisica]
      /\ cpu' = [cpu EXCEPT !.pc = "acceder", !.pagina = <<ejecutando, n + 1>>,
                            !.escribe = escribe, !.frame = f]
  BY DEF consultarDireccionFisica_Hit
<1>2. ejecutando \in Procesos /\ estado[ejecutando] = "listo" /\ PCB_ACTUAL = ejecutando
  BY <1>1 DEF SistemaInv, Corriendo
<1>3. d \in Nat /\ <<ejecutando, n + 1>> \in Paginas
  BY <1>1, <1>2, PaginaDeDireccion
<1>4. PICK h \in DOMAIN listaTLB :
        obtenerEntradaTLB(n) = listaTLB[h] /\ listaTLB[h].pagina = n
  BY <1>1, EntradaEncontrada DEF TlbInv
<1>5. listaTLB[h].marco \in 0 .. CANTIDAD_FRAMES /\ listaTLB[h].marco \in Nat
  BY Constantes DEF SistemaInv, MarcosTlb
<1>6. f = listaTLB[h].marco /\ fisica % TAM_PAGINA = d % TAM_PAGINA
  BY <1>3, <1>4, <1>5, DireccionExacta DEF direccionFisica
<1>7. cpu.pc = "esperar"
  BY <1>1 DEF SistemaInv, PasosDelAcceso
<1> HIDE DEF n, fisica, f
<1>8. acceso'.fisica = fisica /\ acceso'.pc = "direccion" /\ acceso'.direccion = d
  BY <1>1 DEF AccesoLibre
<1>9. cpu'.pc = "acceder" /\ cpu'.pagina = <<ejecutando, n + 1>> /\ cpu'.frame = f
  BY <1>1 DEF TypeOK
<1>10. f = fisica \div TAM_PAGINA
  BY DEF f
<1> QED BY <1>1, <1>2, <1>3, <1>4, <1>5, <1>6, <1>7, <1>8, <1>9, <1>10 DEF n

\* Every other step is one of memory, or none.
LEMMA EsPasoDeMemoria ==
  ASSUME SistemaInv, [NextSistema]_varsSistema
  PROVE  \/ [Next]_vars
         \/ \E d \in Direcciones, escribe \in BOOLEAN :
              consultarDireccionFisica_Hit(d, escribe)
<1>1. CASE PasoKernel
  BY <1>1 DEF PasoKernel, Next, Entorno
<1>2. CASE PasoMemoria
  BY <1>2 DEF PasoMemoria, Next, process_kernel_functions, process_cpu_functions
<1>3. CASE process_init_Tablas
  BY <1>3 DEF process_init_Tablas, Next, process_kernel_functions
<1>4. CASE consultarMarco
  <2>1. acceso.pc = "tabla" /\ ejecutando \in Procesos
    BY <1>4 DEF consultarMarco, SistemaInv, PasosDelAcceso, Corriendo
  <2>2. PaginaDeTabla(acceso.tabla2, obtenerEntradaTabla2doNivel(numeroPagina))
          = [pid |-> ejecutando, swap_page_id |-> numeroPagina]
    BY <2>1 DEF SistemaInv, PasosDelAcceso
  <2>3. get_frame(<<ejecutando, numeroPagina + 1>>, acceso.escribe)
    BY <1>4, <2>2 DEF consultarMarco
  <2>4. <<ejecutando, numeroPagina + 1>> \in Paginas
    BY <2>1, PaginaDeDireccion DEF SistemaInv, PasosDelAcceso, numeroPagina
  <2>5. acceso.escribe \in BOOLEAN
    BY DEF SistemaInv, PasosDelAcceso
  <2> QED BY <2>3, <2>4, <2>5 DEF Next, Entorno
<1>5. CASE consultarDireccionFisica_Miss
  BY <1>5 DEF consultarDireccionFisica_Miss, Next, process_cpu_functions
<1>6. CASE Acceder
  BY <1>6 DEF Acceder, memoria_read, memoria_write, Next, process_cpu_functions
<1>7. CASE \/ \E p \in Procesos : deserializarDispatch(p)
           \/ cicloInstruccion_Devuelve
           \/ \E d \in Direcciones, escribe \in BOOLEAN :
                consultarTablaSegundoNivel(d, escribe)
           \/ UNCHANGED varsSistema
  BY <1>7 DEF deserializarDispatch, cicloInstruccion_Devuelve,
     consultarTablaSegundoNivel, varsSistema
<1> QED BY <1>1, <1>2, <1>3, <1>4, <1>5, <1>6, <1>7 DEF NextSistema

\* The invariant of memory holds with the MMU too.
LEMMA IInvDelSistema ==
  ASSUME IInv, TlbInv, SistemaInv, [NextSistema]_varsSistema
  PROVE  IInv'
<1>1. CASE [Next]_vars
  BY <1>1, TipoSigue, PedidosSiguen, CpuSigue DEF IInv
<1>2. ASSUME NEW d \in Direcciones, NEW escribe \in BOOLEAN,
             consultarDireccionFisica_Hit(d, escribe)
      PROVE  IInv'
  <2> DEFINE n == obtenerNumeroPagina(d)
  <2>1. PICK h \in DOMAIN listaTLB :
          /\ ejecutando \in Procesos /\ estado[ejecutando] = "listo"
          /\ listaTLB[h].marco \in 0 .. CANTIDAD_FRAMES
          /\ <<ejecutando, n + 1>> \in Paginas
          /\ cpu' = [cpu EXCEPT !.pc = "acceder", !.pagina = <<ejecutando, n + 1>>,
                                !.escribe = escribe, !.frame = listaTLB[h].marco]
          /\ cpu'.pc = "acceder" /\ cpu'.pagina = <<ejecutando, n + 1>>
    BY ZenonT(30), <1>2, AciertoCambia DEF IInv
  <2> HIDE DEF n
  <2>2. UNCHANGED <<pedidos, kernel, pagina, process_extra_info, ocupados, datos>>
    BY <1>2 DEF consultarDireccionFisica_Hit
  <2>3. TipoCpu(cpu')
    <3> DEFINE g == <<ejecutando, n + 1>>
               f == listaTLB[h].marco
    <3>1. cpu' = [cpu EXCEPT !.pc = "acceder", !.pagina = g, !.escribe = escribe,
                             !.frame = f]
          /\ g \in Paginas /\ f \in 0 .. CANTIDAD_FRAMES
      BY <2>1
    <3>2. TipoCpu(cpu)
      BY TiposEs DEF IInv
    <3> HIDE DEF g, f
    <3> QED BY <3>1, <3>2 DEF TipoCpu
  <2>4. TypeOK'
    BY <2>2, <2>3
       DEF IInv, TypeOK, TipoCpu, pedidos, datos
  <2>5. PedidosInv'
    BY <2>2 DEF IInv, PedidosInv, HayEntrada, pedidos
  <2>6. CpuInv'
    <3> DEFINE g == <<ejecutando, n + 1>>
    <3>1. cpu'.pc = "acceder" /\ cpu'.pagina = g /\ g \in Paginas /\ estado'[g[1]] = "listo"
      BY <2>1, <2>2 DEF pedidos
    <3> HIDE DEF g
    <3> QED BY <3>1 DEF CpuInv
  <2> QED BY <2>4, <2>5, <2>6 DEF IInv
<1> QED BY <1>1, <1>2, EsPasoDeMemoria

\* What the kernel asks for, and what it is answered, leaves the process in
\* the CPU ready, and none that has no table yet.
LEMMA EstadosSiguen ==
  ASSUME TypeOK, PedidosInv, Corriendo, PasoKernel \/ process_kernel_salida
  PROVE  /\ ejecutando # NADIE => estado'[ejecutando] = "listo"
         /\ \A p \in Procesos : estado'[p] \notin {"nuevo", "creando"} =>
              estado[p] \notin {"nuevo", "creando"}
<1> DEFINE Sigue == /\ ejecutando # NADIE => estado'[ejecutando] = "listo"
                    /\ \A p \in Procesos : estado'[p] \notin {"nuevo", "creando"} =>
                         estado[p] \notin {"nuevo", "creando"}
<1>1. /\ estado \in [Procesos -> Estados]
      /\ ejecutando # NADIE => ejecutando \in Procesos /\ estado[ejecutando] = "listo"
  BY DEF TypeOK, Corriendo
<1>2. ASSUME NEW p \in Procesos, NEW e, estado' = [estado EXCEPT ![p] = e],
             p # ejecutando \/ estado[p] # "listo",
             estado[p] \notin {"nuevo", "creando"} \/ e \in {"nuevo", "creando"}
      PROVE  Sigue
  BY <1>1, <1>2
<1>3. ASSUME estado' = estado PROVE Sigue
  BY <1>1, <1>3
<1> SUFFICES Sigue
  OBVIOUS
<1> HIDE DEF Sigue
<1>4. ASSUME NEW p \in Procesos, PedirInit(p) PROVE Sigue
  BY <1>2, <1>4 DEF PedirInit, server_listen_ram
<1>5. ASSUME NEW p \in Procesos, Reanudar(p) PROVE Sigue
  BY <1>2, <1>5 DEF Reanudar
<1>6. ASSUME NEW p \in Procesos, p # ejecutando, PedirSuspend(p) \/ PedirKill(p) PROVE Sigue
  BY <1>2, <1>6 DEF PedirSuspend, PedirKill, server_listen_ram
<1>7. CASE process_suspend_Fin
  <2>1. /\ kernel.pedido.pid \in Procesos /\ estado[kernel.pedido.pid] = "suspendiendo"
        /\ estado' = [estado EXCEPT ![kernel.pedido.pid] = "suspendido"]
    BY <1>7 DEF process_suspend_Fin, PedidosInv, EnEspera, Pedido
  <2> QED BY <1>2, <2>1
<1>8. CASE \/ process_suspend \/ process_kill
           \/ swap_second_level_entry \/ swap_second_level_entry_Liberar
           \/ swap_second_level_entry_Saltear \/ suspend_pid_Fin
           \/ free_memory \/ free_second_level_entry \/ process_kill_Fin
  <2>1. estado' = estado
    BY <1>8 DEF process_suspend, process_kill, swap_second_level_entry,
       swap_second_level_entry_Liberar, swap_second_level_entry_Saltear,
       suspend_pid_Fin, free_memory, free_second_level_entry, process_kill_Fin, pedidos
  <2> QED BY <1>3, <2>1
<1> QED BY <1>4, <1>5, <1>6, <1>7, <1>8 DEF PasoKernel, process_kernel_salida

\* While memory looks for the page, it serves the same one.
LEMMA BuscandoSigue ==
  ASSUME TypeOK, CpuInv,
         \/ get_frame_number_Presente \/ get_frame_number_FrameLibre
         \/ find_victim_page_to_replace
         \/ get_frame_number_Guardar \/ get_frame_number_Desalojar
         \/ write_page_in_memory
  PROVE  /\ cpu.pc \notin {"esperar", "acceder"} /\ cpu'.pc \notin {"esperar", "acceder"}
         /\ cpu'.pagina = cpu.pagina /\ estado' = estado
<1>1. CASE get_frame_number_Presente
  BY <1>1 DEF get_frame_number_Presente, CpuPasa, TypeOK, pedidos
<1>2. CASE get_frame_number_FrameLibre
  BY <1>2 DEF get_frame_number_FrameLibre, CpuPasa, TypeOK, pedidos
<1>3. CASE find_victim_page_to_replace
  <2>1. \E v : cpu' = [cpu EXCEPT !.pc = "reemplazar", !.victima = v]
    BY <1>3 DEF find_victim_page_to_replace
  <2>2. cpu'.pc = "reemplazar" /\ cpu'.pagina = cpu.pagina
    BY <2>1 DEF TypeOK
  <2> QED BY <1>3, <2>2 DEF find_victim_page_to_replace, BuscaVictima, pedidos
<1>4. CASE get_frame_number_Guardar
  BY <1>4 DEF get_frame_number_Guardar, CpuPasa, TypeOK, pedidos
<1>5. CASE get_frame_number_Desalojar
  BY <1>5 DEF get_frame_number_Desalojar, CpuPasa, TypeOK, pedidos
<1>6. CASE write_page_in_memory
  BY <1>6 DEF write_page_in_memory, CpuPasa, TypeOK, pedidos
<1> QED BY <1>1, <1>2, <1>3, <1>4, <1>5, <1>6

\* A step that leaves the MMU and the tables alone, and at most looks for the
\* page of the access.
LEMMA SistemaQuieto ==
  ASSUME SistemaInv, UNCHANGED <<cpuMmu, tablas, tablaDePaginas>>,
         ejecutando # NADIE => estado'[ejecutando] = "listo",
         \A p \in Procesos : estado'[p] \notin {"nuevo", "creando"} =>
           estado[p] \notin {"nuevo", "creando"},
         \/ cpu' = cpu
         \/ /\ cpu.pc \notin {"esperar", "acceder"} /\ cpu'.pc \notin {"esperar", "acceder"}
            /\ cpu'.pagina = cpu.pagina
  PROVE  SistemaInv'
<1>1. /\ listaTLB' = listaTLB /\ PCB_ACTUAL' = PCB_ACTUAL
      /\ ejecutando' = ejecutando /\ acceso' = acceso /\ tablaDePaginas' = tablaDePaginas
      /\ global_first_level_page_tables' = global_first_level_page_tables
      /\ global_second_level_page_tables' = global_second_level_page_tables
  BY DEF cpuMmu, tlb, tablas
<1>2. Corriendo'
  BY <1>1 DEF SistemaInv, Corriendo
<1>3. NumerosDeTabla'
  BY <1>1 DEF SistemaInv, NumerosDeTabla
<1>4. MarcosTlb'
  BY <1>1 DEF SistemaInv, MarcosTlb
<1>5. PasosDelAcceso'
  <2>1. numeroPagina' = numeroPagina
        /\ PaginaDeTabla(acceso.tabla2, obtenerEntradaTabla2doNivel(numeroPagina))'
             = PaginaDeTabla(acceso.tabla2, obtenerEntradaTabla2doNivel(numeroPagina))
    BY <1>1 DEF numeroPagina, PaginaDeTabla, obtenerNumeroPagina,
                obtenerEntradaTabla2doNivel
  <2>2. CASE cpu' = cpu
    BY <1>1, <2>1, <2>2 DEF SistemaInv, PasosDelAcceso
  <2>3. CASE /\ cpu.pc \notin {"esperar", "acceder"} /\ cpu'.pc \notin {"esperar", "acceder"}
             /\ cpu'.pagina = cpu.pagina
    BY <1>1, <2>1, <2>3 DEF SistemaInv, PasosDelAcceso
  <2> QED BY <2>2, <2>3
<1> QED BY <1>2, <1>3, <1>4, <1>5 DEF SistemaInv

\* A new process gets its tables, after those of the others.
LEMMA SistemaInicia ==
  ASSUME TypeOK, PedidosInv, IInvTablas, SistemaInv, process_init_Tablas
  PROVE  SistemaInv'
<1> DEFINE p == Head(kernel_queue).pid
           m == Len(global_first_level_page_tables)
<1>1. /\ crearEstructuras(p) /\ tablaDePaginas' = [tablaDePaginas EXCEPT ![p] = m]
      /\ UNCHANGED cpuMmu /\ process_init
  BY DEF process_init_Tablas
<1>2. Tomar("INIT", "esperar") /\ estado' = [estado EXCEPT ![p] = "listo"] /\ cpu' = cpu
  BY <1>1 DEF process_init
<1>3. p \in Procesos /\ estado[p] = "creando"
  <2>1. kernel_queue[1] \in Pedido /\ estado[kernel_queue[1].pid] = EnEspera("INIT")
    BY <1>2, TomarSigue
  <2>2. Head(kernel_queue) = kernel_queue[1]
    BY <1>2 DEF Tomar, TypeOK
  <2> QED BY <2>1, <2>2 DEF Pedido, EnEspera
<1>4. /\ m \in Nat
      /\ \A t \in DOMAIN global_first_level_page_tables :
           /\ t \in DOMAIN global_first_level_page_tables'
           /\ global_first_level_page_tables'[t] = global_first_level_page_tables[t]
      /\ \A t \in DOMAIN global_second_level_page_tables :
           /\ t \in DOMAIN global_second_level_page_tables'
           /\ global_second_level_page_tables'[t] = global_second_level_page_tables[t]
      /\ m + 1 \in DOMAIN global_first_level_page_tables'
      /\ global_first_level_page_tables'[m + 1].pid = p
  BY <1>1, <1>3, TablasCrecen, ConstantesMemoriaMmu
<1>5. /\ listaTLB' = listaTLB /\ PCB_ACTUAL' = PCB_ACTUAL
      /\ ejecutando' = ejecutando /\ acceso' = acceso
  BY <1>1 DEF cpuMmu, tlb
<1> HIDE DEF p, m
<1>6. /\ estado'[p] = "listo"
      /\ \A q \in Procesos : q # p => estado'[q] = estado[q]
  BY <1>2, <1>3 DEF TypeOK
<1>7. Corriendo'
  BY <1>3, <1>5, <1>6 DEF SistemaInv, Corriendo
<1>8. NumerosDeTabla'
  <2>1. tablaDePaginas \in [Procesos -> Nat]
    BY DEF SistemaInv, NumerosDeTabla
  <2>2. /\ tablaDePaginas' \in [Procesos -> Nat] /\ tablaDePaginas'[p] = m
        /\ \A q \in Procesos : q # p => tablaDePaginas'[q] = tablaDePaginas[q]
    BY <1>1, <1>3, <1>4, <2>1
  <2>3. ASSUME NEW q \in Procesos, estado'[q] \notin {"nuevo", "creando"}
        PROVE  /\ tablaDePaginas'[q] + 1 \in DOMAIN global_first_level_page_tables'
               /\ global_first_level_page_tables'[tablaDePaginas'[q] + 1].pid = q
    <3>1. CASE q = p
      BY <1>4, <2>2, <3>1
    <3>2. CASE q # p
      <4>1. estado[q] \notin {"nuevo", "creando"} /\ tablaDePaginas'[q] = tablaDePaginas[q]
        BY <1>6, <2>2, <2>3, <3>2
      <4>2. /\ tablaDePaginas[q] + 1 \in DOMAIN global_first_level_page_tables
            /\ global_first_level_page_tables[tablaDePaginas[q] + 1].pid = q
        BY <4>1 DEF SistemaInv, NumerosDeTabla
      <4> QED BY <1>4, <4>1, <4>2
    <3> QED BY <3>1, <3>2
  <2> QED BY <2>2, <2>3 DEF NumerosDeTabla
<1>9. MarcosTlb'
  BY <1>5 DEF SistemaInv, MarcosTlb
<1>10. PasosDelAcceso'
  <2>1. numeroPagina' = numeroPagina
    BY <1>5 DEF numeroPagina, obtenerNumeroPagina
  <2>2. acceso.pc = "tabla" =>
          /\ acceso.tabla2 + 1 \in DOMAIN global_second_level_page_tables'
          /\ PaginaDeTabla(acceso.tabla2, obtenerEntradaTabla2doNivel(numeroPagina))'
               = [pid |-> ejecutando, swap_page_id |-> numeroPagina]
    BY <1>4, <1>5, <2>1 DEF SistemaInv, PasosDelAcceso, PaginaDeTabla,
                            obtenerEntradaTabla2doNivel
  <2> QED BY <1>2, <1>5, <2>1, <2>2 DEF SistemaInv, PasosDelAcceso
<1> QED BY <1>7, <1>8, <1>9, <1>10 DEF SistemaInv

\* The steps of the access.
LEMMA SistemaAccede ==
  ASSUME TypeOK, CpuInv, IInvTablas, TlbInv, SistemaInv,
         \/ \E d \in Direcciones, escribe \in BOOLEAN :
              \/ consultarTablaSegundoNivel(d, escribe)
              \/ consultarDireccionFisica_Hit(d, escribe)
         \/ consultarMarco \/ consultarDireccionFisica_Miss \/ Acceder
  PROVE  SistemaInv'
<1>a. /\ estado' = estado /\ ejecutando' = ejecutando /\ tablaDePaginas' = tablaDePaginas
      /\ PCB_ACTUAL' = PCB_ACTUAL /\ UNCHANGED tablas
  BY DEF consultarTablaSegundoNivel, consultarDireccionFisica_Hit, consultarMarco,
     consultarDireccionFisica_Miss, Acceder, memoria_read, memoria_write, vars, pedidos,
     get_frame, get_frame_number_Marcar, read_fisical_address, write_memory_data, tlb,
     actualizarTLB, agregarTLB
<1>b. Corriendo' /\ NumerosDeTabla'
  BY <1>a DEF SistemaInv, Corriendo, NumerosDeTabla, tablas
<1>c. \A n, e : PaginaDeTabla(n, e)' = PaginaDeTabla(n, e)
  BY <1>a DEF PaginaDeTabla, tablas
<1>d. acceso.pc # "libre" => ejecutando \in Procesos /\ acceso.direccion \in Direcciones
  BY DEF SistemaInv, PasosDelAcceso, Corriendo
<1>e. DOMAIN acceso = DOMAIN AccesoLibre
  BY DEF TlbInv, AccesoEnCurso
<1>1. ASSUME NEW d \in Direcciones, NEW escribe \in BOOLEAN,
             consultarTablaSegundoNivel(d, escribe)
      PROVE  MarcosTlb' /\ PasosDelAcceso'
  <2> DEFINE n == obtenerNumeroPagina(d)
             t2 == get_second_level_page_table(tablaDePaginas[ejecutando],
                                               obtenerEntradaTabla1erNivel(n))
  <2>1. /\ ejecutando # NADIE /\ acceso.pc = "libre" /\ d + 4 <= PROCESS_SIZE[ejecutando]
        /\ acceso' = [pc |-> "tabla", direccion |-> d, escribe |-> escribe,
                      tabla2 |-> t2, fisica |-> 0]
        /\ listaTLB' = listaTLB /\ cpu' = cpu
    BY <1>1 DEF consultarTablaSegundoNivel, tlb, vars
  <2>2. ejecutando \in Procesos /\ estado[ejecutando] = "listo"
    BY <2>1 DEF SistemaInv, Corriendo
  <2>3. /\ t2 + 1 \in DOMAIN global_second_level_page_tables
        /\ PaginaDeTabla(t2, obtenerEntradaTabla2doNivel(n))
             = [pid |-> ejecutando, swap_page_id |-> n]
    BY <2>1, <2>2, PaginaPorTablas DEF SistemaInv
  <2>4. acceso'.pc = "tabla" /\ acceso'.direccion = d /\ acceso'.tabla2 = t2
        /\ acceso'.escribe = escribe
    BY <2>1
  <2>5. numeroPagina' = n
    BY <2>4 DEF numeroPagina, obtenerNumeroPagina
  <2> HIDE DEF n, t2
  <2>6. /\ acceso'.tabla2 + 1 \in DOMAIN global_second_level_page_tables'
        /\ PaginaDeTabla(acceso.tabla2, obtenerEntradaTabla2doNivel(numeroPagina))'
             = [pid |-> ejecutando, swap_page_id |-> n]
    BY <1>a, <2>3, <2>4, <2>5 DEF PaginaDeTabla, obtenerEntradaTabla2doNivel, tablas
  <2>7. cpu.pc = "esperar"
    BY <2>1 DEF SistemaInv, PasosDelAcceso
  <2>8. PasosDelAcceso'
    BY <1>a, <2>1, <2>4, <2>5, <2>6, <2>7 DEF PasosDelAcceso
  <2> QED BY <2>1, <2>8 DEF SistemaInv, MarcosTlb
<1>2. ASSUME NEW d \in Direcciones, NEW escribe \in BOOLEAN,
             consultarDireccionFisica_Hit(d, escribe)
      PROVE  MarcosTlb' /\ PasosDelAcceso'
  <2>1. /\ cpu'.pc = "acceder"
        /\ cpu'.pagina = <<ejecutando, obtenerNumeroPagina(d) + 1>>
        /\ cpu'.frame = acceso'.fisica \div TAM_PAGINA
        /\ acceso'.fisica % TAM_PAGINA = d % TAM_PAGINA
        /\ acceso'.pc = "direccion" /\ acceso'.direccion = d
    BY <1>2, AciertoCambia
  <2>2. /\ ejecutando # NADIE /\ d + 4 <= PROCESS_SIZE[ejecutando]
        /\ listaTLB' = listaTLB
    BY <1>2 DEF consultarDireccionFisica_Hit, actualizarTLB
  <2>3. acceso'.escribe \in BOOLEAN
    BY <1>2 DEF consultarDireccionFisica_Hit, AccesoLibre
  <2>4. numeroPagina' = obtenerNumeroPagina(d)
    BY <2>1 DEF numeroPagina, obtenerNumeroPagina
  <2>5. PasosDelAcceso'
    BY <1>a, <2>1, <2>2, <2>3, <2>4 DEF PasosDelAcceso
  <2> QED BY <2>2, <2>5 DEF SistemaInv, MarcosTlb
<1>3. ASSUME consultarMarco PROVE MarcosTlb' /\ PasosDelAcceso'
  <2>1. /\ acceso.pc = "tabla" /\ acceso' = [acceso EXCEPT !.pc = "marco"]
        /\ listaTLB' = listaTLB
    BY <1>3 DEF consultarMarco, tlb
  <2>2. PaginaDeTabla(acceso.tabla2, obtenerEntradaTabla2doNivel(numeroPagina))
          = [pid |-> ejecutando, swap_page_id |-> numeroPagina]
    BY <2>1 DEF SistemaInv, PasosDelAcceso
  <2>3. get_frame(<<ejecutando, numeroPagina + 1>>, acceso.escribe)
    BY <1>3, <2>2 DEF consultarMarco
  <2>4. cpu'.pc = "consultar" /\ cpu'.pagina = <<ejecutando, numeroPagina + 1>>
    BY <2>3 DEF get_frame, TypeOK
  <2>5. /\ acceso'.pc = "marco" /\ acceso'.direccion = acceso.direccion
        /\ acceso'.escribe = acceso.escribe
    BY <1>e, <2>1 DEF AccesoLibre
  <2>6. numeroPagina' = numeroPagina
    BY <2>5 DEF numeroPagina, obtenerNumeroPagina
  <2>7. PasosDelAcceso'
    BY <1>a, <2>1, <2>4, <2>5, <2>6 DEF SistemaInv, PasosDelAcceso
  <2> QED BY <2>1, <2>7 DEF SistemaInv, MarcosTlb
<1>4. ASSUME consultarDireccionFisica_Miss PROVE MarcosTlb' /\ PasosDelAcceso'
  <2> DEFINE marco == pagina[cpu.pagina].frame
             fisica == direccionFisica(acceso.direccion, marco)
  <2>1. /\ acceso.pc = "marco" /\ get_frame_number_Marcar
        /\ agregarTLB(numeroPagina, marco)
        /\ acceso' = [acceso EXCEPT !.pc = "direccion", !.fisica = fisica]
    BY <1>4 DEF consultarDireccionFisica_Miss
  <2>2. /\ acceso.direccion \in Nat /\ numeroPagina \in Nat
    BY <1>d, <2>1, ConstantesMemoriaMmu, PaginaNat DEF numeroPagina
  <2>3. cpu' = [cpu EXCEPT !.pc = "acceder", !.frame = marco] /\ cpu.pagina \in Paginas
    BY <2>1, MarcarCambia
  <2>4. marco \in 0 .. CANTIDAD_FRAMES /\ marco \in Nat
    BY <2>3, Constantes DEF TypeOK
  <2>5. fisica \div TAM_PAGINA = marco
        /\ fisica % TAM_PAGINA = acceso.direccion % TAM_PAGINA
    BY <2>2, <2>4, DireccionExacta DEF direccionFisica
  <2>6. SonDeAntes(listaTLB', newEntradaTLB(numeroPagina, marco))
    BY <2>1, <2>2, EntradasTlb
  <2> HIDE DEF marco, fisica
  <2>7. MarcosTlb'
    BY <2>4, <2>6 DEF SistemaInv, MarcosTlb, SonDeAntes, newEntradaTLB
  <2>8. /\ acceso'.pc = "direccion" /\ acceso'.direccion = acceso.direccion
        /\ acceso'.escribe = acceso.escribe /\ acceso'.fisica = fisica
    BY <1>e, <2>1 DEF AccesoLibre
  <2>9. cpu'.pc = "acceder" /\ cpu'.pagina = cpu.pagina /\ cpu'.frame = marco
    BY <2>3 DEF TypeOK
  <2>10. numeroPagina' = numeroPagina
    BY <2>8 DEF numeroPagina, obtenerNumeroPagina
  <2>11. PasosDelAcceso'
    BY <1>a, <2>1, <2>5, <2>8, <2>9, <2>10 DEF SistemaInv, PasosDelAcceso
  <2> QED BY <2>7, <2>11
<1>5. ASSUME Acceder PROVE MarcosTlb' /\ PasosDelAcceso'
  <2>1. acceso' = AccesoLibre /\ listaTLB' = listaTLB /\ Responde
    BY <1>5 DEF Acceder, memoria_read, memoria_write, read_fisical_address,
       write_memory_data, tlb
  <2>2. cpu'.pc = "esperar"
    BY <2>1 DEF Responde, TypeOK
  <2>3. acceso'.pc = "libre" /\ acceso'.escribe \in BOOLEAN
    BY <2>1 DEF AccesoLibre
  <2>4. PasosDelAcceso'
    BY <2>2, <2>3 DEF PasosDelAcceso
  <2> QED BY <2>1, <2>4 DEF SistemaInv, MarcosTlb
<1> QED BY <1>b, <1>1, <1>2, <1>3, <1>4, <1>5 DEF SistemaInv

\* The whole system starts in its invariant.
LEMMA SistemaInicial ==
  InitSistema => IInv /\ IInvTablas /\ TlbInv /\ SistemaInv
<1> SUFFICES ASSUME InitSistema PROVE IInv /\ IInvTablas /\ TlbInv /\ SistemaInv
  OBVIOUS
<1>1. IInv
  BY IInvInicial DEF InitSistema
<1>2. TlbInv
  BY TlbInicial
<1>3. IInvTablas
  BY TablasIniciales DEF InitSistema
<1>4. Corriendo
  BY DEF InitSistema, Corriendo
<1>5. NumerosDeTabla
  BY DEF InitSistema, NumerosDeTabla, Init
<1>6. MarcosTlb
  BY DEF InitSistema, iniciarEstructurasMMU, MarcosTlb
<1>7. PasosDelAcceso
  BY DEF InitSistema, Init, AccesoLibre, PasosDelAcceso
<1> QED BY <1>1, <1>2, <1>3, <1>4, <1>5, <1>6, <1>7 DEF SistemaInv

\* A dispatch finds the CPU free and the TLB of the process, or none.
LEMMA SistemaDespacha ==
  ASSUME SistemaInv, NEW p \in Procesos, deserializarDispatch(p)
  PROVE  SistemaInv'
<1>1. /\ ejecutando = NADIE /\ estado[p] = "listo" /\ vaciarTLB(p) /\ ejecutando' = p
      /\ UNCHANGED <<vars, tablas, tablaDePaginas, acceso>>
  BY DEF deserializarDispatch
<1>2. PCB_ACTUAL' = p /\ listaTLB' \in {<<>>, listaTLB}
  BY <1>1 DEF vaciarTLB
<1>3. acceso.pc = "libre" /\ cpu' = cpu /\ estado' = estado
  BY <1>1 DEF SistemaInv, PasosDelAcceso, vars, pedidos
<1>4. Corriendo'
  BY <1>1, <1>2, <1>3 DEF Corriendo
<1>5. NumerosDeTabla'
  BY <1>1, <1>3 DEF SistemaInv, NumerosDeTabla, tablas
<1>6. MarcosTlb'
  BY <1>2 DEF SistemaInv, MarcosTlb
<1>7. PasosDelAcceso'
  BY <1>1, <1>3 DEF SistemaInv, PasosDelAcceso
<1> QED BY <1>4, <1>5, <1>6, <1>7 DEF SistemaInv

\* Every step keeps what ties the access of the CPU to the server's request.
LEMMA SistemaSigue ==
  ASSUME IInv, IInvTablas, TlbInv, SistemaInv, [NextSistema]_varsSistema
  PROVE  SistemaInv'
<1>a. TypeOK /\ PedidosInv /\ CpuInv /\ SistemaInv /\ Corriendo
  BY DEF IInv, SistemaInv
<1>1. CASE PasoKernel \/ (process_kernel_salida /\ UNCHANGED <<cpuMmu, tablas, tablaDePaginas>>)
  <2>1. UNCHANGED <<cpuMmu, tablas, tablaDePaginas>> /\ cpu' = cpu
    BY <1>1 DEF PasoKernel, PedirInit, PedirSuspend, PedirKill, Reanudar, server_listen_ram,
       process_kernel_salida, process_suspend, process_kill, swap_second_level_entry,
       swap_second_level_entry_Liberar, swap_second_level_entry_Saltear, suspend_pid_Fin,
       free_memory, free_second_level_entry, process_suspend_Fin, process_kill_Fin
  <2>2. /\ ejecutando # NADIE => estado'[ejecutando] = "listo"
        /\ \A p \in Procesos : estado'[p] \notin {"nuevo", "creando"} =>
             estado[p] \notin {"nuevo", "creando"}
    BY <1>a, <1>1, EstadosSiguen
  <2> QED BY <1>a, <2>1, <2>2, SistemaQuieto
<1>2. CASE /\ \/ get_frame_number_Presente \/ get_frame_number_FrameLibre
              \/ find_victim_page_to_replace
              \/ get_frame_number_Guardar \/ get_frame_number_Desalojar
              \/ write_page_in_memory
           /\ UNCHANGED <<cpuMmu, tablas, tablaDePaginas>>
  <2>1. /\ cpu.pc \notin {"esperar", "acceder"} /\ cpu'.pc \notin {"esperar", "acceder"}
        /\ cpu'.pagina = cpu.pagina /\ estado' = estado
    BY <1>a, <1>2, BuscandoSigue
  <2>2. ejecutando # NADIE => estado'[ejecutando] = "listo"
    BY <1>a, <2>1 DEF Corriendo
  <2> QED BY <1>a, <1>2, <2>1, <2>2, SistemaQuieto
<1>3. CASE PasoMemoria
  BY <1>1, <1>2, <1>3 DEF PasoMemoria
<1>4. CASE process_init_Tablas
  BY <1>a, <1>4, SistemaInicia
<1>5. CASE \E p \in Procesos : deserializarDispatch(p)
  BY <1>5, SistemaDespacha
<1>6. CASE \/ \E d \in Direcciones, escribe \in BOOLEAN :
                \/ consultarTablaSegundoNivel(d, escribe)
                \/ consultarDireccionFisica_Hit(d, escribe)
           \/ consultarMarco \/ consultarDireccionFisica_Miss \/ Acceder
  BY <1>a, <1>6, SistemaAccede
<1>7. CASE cicloInstruccion_Devuelve
  <2>1. /\ acceso.pc = "libre" /\ ejecutando' = NADIE
        /\ UNCHANGED <<vars, tlb, tablas, tablaDePaginas, acceso>>
    BY <1>7 DEF cicloInstruccion_Devuelve
  <2>2. cpu' = cpu /\ estado' = estado /\ listaTLB' = listaTLB
    BY <2>1 DEF vars, pedidos, tlb
  <2>3. Corriendo'
    BY <2>1 DEF Corriendo
  <2>4. NumerosDeTabla'
    BY <2>1, <2>2 DEF SistemaInv, NumerosDeTabla, tablas
  <2>5. MarcosTlb'
    BY <2>2 DEF SistemaInv, MarcosTlb
  <2>6. PasosDelAcceso'
    BY <2>1, <2>2 DEF SistemaInv, PasosDelAcceso
  <2> QED BY <2>3, <2>4, <2>5, <2>6 DEF SistemaInv
<1>8. CASE UNCHANGED varsSistema
  <2>1. UNCHANGED <<cpuMmu, tablas, tablaDePaginas>> /\ cpu' = cpu /\ estado' = estado
    BY <1>8 DEF varsSistema, vars, pedidos
  <2>2. ejecutando # NADIE => estado'[ejecutando] = "listo"
    BY <1>a, <2>1 DEF Corriendo
  <2> QED BY <1>a, <2>1, <2>2, SistemaQuieto
<1> QED BY <1>1, <1>3, <1>4, <1>5, <1>6, <1>7, <1>8 DEF NextSistema

-----------------------------------------------------------------------------
(* The system implements the tables *)

\* A step of the system makes the tables of a new process, or leaves all the
\* tables as they were.
LEMMA PasoDeTablas ==
  ASSUME TypeOK, PedidosInv, [NextSistema]_varsSistema
  PROVE  [NextTablas]_tablas
<1>1. CASE process_init_Tablas
  <2> DEFINE p == Head(kernel_queue).pid
  <2>1. crearEstructuras(p) /\ Tomar("INIT", "esperar")
    BY <1>1 DEF process_init_Tablas, process_init
  <2>2. kernel_queue[1] \in Pedido
    BY <2>1, TomarSigue
  <2>3. Head(kernel_queue) = kernel_queue[1]
    BY <2>1 DEF Tomar, TypeOK
  <2>4. p \in DOMAIN PROCESS_SIZE
    BY <2>2, <2>3, ConstantesMemoriaMmu DEF Pedido
  <2> QED BY <2>1, <2>4 DEF NextTablas
<1>2. CASE PasoKernel \/ PasoMemoria
  BY <1>2 DEF PasoKernel, PasoMemoria
<1>3. CASE \/ \E p \in Procesos : deserializarDispatch(p)
           \/ cicloInstruccion_Devuelve
           \/ \E d \in Direcciones, escribe \in BOOLEAN :
                \/ consultarTablaSegundoNivel(d, escribe)
                \/ consultarDireccionFisica_Hit(d, escribe)
           \/ consultarMarco \/ consultarDireccionFisica_Miss \/ Acceder
           \/ UNCHANGED varsSistema
  BY <1>3 DEF deserializarDispatch, cicloInstruccion_Devuelve,
     consultarTablaSegundoNivel, consultarDireccionFisica_Hit, consultarMarco,
     consultarDireccionFisica_Miss, Acceder, varsSistema
<1> QED BY <1>1, <1>2, <1>3 DEF NextSistema

\* The inductive invariant of memory, the MMU and the tables.
IInvSistema == IInv /\ IInvTablas /\ TlbInv /\ SistemaInv

\* The four parts of the invariant are kept together.
LEMMA IInvSistemaSigue ==
  ASSUME IInvSistema, [NextSistema]_varsSistema
  PROVE  IInvSistema'
<1>1. IInvTablas'
  BY PasoDeTablas, PasoTablas DEF IInvSistema, IInv
<1> QED BY <1>1, IInvDelSistema, PasoTlb, SistemaSigue DEF IInvSistema

\* Memory with the MMU implements the tables alone: in each of its steps the
\* tables of a process are made at once, or nothing of them changes.  So that
\* what Paginacion.tla promises holds here too.
THEOREM SistemaImplementaTablas == SpecSistema => SpecTablas
<1>1. InitSistema => InitTablas
  BY DEF InitSistema
<1>2. InitSistema => IInvSistema
  BY SistemaInicial DEF IInvSistema
<1>3. IInvSistema /\ [NextSistema]_varsSistema => IInvSistema'
  BY IInvSistemaSigue
<1>4. IInvSistema /\ [NextSistema]_varsSistema => [NextTablas]_tablas
  BY PasoDeTablas DEF IInvSistema, IInv
<1> QED BY <1>1, <1>2, <1>3, <1>4, PTL DEF SpecSistema, SpecTablas

\* While the processes run, the entries the CPU computes lead to their page.
COROLLARY TraduccionEnSistema == SpecSistema => []TraduccionExacta
BY SistemaImplementaTablas, TraduccionSiempreExacta, PTL

\* And no page is read or written out of its swap file.
COROLLARY SlotEnSistema == SpecSistema => []SlotEnArchivo
BY SistemaImplementaTablas, SlotSiempreEnArchivo, PTL

-----------------------------------------------------------------------------
(* The access is to the bytes of its address *)

\* Each process has frames for all of its pages.
Caben == \A p \in Procesos : Tamanio[p] <= MARCOS_POR_PROCESO

\* Then a process that misses a page has a frame left for it.
LEMMA NoHayVictima ==
  ASSUME TypeOK, PedidosInv, CpuInv, VictimaInv, SinSalientes, Caben
  PROVE  ~ BuscaVictima
<1> SUFFICES ASSUME BuscaVictima PROVE FALSE
  OBVIOUS
<1> DEFINE p == cpu.pagina[1]
           D == 1 .. Tamanio[p]
           f == [n \in D |-> <<p, n>>]
           I == {<<p, n>> : n \in D}
           S == EnMemoriaDe(p)
           k == process_extra_info[p].frames_used
<1>1. /\ cpu.pagina \in Paginas /\ ~ pagina[cpu.pagina].P
      /\ cpu.pc = "consultar" /\ p \in Procesos /\ k >= MARCOS_POR_PROCESO
  BY Constantes DEF BuscaVictima, CpuInv, extra
<1>2. Tamanio[p] \in Nat /\ Tamanio[p] <= MARCOS_POR_PROCESO
  BY <1>1, Constantes DEF Caben
<1>3. IsFiniteSet(D) /\ Cardinality(D) = Tamanio[p]
  <2> HIDE DEF p
  <2> QED BY SMTT(30), <1>2, FS_Interval
<1>4. f \in Surjection(D, I)
  BY DEF Surjection
<1>5. IsFiniteSet(I) /\ Cardinality(I) \in Nat /\ Cardinality(I) <= Tamanio[p]
  <2> HIDE DEF D, I, f
  <2> QED BY <1>3, <1>4, FS_Surjection, FS_CardinalityType
<1>6. cpu.pagina \in I /\ S \subseteq I \ {cpu.pagina}
  BY <1>1 DEF EnMemoriaDe, PaginasDe, Paginas
<1>7. Respaldada(p) /\ EnCamino(p) = 0
  BY <1>1 DEF VictimaInv, SinSalientes, EnCamino
<1>8. k \in Nat /\ Cardinality(S) \in Nat
  BY <1>1, CuentaEsNat
<1> HIDE DEF I, S, D, f
<1>9. Cardinality(S) <= Cardinality(I) - 1
  <2>1. Cardinality(I \ {cpu.pagina}) = Cardinality(I) - 1 /\ IsFiniteSet(I \ {cpu.pagina})
    BY <1>5, <1>6, FS_RemoveElement
  <2>2. Cardinality(S) <= Cardinality(I \ {cpu.pagina})
    BY <1>6, <2>1, FS_Subset
  <2> QED BY <2>1, <2>2
<1>10. k <= Cardinality(S)
  BY <1>7, <1>8 DEF Respaldada, S
<1> HIDE DEF k, p
<1> QED BY <1>1, <1>2, <1>5, <1>8, <1>9, <1>10, Constantes

\* A step that leaves every present page present, in its frame.
Conserva == \A g \in Paginas : pagina[g].P =>
              pagina'[g].P /\ pagina'[g].frame = pagina[g].frame

\* What memory's thread serves, and the data.
Datos == EnSuMarco /\ Respaldo /\ EnServicio

\* A process is initialised, or nothing happens.
LEMMA DatosInicio ==
  ASSUME TypeOK, PedidosInv, CpuInv, Datos,
         process_init \/ (\E p \in Procesos : PedirInit(p)) \/ UNCHANGED vars
  PROVE  Datos' /\ Conserva
<1>1. ASSUME NEW p \in Procesos, PedirInit(p) PROVE Datos' /\ Conserva
  <2>1. /\ estado' = [estado EXCEPT ![p] = "creando"] /\ estado[p] = "nuevo"
        /\ cpu' = cpu /\ pagina' = pagina /\ ocupados' = ocupados
        /\ memoria' = memoria /\ swap' = swap
    BY <1>1 DEF PedirInit, server_listen_ram, datos
  <2>2. \A q \in Procesos : estado'[q] = "listo" <=> estado[q] = "listo"
    BY <2>1 DEF TypeOK
  <2>3. \A g \in Paginas : g[1] \in Procesos
    BY Constantes
  <2> QED BY <2>1, <2>2, <2>3 DEF Datos, EnSuMarco, Respaldo, EnServicio, Conserva
<1>2. CASE process_init
  <2> DEFINE p == Head(kernel_queue).pid
  <2>1. /\ estado' = [estado EXCEPT ![p] = "listo"]
        /\ swap' = swap \cup PaginasDe(p)
        /\ cpu' = cpu /\ pagina' = pagina /\ ocupados' = ocupados
        /\ memoria' = memoria
    BY <1>2 DEF process_init
  <2> HIDE DEF p
  <2>2. \A q \in Procesos : estado[q] = "listo" => estado'[q] = "listo"
    BY <2>1 DEF TypeOK
  <2>3. \A q \in Procesos : estado'[q] = "listo" => estado[q] = "listo" \/ q = p
    BY <2>1 DEF TypeOK
  <2>4. \A g \in Paginas : g[1] \in Procesos /\ g \in PaginasDe(g[1])
    BY Constantes
  <2>5. EnSuMarco'
    BY <2>1, <2>2, <2>4 DEF Datos, EnSuMarco
  <2>6. Respaldo'
    BY <2>1, <2>3, <2>4 DEF Datos, Respaldo
  <2>7. EnServicio'
    BY <2>1 DEF Datos, EnServicio
  <2> QED BY <2>1, <2>5, <2>6, <2>7 DEF Datos, Conserva
<1>3. CASE UNCHANGED vars
  <2>1. /\ estado' = estado /\ cpu' = cpu /\ pagina' = pagina /\ ocupados' = ocupados
        /\ memoria' = memoria /\ swap' = swap
    BY <1>3 DEF vars, pedidos, datos
  <2> QED BY <2>1 DEF Datos, EnSuMarco, Respaldo, EnServicio, Conserva
<1> QED BY <1>1, <1>2, <1>3

\* An access is asked for, found in memory or read.
LEMMA DatosPedido ==
  ASSUME TypeOK, CpuInv, Datos,
         \/ \E g \in Paginas, escribe \in BOOLEAN : get_frame(g, escribe)
         \/ get_frame_number_Presente \/ read_fisical_address
  PROVE  Datos' /\ Conserva
<1>1. /\ estado' = estado /\ pagina' = pagina /\ ocupados' = ocupados
      /\ memoria' = memoria /\ swap' = swap
  BY DEF get_frame, get_frame_number_Presente, read_fisical_address, pedidos, datos
<1>2. EnSuMarco' /\ Respaldo' /\ Conserva
  BY <1>1 DEF Datos, EnSuMarco, Respaldo, Conserva
<1>3. EnServicio'
  <2>1. ASSUME get_frame_number_Presente PROVE EnServicio'
    <3>1. cpu'.pc = "marcar" /\ cpu'.pagina = cpu.pagina /\ pagina[cpu.pagina].P
      BY <2>1 DEF get_frame_number_Presente, CpuPasa, TypeOK
    <3> QED BY <1>1, <3>1 DEF EnServicio
  <2>2. ASSUME NEW g \in Paginas, NEW escribe \in BOOLEAN, get_frame(g, escribe)
        PROVE  EnServicio'
    <3>1. cpu'.pc = "consultar"
      BY <2>2 DEF get_frame, TypeOK
    <3> QED BY <3>1 DEF EnServicio
  <2>3. ASSUME read_fisical_address PROVE EnServicio'
    <3>1. cpu'.pc = "esperar"
      BY <2>3 DEF read_fisical_address, Responde, TypeOK
    <3> QED BY <3>1 DEF EnServicio
  <2> QED BY <2>1, <2>2, <2>3
<1> QED BY <1>2, <1>3 DEF Datos

\* A frame is taken for the page.
LEMMA DatosMarcoLibre ==
  ASSUME TypeOK, CpuInv, Datos, get_frame_number_FrameLibre
  PROVE  Datos' /\ Conserva
<1>1. estado' = estado /\ memoria' = memoria /\ swap' = swap
  BY DEF get_frame_number_FrameLibre, pedidos, datos
<1>2. PICK f \in Frames \ ocupados :
        /\ ocupados' = ocupados \cup {f}
        /\ pagina'[cpu.pagina].frame = f
        /\ pagina'[cpu.pagina].P = pagina[cpu.pagina].P
        /\ \A g \in Paginas : g # cpu.pagina => pagina'[g] = pagina[g]
        /\ cpu.pagina \in Paginas /\ ~ pagina[cpu.pagina].P
        /\ cpu' = [cpu EXCEPT !.pc = "cargar"]
  BY MarcoLibreCambia
<1>3. cpu'.pc = "cargar" /\ cpu'.pagina = cpu.pagina
  BY <1>2 DEF TypeOK
<1>4. EnSuMarco'
  BY <1>1, <1>2 DEF Datos, EnSuMarco
<1>5. Respaldo'
  BY <1>1, <1>2 DEF Datos, Respaldo
<1>6. \A g \in Paginas : pagina'[g].P => pagina'[g].frame \in ocupados
  BY <1>2 DEF Datos, EnSuMarco
<1>7. EnServicio'
  BY <1>2, <1>3, <1>6 DEF EnServicio
<1>8. Conserva
  BY <1>2 DEF Conserva
<1> QED BY <1>4, <1>5, <1>7, <1>8 DEF Datos

\* The page is brought into its frame.
LEMMA DatosCargar ==
  ASSUME TypeOK, CpuInv, Datos, write_page_in_memory
  PROVE  Datos' /\ Conserva
<1> DEFINE g == cpu.pagina
           f == pagina[g].frame
<1>1. /\ estado' = estado /\ ocupados' = ocupados /\ swap' = swap
      /\ memoria' = [memoria EXCEPT ![f] = IF g \in swap THEN g ELSE NADA]
      /\ cpu.pc = "cargar"
  BY DEF write_page_in_memory, read_page_in_swap, pedidos
<1>2. /\ pagina'[g].frame = f /\ pagina'[g].P
      /\ \A h \in Paginas : h # g => pagina'[h] = pagina[h]
      /\ g \in Paginas /\ ~ pagina[g].P
      /\ cpu' = [cpu EXCEPT !.pc = "marcar"]
  BY CargarCambia
<1>3. cpu'.pc = "marcar" /\ cpu'.pagina = g
  BY <1>2 DEF TypeOK
<1>4. estado[g[1]] = "listo" /\ g \in swap
  BY <1>1, <1>2 DEF Datos, Respaldo, CpuInv
<1>5. /\ f \in ocupados /\ f \in Frames
      /\ \A h \in Paginas : pagina[h].P => pagina[h].frame # f
  BY <1>1 DEF Datos, EnServicio, TypeOK
<1>6. memoria'[f] = g /\ \A e \in Frames : e # f => memoria'[e] = memoria[e]
  BY <1>1, <1>4, <1>5 DEF TypeOK
<1>7. EnSuMarco'
  <2>1. ocupados \subseteq Frames
    BY DEF TypeOK
  <2> HIDE DEF f, g
  <2> QED BY <1>1, <1>2, <1>4, <1>5, <1>6, <2>1 DEF Datos, EnSuMarco
<1>8. Respaldo'
  BY <1>1, <1>2, <1>4 DEF Datos, Respaldo
<1>9. EnServicio'
  BY <1>2, <1>3 DEF EnServicio
<1>10. Conserva
  BY <1>2 DEF Conserva
<1> QED BY <1>7, <1>8, <1>9, <1>10 DEF Datos

\* The page is marked.
LEMMA DatosMarcar ==
  ASSUME TypeOK, CpuInv, Datos, get_frame_number_Marcar
  PROVE  Datos' /\ Conserva
<1>1. /\ estado' = estado /\ memoria' = memoria /\ swap' = swap /\ ocupados' = ocupados
      /\ cpu.pc = "marcar"
  BY DEF get_frame_number_Marcar, pedidos, datos
<1>2. /\ \A g \in Paginas : /\ pagina'[g].frame = pagina[g].frame
                            /\ pagina'[g].P = pagina[g].P
      /\ cpu.pagina \in Paginas
      /\ cpu' = [cpu EXCEPT !.pc = "acceder", !.frame = pagina[cpu.pagina].frame]
  BY MarcarCambia
<1>3. /\ cpu'.pc = "acceder" /\ cpu'.pagina = cpu.pagina
      /\ cpu'.frame = pagina[cpu.pagina].frame
  BY <1>2 DEF TypeOK
<1>4. EnSuMarco'
  BY <1>1, <1>2 DEF Datos, EnSuMarco
<1>5. Respaldo'
  BY <1>1, <1>2 DEF Datos, Respaldo
<1>6. EnServicio'
  BY <1>1, <1>2, <1>3 DEF Datos, EnServicio
<1>7. Conserva
  BY <1>2 DEF Conserva
<1> QED BY <1>4, <1>5, <1>6, <1>7 DEF Datos

\* The page is written to: no other copy of it is the last one.
LEMMA DatosEscribir ==
  ASSUME TypeOK, CpuInv, Datos, write_memory_data
  PROVE  Datos' /\ Conserva
<1> DEFINE g == cpu.pagina
<1>1. /\ estado' = estado /\ ocupados' = ocupados /\ pagina' = pagina
      /\ memoria' = [f \in Frames |-> IF f = cpu.frame THEN g
                                      ELSE IF memoria[f] = g THEN NADA ELSE memoria[f]]
      /\ swap' = swap \ {g}
      /\ cpu.pc = "acceder" /\ cpu.escribe
  BY DEF write_memory_data, pedidos
<1>2. cpu'.pc = "esperar"
  BY DEF write_memory_data, Responde, TypeOK
<1>3. g \in Paginas /\ pagina[g].P /\ cpu.frame = pagina[g].frame
  BY <1>1 DEF Datos, EnServicio, CpuInv
<1>4. EnSuMarco'
  <2>1. \A h \in Paginas : pagina[h].P => /\ pagina[h].frame \in Frames
                                          /\ memoria[pagina[h].frame] = h
    BY DEF Datos, EnSuMarco, TypeOK
  <2>2. ASSUME NEW h \in Paginas, pagina[h].P PROVE memoria'[pagina[h].frame] = h
    <3>1. CASE h = g
      BY <1>1, <1>3, <2>1, <2>2, <3>1
    <3>2. CASE h # g
      <4>1. pagina[h].frame # cpu.frame /\ memoria[pagina[h].frame] # g
        BY <1>3, <2>1, <2>2, <3>2
      <4> QED BY <1>1, <2>1, <2>2, <4>1
    <3> QED BY <3>1, <3>2
  <2> QED BY <1>1, <2>2 DEF Datos, EnSuMarco
<1>5. Respaldo'
  BY <1>1, <1>3 DEF Datos, Respaldo
<1>6. EnServicio'
  BY <1>2 DEF EnServicio
<1>7. Conserva
  BY <1>1 DEF Conserva
<1> QED BY <1>4, <1>5, <1>6, <1>7 DEF Datos

\* Every step of memory.
LEMMA DatosSiguen ==
  ASSUME TypeOK, PedidosInv, CpuInv, VictimaInv, SinSalientes, Caben, Datos, [Next]_vars
  PROVE  Datos' /\ Conserva
<1>1. ~ find_victim_page_to_replace
  BY NoHayVictima DEF find_victim_page_to_replace
<1>2. ~ get_frame_number_Guardar /\ ~ get_frame_number_Desalojar
  BY DEF Datos, EnServicio, get_frame_number_Guardar, get_frame_number_Desalojar
<1>3. CASE process_cpu_functions
  BY <1>1, <1>2, <1>3, DatosPedido, DatosMarcoLibre, DatosCargar, DatosMarcar,
     DatosEscribir DEF process_cpu_functions
<1>4. CASE process_init \/ (\E p \in Procesos : PedirInit(p)) \/ UNCHANGED vars
  BY <1>4, DatosInicio
<1> QED BY <1>3, <1>4, SoloInicia, DatosPedido

\* The inductive invariant of the accesses.
AccesoInv == SinSalientes /\ VictimaInv /\ Datos /\ TlbVigente

\* A hit uses a frame that the page still has.
LEMMA AciertoDatos ==
  ASSUME TypeOK, PedidosInv, TlbInv, SistemaInv, AccesoInv,
         NEW d \in Direcciones, NEW escribe \in BOOLEAN,
         consultarDireccionFisica_Hit(d, escribe)
  PROVE  SinSalientes' /\ VictimaInv' /\ Datos' /\ Conserva
<1> DEFINE n == obtenerNumeroPagina(d)
           g == <<ejecutando, n + 1>>
<1>1. PICK h \in DOMAIN listaTLB :
        /\ PCB_ACTUAL = ejecutando /\ listaTLB[h].pagina = n /\ g \in Paginas
        /\ cpu.pc = "esperar" /\ cpu'.pc = "acceder" /\ cpu'.pagina = g
        /\ cpu'.frame = listaTLB[h].marco
  BY ZenonT(30), AciertoCambia
<1>2. /\ estado' = estado /\ kernel_queue' = kernel_queue /\ kernel' = kernel
      /\ pagina' = pagina /\ process_extra_info' = process_extra_info
      /\ ocupados' = ocupados /\ memoria' = memoria /\ swap' = swap
  BY DEF consultarDireccionFisica_Hit, pedidos, datos
<1>3. pagina[g].P /\ pagina[g].frame = cpu'.frame
  BY <1>1 DEF AccesoInv, TlbVigente, EsVigente
<1> HIDE DEF g, n
<1>4. SinSalientes'
  BY <1>2 DEF AccesoInv, SinSalientes
<1>5. VictimaInv'
  <2>1. ASSUME NEW p \in Procesos, Respaldada(p) PROVE Respaldada(p)'
    <3>1. EnMemoriaDe(p)' = EnMemoriaDe(p) /\ EnCamino(p)' = EnCamino(p)
      BY <1>1, <1>2 DEF EnMemoriaDe, EnCamino
    <3> QED BY <1>2, <2>1, <3>1, RespaldoSigue
  <2> QED BY <1>2, <2>1 DEF AccesoInv, VictimaInv
<1>6. EnServicio'
  BY <1>1, <1>2, <1>3 DEF EnServicio
<1>7. EnSuMarco' /\ Respaldo' /\ Conserva
  BY <1>2 DEF AccesoInv, Datos, EnSuMarco, Respaldo, Conserva
<1> QED BY <1>4, <1>5, <1>6, <1>7 DEF Datos

\* Of memory's part of the invariant.
LEMMA AccesoDatos ==
  ASSUME IInvSistema, AccesoInv, Caben, [NextSistema]_varsSistema
  PROVE  SinSalientes' /\ VictimaInv' /\ Datos' /\ Conserva
<1>1. TypeOK /\ PedidosInv /\ CpuInv /\ TlbInv /\ SistemaInv
      /\ SinSalientes /\ VictimaInv /\ Datos
  BY DEF IInvSistema, IInv, AccesoInv
<1>2. CASE [Next]_vars
  BY <1>1, <1>2, SinSalientesSigue, VictimaSigue, DatosSiguen
<1>3. CASE \E d \in Direcciones, escribe \in BOOLEAN :
             consultarDireccionFisica_Hit(d, escribe)
  BY <1>1, <1>3, AciertoDatos
<1> QED BY <1>1, <1>2, <1>3, EsPasoDeMemoria

\* An entry is as good as it was while its process and its page stay.
LEMMA VigenteSigue ==
  ASSUME Conserva, PCB_ACTUAL' = PCB_ACTUAL, NEW e, EsVigente(e)
  PROVE  <<PCB_ACTUAL', e.pagina + 1>> \in Paginas
         /\ pagina'[<<PCB_ACTUAL', e.pagina + 1>>].P
         /\ pagina'[<<PCB_ACTUAL', e.pagina + 1>>].frame = e.marco
BY DEF Conserva, EsVigente

\* On a miss the page added is in memory, in the frame that was answered.
LEMMA FalloVigente ==
  ASSUME TypeOK, CpuInv, TlbInv, SistemaInv, TlbVigente, Datos, Conserva,
         consultarDireccionFisica_Miss
  PROVE  TlbVigente'
<1> DEFINE n == numeroPagina
           marco == pagina[cpu.pagina].frame
           e == newEntradaTLB(n, marco)
<1>1. /\ acceso.pc = "marco" /\ get_frame_number_Marcar
      /\ agregarTLB(n, marco)
  BY DEF consultarDireccionFisica_Miss
<1>2. /\ ejecutando # NADIE /\ acceso.direccion \in Direcciones
      /\ cpu.pagina = <<ejecutando, n + 1>> /\ PCB_ACTUAL = ejecutando
  BY <1>1 DEF SistemaInv, PasosDelAcceso, Corriendo
<1>3. n \in Nat
  BY <1>2, ConstantesMemoriaMmu, PaginaNat DEF numeroPagina
<1>4. cpu.pagina \in Paginas /\ pagina[cpu.pagina].P
  BY <1>1 DEF get_frame_number_Marcar, CpuInv, Datos, EnServicio
<1>5. e.pagina = n /\ e.marco = marco
  BY DEF newEntradaTLB
<1>6. EsVigente(e)
  BY <1>2, <1>4, <1>5 DEF EsVigente
<1>7. SonDeAntes(listaTLB', e) /\ PCB_ACTUAL' = PCB_ACTUAL
  BY <1>1, <1>3, EntradasTlb DEF agregarTLB
<1> HIDE DEF e
<1>8. \A i \in DOMAIN listaTLB' : EsVigente(listaTLB'[i])
  BY <1>6, <1>7 DEF SonDeAntes, TlbVigente
<1> QED BY <1>7, <1>8, VigenteSigue DEF TlbVigente, EsVigente

\* A step that adds nothing to the TLB, or empties it.
LEMMA TlbVigenteSigue ==
  ASSUME TypeOK, CpuInv, TlbInv, SistemaInv, TlbVigente, Datos, Conserva,
         [NextSistema]_varsSistema
  PROVE  TlbVigente'
<1>1. CASE consultarDireccionFisica_Miss
  BY <1>1, FalloVigente
<1>2. ASSUME listaTLB' = listaTLB, PCB_ACTUAL' = PCB_ACTUAL PROVE TlbVigente'
  <2>1. \A i \in DOMAIN listaTLB : EsVigente(listaTLB[i])
    BY DEF TlbVigente
  <2> QED BY <1>2, <2>1, VigenteSigue DEF TlbVigente, EsVigente
<1>3. ASSUME NEW p \in Procesos, deserializarDispatch(p) PROVE TlbVigente'
  <2>1. vaciarTLB(p)
    BY <1>3 DEF deserializarDispatch
  <2>2. CASE PCB_ACTUAL = p
    BY <1>2, <2>1, <2>2 DEF vaciarTLB
  <2>3. CASE PCB_ACTUAL # p
    BY <2>1, <2>3 DEF vaciarTLB, TlbVigente
  <2> QED BY <2>2, <2>3
<1>4. CASE \/ PasoKernel \/ PasoMemoria \/ process_init_Tablas
           \/ cicloInstruccion_Devuelve
           \/ \E d \in Direcciones, escribe \in BOOLEAN :
                \/ consultarTablaSegundoNivel(d, escribe)
                \/ consultarDireccionFisica_Hit(d, escribe)
           \/ consultarMarco \/ Acceder
           \/ UNCHANGED varsSistema
  <2>1. listaTLB' = listaTLB /\ PCB_ACTUAL' = PCB_ACTUAL
    BY <1>4 DEF PasoKernel, PasoMemoria, process_init_Tablas, cicloInstruccion_Devuelve,
       consultarTablaSegundoNivel, consultarDireccionFisica_Hit, consultarMarco,
       Acceder, varsSistema, cpuMmu, tlb, actualizarTLB
  <2> QED BY <1>2, <2>1
<1> QED BY <1>1, <1>3, <1>4 DEF NextSistema

\* The four bytes at an address that is a multiple of four are in one page, of
\* a size that is a multiple of four too.
LEMMA CuatroBytes ==
  ASSUME NEW d \in Nat, NEW t \in Nat \ {0}, d % 4 = 0, t % 4 = 0
  PROVE  (d % t) + 4 <= t
<1> DEFINE q == d \div t
           r == d % t
           a == d \div 4
           b == t \div 4
<1>1. /\ q \in Nat /\ r \in 0 .. t - 1 /\ d = (q * t) + r
      /\ a \in Nat /\ b \in Nat /\ d = 4 * a /\ t = 4 * b
  <2>1. q \in Nat /\ r \in 0 .. t - 1 /\ d = (q * t) + r
    BY Division
  <2>2. a \in Nat /\ d = 4 * a
    OBVIOUS
  <2>3. b \in Nat /\ t = 4 * b
    OBVIOUS
  <2> QED BY <2>1, <2>2, <2>3
<1> HIDE DEF q, r, a, b
<1>2. q * t = 4 * (q * b) /\ q * b \in Nat
  BY <1>1
<1>3. r = 4 * (a - q * b) /\ a - q * b \in Int
  BY <1>1, <1>2
<1>4. r < 4 * b
  BY <1>1
<1>5. a - q * b <= b - 1
  BY <1>1, <1>2, <1>3, <1>4
<1> QED BY <1>1, <1>3, <1>5 DEF r

\* What the invariant says of an access whose frame is known.
LEMMA AccesoEsVigente ==
  ASSUME TypeOK, CpuInv, SistemaInv, AccesoInv
  PROVE  AccesoVigente
<1> SUFFICES ASSUME acceso.pc = "direccion"
             PROVE  LET f == acceso.fisica \div TAM_PAGINA
                        o == acceso.fisica % TAM_PAGINA
                    IN  /\ f \in Frames /\ cpu.frame = f
                        /\ o = acceso.direccion % TAM_PAGINA /\ o + 4 <= TAM_PAGINA
                        /\ memoria[f] = <<ejecutando, (acceso.direccion \div TAM_PAGINA) + 1>>
  BY DEF AccesoVigente
<1> DEFINE f == acceso.fisica \div TAM_PAGINA
           o == acceso.fisica % TAM_PAGINA
           d == acceso.direccion
<1>1. /\ cpu.pc = "acceder" /\ cpu.frame = f /\ o = d % TAM_PAGINA
      /\ cpu.pagina = <<ejecutando, numeroPagina + 1>> /\ d \in Direcciones
  BY DEF SistemaInv, PasosDelAcceso
<1>2. /\ cpu.pagina \in Paginas /\ pagina[cpu.pagina].P
      /\ cpu.frame = pagina[cpu.pagina].frame
  BY <1>1 DEF CpuInv, AccesoInv, Datos, EnServicio
<1>3. f \in Frames /\ memoria[f] = cpu.pagina
  BY <1>1, <1>2 DEF AccesoInv, Datos, EnSuMarco, TypeOK
<1>4. (d % TAM_PAGINA) + 4 <= TAM_PAGINA
  <2>1. d \in Nat /\ d % 4 = 0 /\ TAM_PAGINA \in Nat \ {0} /\ TAM_PAGINA % 4 = 0
    BY <1>1, ConstantesMemoriaMmu, ConstantesPaginacion
  <2> HIDE DEF d
  <2> QED BY <2>1, CuatroBytes
<1> QED BY <1>1, <1>3, <1>4 DEF numeroPagina, obtenerNumeroPagina

\* The four bytes of every access are those of its address, in a frame that
\* holds the last value of its page, while no process is suspended or ended
\* and each has frames for all of its pages.  Without either the code breaks
\* it: an entry of the TLB outlives the replacement of its page, and, when its
\* process is dispatched again, its suspension.
THEOREM AccesoCorrecto ==
  SpecSistema /\ Salientes = {} /\ Caben => []AccesoVigente
<1> DEFINE Inv == IInvSistema /\ AccesoInv /\ Caben
<1>1. InitSistema /\ Salientes = {} /\ Caben => Inv
  <2> SUFFICES ASSUME InitSistema, Salientes = {} PROVE IInvSistema /\ AccesoInv
    OBVIOUS
  <2>1. IInvSistema
    BY SistemaInicial DEF IInvSistema
  <2>2. MemInv /\ VictimaInv
    BY MemInicial, VictimaInicial DEF InitSistema
  <2>3. /\ \A g \in Paginas : g[1] \in Procesos
        /\ \A p \in Procesos : estado[p] = "nuevo"
        /\ cpu.pc = "esperar" /\ listaTLB = <<>>
    BY Constantes DEF InitSistema, Init, iniciarEstructurasMMU
  <2>4. Respaldo /\ EnServicio /\ TlbVigente
    BY <2>3 DEF Respaldo, EnServicio, TlbVigente
  <2> QED BY <2>1, <2>2, <2>4 DEF AccesoInv, Datos, MemInv
<1>2. Inv /\ [NextSistema]_varsSistema => Inv'
  <2> SUFFICES ASSUME IInvSistema, AccesoInv, Caben, [NextSistema]_varsSistema
               PROVE  Inv'
    OBVIOUS
  <2>1. IInvSistema'
    BY IInvSistemaSigue
  <2>2. SinSalientes' /\ VictimaInv' /\ Datos' /\ Conserva
    BY AccesoDatos
  <2>3. TlbVigente'
    BY <2>2, TlbVigenteSigue DEF IInvSistema, IInv, AccesoInv
  <2> QED BY <2>1, <2>2, <2>3 DEF AccesoInv, Caben
<1>3. Inv => AccesoVigente
  BY AccesoEsVigente DEF IInvSistema, IInv
<1> HIDE DEF Inv
<1> QED BY <1>1, <1>2, <1>3, PTL DEF SpecSistema
=============================================================================
