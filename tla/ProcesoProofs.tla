--------------------------- MODULE ProcesoProofs ----------------------------
(***************************************************************************)
(* Theorems about Proceso, for any orders, lines, units, clients and       *)
(* number of stops.                                                        *)
(***************************************************************************)
EXTENDS Proceso, FiniteSetTheorems, TLAPS

-----------------------------------------------------------------------------
(* Type correctness *)

LEMMA OciosoTipo ==
    ASSUME NEW s \in Skus
    PROVE  Ocioso \in Tareas
<1>1. (CHOOSE g \in Archivo : TRUE) \in Archivo  BY ProcesoAssumption
<1>2. (CHOOSE l \in Linea : TRUE) \in Linea  BY ProcesoAssumption
<1>3. (CHOOSE k \in Skus : TRUE) \in Skus  OBVIOUS
<1>4. 0 \in 0..NumSocios /\ 0 \in 0..MaxAjenos  BY ProcesoAssumption
<1>5. [k \in Skus |-> 0] \in [Skus -> Nat] /\ [l \in Linea |-> 0] \in [Linea -> Nat]
  OBVIOUS
<1> QED BY <1>1, <1>2, <1>3, <1>4, <1>5 DEF Ocioso, Tareas, Pasos

\* There is a product, since there is a line.
LEMMA HaySku == \E s \in Skus : TRUE
BY ProcesoAssumption

LEMMA SinTarea == Ocioso \in Tareas
BY OciosoTipo, HaySku

LEMMA TotalNat == \A d, s : Total(d, s) \in Nat
<1> SUFFICES ASSUME NEW d, NEW s PROVE Total(d, s) \in Nat  OBVIOUS
<1>1. Stock(d, s) \subseteq Unidades  BY DEF Stock
<1> QED BY <1>1, BodegaAssumption, FS_Subset, FS_CardinalityType DEF Total

LEMMA PrepNat ==
    ASSUME prep \in [Linea -> SUBSET Unidades], NEW l \in Linea
    PROVE  IsFiniteSet(prep[l]) /\ Cardinality(prep[l]) \in Nat
BY BodegaAssumption, FS_Subset, FS_CardinalityType

\* What a listing names was in the listed depot.
LEMMA ListadoSubset ==
    ASSUME NEW d, NEW s, NEW n, NEW L \in Listado(d, s, n)
    PROVE  L \in SUBSET Unidades
BY DEF Listado, Stock

\* A step of the task leaves its local state well typed.
LEMMA TareaTipo ==
    ASSUME t \in Tareas, base \in Base, ajenos \in 0..MaxAjenos, Tarea \/ Fallar
    PROVE  t' \in Tareas
<1> USE DEF Tareas, Pasos
<1>0. base.lineas \subseteq Linea /\ base.archivos \subseteq Archivo  BY DEF Base
<1>a. \A g : LineasDe(g) \in SUBSET Linea  BY <1>0 DEF LineasDe
<1>b. \A l \in Linea : CantLinea[l] \in Nat /\ SkuLinea[l] \in Skus
  BY ProcesoAssumption
<1>c. \A l \in Linea : t.foto[SkuLinea[l]] \in Nat /\ cantPedir(l) \in Int
  BY <1>b DEF cantPedir
<1>1. CASE Iniciar
  <2>1. {g \in base.archivos : ~base.processed[g]} \in SUBSET Archivo  BY <1>0
  <2> QED BY <1>1, <2>1, SinTarea DEF Iniciar
<1>2. ASSUME NEW g \in Archivo, Abrir(g) PROVE t' \in Tareas
  <2>1. [s \in Skus |-> Total("principal", s)] \in [Skus -> Nat]  BY TotalNat
  <2>2. t' = [t EXCEPT !.pc = "revisar", !.f = g,
                       !.prods = LineasDe(g), !.todo = LineasDe(g),
                       !.foto = [s \in Skus |-> Total("principal", s)],
                       !.desde = ajenos]
    BY <1>2 DEF Abrir
  <2> QED BY <1>a, <2>1, <2>2
<1>3. CASE Terminar \/ Fallar
  BY <1>3, SinTarea DEF Terminar, Fallar
<1>4. ASSUME NEW l \in Linea, RevisarReservas(l) PROVE t' \in Tareas
  <2>1. [t.bp EXCEPT ![l] = t.foto[SkuLinea[l]]] \in [Linea -> Nat]  BY <1>c
  <2>2. t.quiebre \cup {s \in {SkuLinea[l]} : OtrosReservaron(l)} \in SUBSET Skus
    BY <1>b
  <2> QED BY <1>4, <2>1, <2>2 DEF RevisarReservas
<1>5. ASSUME NEW l \in Linea, RevisarFalta(l) PROVE t' \in Tareas
  <2>1. [t.bp EXCEPT ![l] = t.foto[SkuLinea[l]]] \in [Linea -> Nat]  BY <1>c
  <2>2. NumSocios \in 0..NumSocios  BY ProcesoAssumption
  <2> QED BY <1>5, <1>c, <2>1, <2>2 DEF RevisarFalta
<1>6. CASE PedirASocio
  <2>1. PICK D \in SUBSET Stock("ajeno", SkuLinea[t.linea]) :
            \E n \in Faltante(D) : t' = [t EXCEPT !.falta = n, !.socios = @ - 1]
    BY <1>6 DEF PedirASocio
  <2>a. PICK n \in Faltante(D) : t' = [t EXCEPT !.falta = n, !.socios = @ - 1]
    BY <2>1
  <2>2. IsFiniteSet(D)  BY BodegaAssumption, FS_Subset DEF Stock
  <2>3. n \in Int  BY <2>2, FS_CardinalityType DEF Faltante
  <2>4. t.socios - 1 \in 0..NumSocios  BY <1>6, ProcesoAssumption DEF PedirASocio
  <2> QED BY <2>a, <2>3, <2>4
<1>7. CASE ListarRecepcion
  <2>1. PICK L \in Listado("recepcion", SkuLinea[t.linea], cantRecibida) :
            t' = [t EXCEPT !.pc = "recibir", !.pend = L]
    BY <1>7 DEF ListarRecepcion
  <2>2. L \in SUBSET Unidades  BY ListadoSubset
  <2> QED BY <2>1, <2>2
<1>8. ASSUME NEW u \in Unidades, Recibir(u) \/ Mover(u) PROVE t' \in Tareas
  <2>1. CASE Recibir(u)  BY <2>1 DEF Recibir
  <2>2. CASE Mover(u)  BY <2>2 DEF Mover
  <2> QED BY <1>8, <2>1, <2>2
<1>9. CASE CerrarFalta
  <2>1. t.quiebre \cup {s \in {SkuLinea[t.linea]} : cantRecibida < cantPedir(t.linea)}
            \in SUBSET Skus
    BY <1>b
  <2>2. NumSocios \in Nat  BY ProcesoAssumption
  <2>3. PICK Q \in SUBSET Skus, T \in SUBSET Linea :
            t' = [t EXCEPT !.pc = "revisar", !.todo = T, !.quiebre = Q,
                           !.falta = 0, !.socios = 0]
    <3>1. t.todo \ {t.linea} \in SUBSET Linea  OBVIOUS
    <3> QED BY <1>9, <2>1, <3>1, Zenon DEF CerrarFalta
  <2>4. ASSUME NEW n \in Int, NEW m \in 0..NumSocios
        PROVE  [t EXCEPT !.pc = "revisar", !.todo = T, !.quiebre = Q,
                         !.falta = n, !.socios = m] \in Tareas
    OBVIOUS
  <2>5. 0 \in Int /\ 0 \in 0..NumSocios  BY <2>2
  <2> QED BY <2>3, <2>4, <2>5, Zenon
<1>10. CASE GetStockListo \/ Marcar \/ Documentar
  <2>1. CASE GetStockListo  BY <2>1 DEF GetStockListo
  <2>2. CASE Marcar  BY <2>2 DEF Marcar
  <2>3. CASE Documentar  BY <2>3 DEF Documentar
  <2> QED BY <1>10, <2>1, <2>2, <2>3
<1>11. ASSUME NEW s \in Skus, Quebrar(s) PROVE t' \in Tareas
  <2>1. {l \in t.prods : SkuLinea[l] # s} \in SUBSET Linea  OBVIOUS
  <2>2. t' = [t EXCEPT !.pc = "documentar", !.clave = s, !.quiebre = t.quiebre \ {s},
                       !.prods = {l \in t.prods : SkuLinea[l] # s}]
    BY <1>11 DEF Quebrar
  <2>3. t.quiebre \ {s} \in SUBSET Skus  OBVIOUS
  <2> QED BY <2>1, <2>2, <2>3
<1>12. CASE EmpezarPreparar
  BY <1>12 DEF EmpezarPreparar
<1>13. ASSUME NEW l \in Linea, ListarPrincipal(l) PROVE t' \in Tareas
  <2>1. PICK L \in Listado("principal", SkuLinea[l], cantProdPrincipal(l)) :
            t' = [t EXCEPT !.pc = "mover", !.linea = l, !.pend = L]
    BY <1>13 DEF ListarPrincipal
  <2>2. L \in SUBSET Unidades  BY ListadoSubset
  <2> QED BY <2>1, <2>2
<1>14. CASE Rechazar
  BY <1>14 DEF Rechazar
<1>15. CASE Reservar \/ PrepareStockListo
  <2>1. CASE Reservar
    <3>1. t' = [t EXCEPT !.pc = "preparar", !.todo = t.todo \ {t.linea}]
      BY <2>1 DEF Reservar
    <3> QED BY <3>1
  <2>2. CASE PrepareStockListo  BY <2>2 DEF PrepareStockListo
  <2> QED BY <1>15, <2>1, <2>2
<1>16. CASE Resumir
  BY <1>16, SinTarea DEF Resumir
<1> QED
  BY <1>1, <1>2, <1>3, <1>4, <1>5, <1>6, <1>7, <1>8, <1>9, <1>10, <1>11, <1>12,
     <1>13, <1>14, <1>15, <1>16 DEF Tarea

\* What a step of the task leaves alone.
LEMMA Marco ==
    ASSUME Tarea \/ Fallar
    PROVE  /\ \/ base' = base \/ Marcar \/ Reservar
              \/ \E s \in Skus : Quebrar(s)
           /\ dw' = dw \/ Documentar \/ Resumir
           /\ prep' = prep \/ \E u \in Unidades : Mover(u)
           /\ fallos' = fallos \/ Fallar
           /\ ajenos' = ajenos
BY DEF Tarea, Fallar, Iniciar, Abrir, Terminar, RevisarReservas, RevisarFalta,
       ListarPrincipal, PedirASocio, ListarRecepcion, CerrarFalta, GetStockListo,
       Recibir, Mover, Marcar, Documentar, EmpezarPreparar, Rechazar, Reservar,
       Quebrar, PrepareStockListo, Resumir

\* What a client used of a reservation is a number, whatever is prepared.
LEMMA UsoNat ==
    ASSUME NEW usado \in Nat, NEW reservado \in Nat, NEW n \in Nat
    PROVE  use_reservation(usado, reservado, n) \in Nat
BY DEF use_reservation

LEMMA TareaBase ==
    ASSUME TypeOK, Tarea \/ Fallar
    PROVE  base' \in Base
<1>0. base \in Base /\ t \in Tareas /\ prep \in [Linea -> SUBSET Unidades]
  BY DEF TypeOK
<1>1. CASE Marcar
  <2>1. t.f \in Archivo /\ (t.quiebre = {}) \in BOOLEAN  BY <1>0 DEF Tareas
  <2> QED BY <1>0, <1>1, <2>1 DEF Marcar, Base
<1>2. ASSUME NEW s \in Skus, Quebrar(s) PROVE base' \in Base
  <2> DEFINE B == [l \in Linea |-> base.broked[l] \/ (l \in LineasDe(t.f) /\ SkuLinea[l] = s)]
  <2>1. B \in [Linea -> BOOLEAN]  OBVIOUS
  <2>2. base' = [base EXCEPT !.broked = B]  BY <1>2 DEF Quebrar
  <2> HIDE DEF B
  <2> QED BY <1>0, <2>1, <2>2 DEF Base
<1>3. CASE Reservar
  <2> DEFINE c == ClienteDe[t.f]  s == SkuLinea[t.linea]
             n == use_reservation(base.used[c][s], Reservado[c][s],
                                  Cardinality(prep[t.linea]))
  <2>1. t.f \in Archivo /\ t.linea \in Linea  BY <1>0 DEF Tareas
  <2>2. c \in Cliente /\ s \in Skus /\ Reservado[c][s] \in Nat
    BY <2>1, ProcesoAssumption
  <2>3. base.used[c][s] \in Nat  BY <1>0, <2>2 DEF Base
  <2>4. n \in Nat  BY <1>0, <2>1, <2>2, <2>3, PrepNat, UsoNat
  <2>5. base' = [base EXCEPT !.used[c][s] = n]  BY <1>3 DEF Reservar
  <2> HIDE DEF n, c, s
  <2> QED BY <1>0, <2>2, <2>4, <2>5 DEF Base
<1> QED BY <1>0, <1>1, <1>2, <1>3, Marco

LEMMA TareaLoc ==
    ASSUME TypeOK, Tarea \/ Fallar
    PROVE  LocOK'
<1>0. LocOK /\ t.pend \subseteq Unidades  BY DEF TypeOK, Tareas
<1>1. ASSUME NEW u \in Unidades, NEW d \in Depositos, MoveStock(u, d) PROVE LocOK'
  BY <1>0, <1>1 DEF MoveStock, LocOK, Lugares
<1>2. ASSUME loc' = loc PROVE LocOK'  BY <1>0, <1>2 DEF LocOK
<1>3. CASE PedirASocio
  <2>1. PICK D \in SUBSET Stock("ajeno", SkuLinea[t.linea]),
             d \in {"recepcion", "pulmon"} :
                 loc' = [u \in Unidades |-> IF u \in D THEN d ELSE loc[u]]
    BY <1>3 DEF PedirASocio
  <2>2. d \in Lugares  BY DEF Lugares, Depositos
  <2> QED BY <1>0, <2>1, <2>2 DEF LocOK
<1>4. ASSUME NEW u \in Unidades, Recibir(u) \/ Mover(u) PROVE LocOK'
  BY <1>1, <1>2, <1>4 DEF Recibir, Mover, Depositos
<1>5. CASE Fallar
  BY <1>0, <1>1, <1>2, <1>5 DEF Fallar, Depositos
<1>6. CASE ~PedirASocio /\ ~Fallar /\ ~\E u \in Unidades : Recibir(u) \/ Mover(u)
  <2>1. loc' = loc
    BY <1>6
    DEF Tarea, Iniciar, Abrir, Terminar, RevisarReservas, RevisarFalta,
        ListarPrincipal, ListarRecepcion, CerrarFalta, GetStockListo, Marcar,
        Documentar, EmpezarPreparar, Rechazar, Reservar, Quebrar,
        PrepareStockListo, Resumir
  <2> QED BY <1>2, <2>1
<1> QED BY <1>3, <1>4, <1>5, <1>6

LEMMA InitTypeOK == Init => TypeOK
<1> SUFFICES ASSUME Init PROVE TypeOK  OBVIOUS
<1>1. LocOK  BY DEF Init, LocOK, Lugares, Depositos
<1>2. base \in Base
  <2>1. [c \in Cliente |-> [s \in Skus |-> 0]] \in [Cliente -> [Skus -> Nat]]
    OBVIOUS
  <2> QED BY <2>1 DEF Init, Base
<1>3. dw \in [pedido: [Archivo -> Nat], quiebre: SUBSET (Archivo \X Skus)]
  BY DEF Init
<1>4. t \in Tareas  BY SinTarea DEF Init
<1>5. 0 \in 0..MaxFallos /\ 0 \in 0..MaxAjenos  BY ProcesoAssumption
<1>6. prep \in [Linea -> SUBSET Unidades]  BY DEF Init
<1>7. fallos = 0 /\ ajenos = 0  BY DEF Init
<1> QED BY <1>1, <1>2, <1>3, <1>4, <1>5, <1>6, <1>7 DEF TypeOK

LEMMA NextTypeOK == TypeOK /\ [Next]_vars => TypeOK'
<1> SUFFICES ASSUME TypeOK, [Next]_vars PROVE TypeOK'  OBVIOUS
<1>0. /\ LocOK /\ base \in Base /\ t \in Tareas
      /\ dw \in [pedido: [Archivo -> Nat], quiebre: SUBSET (Archivo \X Skus)]
      /\ prep \in [Linea -> SUBSET Unidades]
      /\ fallos \in 0..MaxFallos /\ ajenos \in 0..MaxAjenos
      /\ t.f \in Archivo /\ t.clave \in Skus /\ t.linea \in Linea
  BY DEF TypeOK, Tareas
<1>1. CASE Tarea \/ Fallar
  <2>1. LocOK' /\ base' \in Base /\ t' \in Tareas
    BY <1>0, <1>1, TareaLoc, TareaBase, TareaTipo
  <2>2. dw' \in [pedido: [Archivo -> Nat], quiebre: SUBSET (Archivo \X Skus)]
    <3>1. CASE Documentar  BY <1>0, <3>1 DEF Documentar
    <3>2. CASE Resumir  BY <1>0, <3>2 DEF Resumir
    <3> QED BY <1>0, <1>1, <3>1, <3>2, Marco
  <2>3. prep' \in [Linea -> SUBSET Unidades]
    <3>1. ASSUME NEW u \in Unidades, Mover(u)
          PROVE  prep' \in [Linea -> SUBSET Unidades]
      BY <1>0, <3>1 DEF Mover
    <3> QED BY <1>0, <1>1, <3>1, Marco
  <2>4. fallos' \in 0..MaxFallos
    <3>1. CASE Fallar  BY <1>0, <3>1, ProcesoAssumption DEF Fallar
    <3> QED BY <1>0, <1>1, <3>1, Marco
  <2>5. ajenos' = ajenos  BY <1>1, Marco
  <2> QED BY <1>0, <2>1, <2>2, <2>3, <2>4, <2>5 DEF TypeOK
<1>2. ASSUME NEW g \in Archivo, CrearArchivo(g) PROVE TypeOK'
  <2>1. base' \in Base  BY <1>0, <1>2 DEF CrearArchivo, Base
  <2> QED BY <1>0, <1>2, <2>1 DEF CrearArchivo, TypeOK, LocOK
<1>3. ASSUME NEW l \in Linea, CrearLinea(l) PROVE TypeOK'
  <2>1. base' \in Base  BY <1>0, <1>3 DEF CrearLinea, Base
  <2> QED BY <1>0, <1>3, <2>1 DEF CrearLinea, TypeOK, LocOK
<1>4. ASSUME NEW u \in Unidades, Ajeno(u) PROVE TypeOK'
  <2>1. LocOK'
    BY <1>0, <1>4
    DEF Ajeno, PedidoMueve, MoveStock, MoveStockBodega, LocOK, Lugares, Depositos
  <2>2. ajenos' \in 0..MaxAjenos  BY <1>0, <1>4, ProcesoAssumption DEF Ajeno
  <2> QED BY <1>0, <1>4, <2>1, <2>2 DEF Ajeno, TypeOK
<1>5. CASE UNCHANGED vars  BY <1>0, <1>5 DEF vars, TypeOK, LocOK
<1> QED BY <1>1, <1>2, <1>3, <1>4, <1>5 DEF Next

\* Every state of the processing is well typed, whatever the other groups
\* answer; in particular no reservation is ever used a negative amount.
THEOREM TypeCorrect == Spec => []TypeOK
<1> QED BY InitTypeOK, NextTypeOK, PTL DEF Spec

-----------------------------------------------------------------------------
(* What is done for an order is done once *)

\* The steps of main with an order at hand, and those after it was marked.
EnCurso == Pasos \ {"libre", "archivo"}
Marcado == {"quebrar", "documentar", "preparar", "mover", "resumen"}

\* An order that is not marked has left no trace.
Intacto ==
    \A g \in Archivo : ~base.processed[g] =>
        /\ dw.pedido[g] = 0
        /\ \A l \in Linea : ArchivoDe[l] = g => prep[l] = {} /\ ~base.broked[l]

\* The orders of the run are unmarked, but for the one at hand once Marcar was
\* there; and that one has no document yet.
Turno ==
    /\ t.pc \in EnCurso => t.f \in t.cola
    /\ \A g \in t.cola : g # t.f \/ t.pc \notin Marcado => ~base.processed[g]
    /\ t.pc \in Marcado => base.processed[t.f] /\ dw.pedido[t.f] = 0

\* producto holds lines of the order at hand that are not broken, and the loops
\* go over those.
EnMano ==
    /\ t.pc \in EnCurso =>
           \A l \in t.prods : l \in base.lineas /\ ArchivoDe[l] = t.f /\ ~base.broked[l]
    /\ t.pc \in {"revisar", "socios", "recibir", "preparar", "mover"} =>
           t.todo \subseteq t.prods
    /\ t.pc \in {"socios", "recibir", "mover"} => t.linea \in t.prods

\* The reasons are products of the order at hand, which then has no success;
\* while there are any nothing is prepared.
Motivo ==
    /\ t.pc = "archivo" => t.quiebre = {}
    /\ t.pc \in EnCurso \ {"preparar", "mover", "resumen"} =>
           \A s \in t.quiebre : \E l \in base.lineas :
               ArchivoDe[l] = t.f /\ SkuLinea[l] = s
    /\ t.pc \in {"quebrar", "documentar"} =>
           /\ t.quiebre # {} \/ t.pc = "documentar" => ~base.success[t.f]
           /\ \A l \in Linea : ArchivoDe[l] = t.f => prep[l] = {}
    /\ t.pc = "documentar" => \E l \in Linea :
           ArchivoDe[l] = t.f /\ SkuLinea[l] = t.clave /\ base.broked[l]

\* A line is prepared once.
PorPreparar ==
    t.pc \in {"preparar", "mover"} =>
        \A l \in t.todo : t.pc = "preparar" \/ l # t.linea => prep[l] = {}

Registro ==
    /\ UnaVez /\ QuiebreConsistente /\ ExcesoSoloSinStock
    /\ Intacto /\ Turno /\ EnMano /\ Motivo /\ PorPreparar

LEMMA InitRegistro == Init => Registro
BY DEF Init, Registro, Ocioso, UnaVez, QuiebreConsistente, ExcesoSoloSinStock,
       Intacto, Turno, EnMano, Motivo, PorPreparar, EnCurso, Marcado, Pasos

\* The listing of prepareStock names no more than the quantity, unless the
\* limit is 0.
LEMMA TopeListado ==
    ASSUME TypeOK, NEW l \in Linea,
           NEW L \in Listado("principal", SkuLinea[l], cantProdPrincipal(l))
    PROVE  t.bp[l] = 0 \/ CantLinea[l] <= 0 \/ Cardinality(L) <= CantLinea[l]
<1>1. t.bp[l] \in Nat /\ CantLinea[l] \in Nat
  BY ProcesoAssumption DEF TypeOK, Tareas
<1>2. cantProdPrincipal(l) = IF CantLinea[l] <= t.bp[l] THEN CantLinea[l] ELSE t.bp[l]
  BY <1>1 DEF cantProdPrincipal, Min
<1>3. Cardinality(L) \in Nat
  BY ListadoSubset, BodegaAssumption, FS_Subset, FS_CardinalityType
<1> QED BY <1>1, <1>2, <1>3 DEF Listado

LEMMA NextRegistro == TypeOK /\ Registro /\ [Next]_vars => Registro'
<1> SUFFICES ASSUME TypeOK, Registro, [Next]_vars PROVE Registro'  OBVIOUS
<1>0. /\ base \in Base /\ t \in Tareas
      /\ dw \in [pedido: [Archivo -> Nat], quiebre: SUBSET (Archivo \X Skus)]
      /\ prep \in [Linea -> SUBSET Unidades]
      /\ ArchivoDe \in [Linea -> Archivo]
  BY ProcesoAssumption DEF TypeOK
<1> USE <1>0 DEF Registro, UnaVez, QuiebreConsistente, ExcesoSoloSinStock,
                 Intacto, Turno, EnMano, Motivo, PorPreparar, EnCurso, Marcado,
                 Pasos, Tareas, Base
<1>1. CASE Iniciar  BY <1>1 DEF Iniciar, Ocioso
<1>2. ASSUME NEW g \in Archivo, Abrir(g) PROVE Registro'
  <2>1. /\ t'.pc = "revisar" /\ t'.cola = t.cola /\ t'.f = g
        /\ t'.prods = LineasDe(g) /\ t'.todo = LineasDe(g)
        /\ t'.quiebre = t.quiebre
        /\ base' = base /\ dw' = dw /\ prep' = prep
        /\ t.pc = "archivo" /\ g \in t.cola
    BY <1>2 DEF Abrir, Primero
  <2>2. t.quiebre = {}  BY <2>1
  <2>3. ~base.processed[g]  BY <2>1
  <2> QED BY <2>1, <2>2, <2>3 DEF LineasDe
<1>3. CASE Terminar \/ Fallar  BY <1>3 DEF Terminar, Fallar, Ocioso
<1>4. ASSUME NEW l \in Linea, RevisarReservas(l) PROVE Registro'
  BY <1>4 DEF RevisarReservas
<1>5. ASSUME NEW l \in Linea, RevisarFalta(l) PROVE Registro'
  BY <1>5 DEF RevisarFalta
<1>6. CASE PedirASocio  BY <1>6 DEF PedirASocio
<1>7. CASE ListarRecepcion  BY <1>7 DEF ListarRecepcion
<1>8. ASSUME NEW u \in Unidades, Recibir(u) PROVE Registro'
  <2>1. PICK P \in SUBSET Unidades : t' = [t EXCEPT !.pend = P]  BY <1>8 DEF Recibir
  <2> QED BY <1>8, <2>1 DEF Recibir
<1>9. CASE CerrarFalta  BY <1>9 DEF CerrarFalta
<1>10. CASE GetStockListo  BY <1>10 DEF GetStockListo
<1>11. CASE Marcar  BY <1>11 DEF Marcar
<1>12. ASSUME NEW s \in Skus, Quebrar(s) PROVE Registro'
  BY <1>12 DEF Quebrar, LineasDe
<1>13. CASE Documentar  BY <1>13 DEF Documentar
<1>14. CASE EmpezarPreparar  BY <1>14 DEF EmpezarPreparar
<1>15. ASSUME NEW l \in Linea, ListarPrincipal(l) PROVE Registro'
  <2>1. PICK L \in Listado("principal", SkuLinea[l], cantProdPrincipal(l)) :
            t' = [t EXCEPT !.pc = "mover", !.linea = l, !.pend = L]
    BY <1>15 DEF ListarPrincipal
  <2>2. prep[l] = {}  BY <1>15 DEF ListarPrincipal
  <2>3. t.bp[l] = 0 \/ CantLinea[l] <= 0 \/ Cardinality(L) <= CantLinea[l]
    BY <2>1, TopeListado
  <2>4. prep[l] \cup L = L  BY <2>2
  <2>5. /\ t.pc = "preparar" /\ l \in t.todo /\ t'.pc = "mover" /\ t'.linea = l
        /\ t'.pend = L /\ t'.bp = t.bp /\ t'.todo = t.todo /\ t'.prods = t.prods
        /\ t'.f = t.f /\ t'.cola = t.cola
        /\ base' = base /\ dw' = dw /\ prep' = prep
    BY <1>15, <2>1 DEF ListarPrincipal
  <2>6. ExcesoSoloSinStock'
    <3>1. CantLinea[l] \in Nat  BY ProcesoAssumption
    <3>2. t'.linea = l /\ t'.bp = t.bp  BY <2>5
    <3>3. prep' = prep /\ t'.pend = L  BY <2>5
    <3>4. prep'[l] \cup t'.pend = L  BY <2>4, <3>3, Zenon
    <3>5. Cardinality(prep'[t'.linea] \cup t'.pend) = Cardinality(L)
      BY <3>2, <3>4, Zenon
    <3>6. t'.bp[t'.linea] = t.bp[l] /\ CantLinea[t'.linea] = CantLinea[l]
      BY <3>2
    <3> QED BY <2>3, <3>1, <3>5, <3>6
  <2>7. (UnaVez /\ QuiebreConsistente /\ Intacto)'  BY <2>5
  <2>8. (Turno /\ EnMano /\ Motivo /\ PorPreparar)'  BY <2>5
  <2> QED BY <2>6, <2>7, <2>8
<1>16. ASSUME NEW u \in Unidades, Mover(u) PROVE Registro'
  <2>1. /\ t' = [t EXCEPT !.pend = t.pend \ {u}] /\ u \in t.pend /\ t.pc = "mover"
        /\ prep' = [prep EXCEPT ![t.linea] = prep[t.linea] \cup {u}]
        /\ base' = base /\ dw' = dw
    BY <1>16 DEF Mover
  <2>2. (prep[t.linea] \cup {u}) \cup (t.pend \ {u}) = prep[t.linea] \cup t.pend
    BY <2>1
  <2>3. prep'[t.linea] \cup t'.pend = prep[t.linea] \cup t.pend  BY <2>1, <2>2
  <2>4. /\ t'.pc = t.pc /\ t'.linea = t.linea /\ t'.bp = t.bp /\ t'.todo = t.todo
        /\ t'.prods = t.prods /\ t'.f = t.f /\ t'.cola = t.cola
        /\ \A l \in Linea : l # t.linea => prep'[l] = prep[l]
    BY <2>1
  <2>5. ArchivoDe[t.linea] = t.f /\ ~base.broked[t.linea] /\ base.processed[t.f]
    BY <2>1
  <2>6. ExcesoSoloSinStock'  BY <2>1, <2>3, <2>4
  <2>7. (UnaVez /\ QuiebreConsistente /\ Intacto)'  BY <2>1, <2>4, <2>5
  <2>8. (Turno /\ EnMano /\ Motivo /\ PorPreparar)'  BY <2>1, <2>4
  <2> QED BY <2>6, <2>7, <2>8
<1>17. CASE Rechazar
  <2>1. IsFiniteSet(prep[t.linea] \cup t.pend)  BY BodegaAssumption, FS_Subset
  <2>2. /\ Cardinality(prep[t.linea] \cup {}) <= Cardinality(prep[t.linea] \cup t.pend)
        /\ Cardinality(prep[t.linea] \cup {}) \in Nat
        /\ Cardinality(prep[t.linea] \cup t.pend) \in Nat
    BY <2>1, FS_Subset, FS_CardinalityType
  <2>3. t' = [t EXCEPT !.pend = {}, !.err = TRUE]  BY <1>17 DEF Rechazar
  <2>4. CantLinea[t.linea] \in Nat  BY ProcesoAssumption
  <2> QED BY <1>17, <2>2, <2>3, <2>4 DEF Rechazar
<1>18. CASE Reservar  BY <1>18 DEF Reservar
<1>19. CASE PrepareStockListo  BY <1>19 DEF PrepareStockListo
<1>20. CASE Resumir  BY <1>20 DEF Resumir, Ocioso
<1>21. ASSUME NEW g \in Archivo, CrearArchivo(g) PROVE Registro'
  BY <1>21 DEF CrearArchivo
<1>22. ASSUME NEW l \in Linea, CrearLinea(l) PROVE Registro'
  BY <1>22 DEF CrearLinea
<1>23. ASSUME NEW u \in Unidades, Ajeno(u) PROVE Registro'  BY <1>23 DEF Ajeno
<1>24. CASE UNCHANGED vars  BY <1>24 DEF vars
<1> QED
  BY <1>1, <1>2, <1>3, <1>4, <1>5, <1>6, <1>7, <1>8, <1>9, <1>10, <1>11, <1>12,
     <1>13, <1>14, <1>15, <1>16, <1>17, <1>18, <1>19, <1>20, <1>21, <1>22, <1>23,
     <1>24 DEF Next, Tarea

THEOREM RegistroSiempre == Spec => []Registro
<1> QED BY TypeCorrect, InitRegistro, NextRegistro, PTL DEF Spec

\* However often the task is stopped and started again, an order gets one
\* document at most, and none before it is marked as processed.
THEOREM UnaVezSiempre == Spec => []UnaVez
<1>1. Registro => UnaVez  BY DEF Registro
<1> QED BY <1>1, RegistroSiempre, PTL

\* What is reported broken is flagged, its order has no success, and nothing was
\* prepared for it, wherever the task was stopped.
THEOREM QuiebreSiempre == Spec => []QuiebreConsistente
<1>1. Registro => QuiebreConsistente  BY DEF Registro
<1> QED BY <1>1, RegistroSiempre, PTL

\* A line gets more than its quantity only where the main depot had none.
THEOREM ExcesoSiempre == Spec => []ExcesoSoloSinStock
<1>1. Registro => ExcesoSoloSinStock  BY DEF Registro
<1> QED BY <1>1, RegistroSiempre, PTL


-----------------------------------------------------------------------------
(* Sums over a set: what MapThenSumSet denotes *)

\* The element MapThenFoldSet folds first.
Elegir(s) == CHOOSE x \in s : TRUE

\* g adds up f over the subsets of S.
SumaDe(g, f, S) ==
    g = [s \in SUBSET S |-> IF s = {} THEN 0
                            ELSE f[Elegir(s)] + g[s \ {Elegir(s)}]]

\* A set of naturals that is not empty has a least element.
LEMMA MenorNat ==
    ASSUME NEW T \in SUBSET Nat, T # {}
    PROVE  \E m \in T : \A n \in T : m <= n
<1> DEFINE R == OpToRel(<, Nat)
<1>1. IsWellFoundedOn(R, Nat)  BY NatLessThanWellFounded
<1>2. \A x, y \in Nat : y < x => <<y, x>> \in R  BY DEF OpToRel
<1> HIDE DEF R
<1>3. T \subseteq Nat  OBVIOUS
<1>4. PICK x \in T : \A y \in T : ~(<<y, x>> \in R)  BY <1>1, <1>3, WFMin, Zenon
<1>5. ASSUME NEW y \in T PROVE x <= y
  <2>1. ~(y < x)  BY <1>2, <1>3, <1>4
  <2> QED BY <1>3, <2>1
<1> QED BY <1>5

LEMMA QuitarUno ==
    ASSUME NEW s, IsFiniteSet(s), s # {}
    PROVE  /\ Elegir(s) \in s
           /\ IsFiniteSet(s \ {Elegir(s)})
           /\ Cardinality(s) \in Nat
           /\ Cardinality(s \ {Elegir(s)}) \in Nat
           /\ Cardinality(s) = Cardinality(s \ {Elegir(s)}) + 1
<1>1. Elegir(s) \in s  BY DEF Elegir
<1>2. /\ IsFiniteSet(s \ {Elegir(s)})
      /\ Cardinality(s \ {Elegir(s)}) = Cardinality(s) - 1
  BY <1>1, FS_RemoveElement
<1> QED BY <1>1, <1>2, FS_CardinalityType

\* The recursive function that MapThenSumSet chooses exists on a finite set: on
\* the subsets of n elements for the least n where it would not, the one for
\* n - 1 gives it.
LEMMA HaySuma ==
    ASSUME NEW S, IsFiniteSet(S), NEW f
    PROVE  \E g : SumaDe(g, f, S)
<1> DEFINE D(n) == {s \in SUBSET S : Cardinality(s) <= n}
           Paso(g, s) == IF s = {} THEN 0 ELSE f[Elegir(s)] + g[s \ {Elegir(s)}]
           Hasta(g, n) == \A s \in D(n) : g[s] = Paso(g, s)
           T == {n \in Nat : ~ \E g : Hasta(g, n)}
<1>1. ASSUME NEW s \in SUBSET S
      PROVE  /\ IsFiniteSet(s) /\ Cardinality(s) \in Nat
             /\ Cardinality(s) <= Cardinality(S)
             /\ s # {} => /\ s \ {Elegir(s)} \in SUBSET S
                          /\ Cardinality(s) = Cardinality(s \ {Elegir(s)}) + 1
  BY FS_Subset, FS_CardinalityType, QuitarUno
<1>2. T = {}
  <2> SUFFICES ASSUME T # {} PROVE FALSE  OBVIOUS
  <2>1. PICK m \in T : \A n \in T : m <= n
    <3>1. T \in SUBSET Nat  OBVIOUS
    <3> HIDE DEF T
    <3> QED BY <3>1, MenorNat
  <2>2. m \in Nat /\ ~ \E g : Hasta(g, m)  OBVIOUS
  <2>3. PICK g : \A s \in SUBSET S : Cardinality(s) < m => g[s] = Paso(g, s)
    <3>0. \A s \in SUBSET S : Cardinality(s) \in Nat  BY <1>1
    <3>1. CASE m = 0
      <4>1. \A s \in SUBSET S : ~(Cardinality(s) < m)  BY <3>0, <3>1
      <4> QED BY <4>1
    <3>2. CASE m # 0
      <4>1. m - 1 \in Nat /\ ~(m <= m - 1)  BY <2>2, <3>2
      <4>2. m - 1 \notin T  BY <2>1, <4>1
      <4>3. PICK g : Hasta(g, m - 1)  BY <4>1, <4>2
      <4>4. \A s \in SUBSET S : Cardinality(s) < m => s \in D(m - 1)
        BY <2>2, <3>0
      <4> QED BY <4>3, <4>4
    <3> QED BY <3>1, <3>2
  <2> DEFINE h == [s \in SUBSET S |-> IF Cardinality(s) < m THEN g[s] ELSE Paso(g, s)]
  <2>4. ASSUME NEW s \in D(m) PROVE h[s] = Paso(h, s)
    <3>1. h[s] = Paso(g, s)  BY <2>3
    <3>2. s # {} => h[s \ {Elegir(s)}] = g[s \ {Elegir(s)}]
      <4>1. s # {} => /\ s \ {Elegir(s)} \in SUBSET S
                      /\ Cardinality(s \ {Elegir(s)}) < m
        <5>1. s # {} => Cardinality(s \ {Elegir(s)}) \in Nat  BY <1>1
        <5> QED BY <1>1, <2>2, <5>1
      <4> QED BY <4>1
    <3> QED BY <3>1, <3>2
  <2> QED BY <2>2, <2>4
<1>3. PICK g : Hasta(g, Cardinality(S))
  <2>1. Cardinality(S) \in Nat  BY FS_CardinalityType
  <2> QED BY <1>2, <2>1
<1>4. \A s \in SUBSET S : g[s] = Paso(g, s)  BY <1>1, <1>3
<1> DEFINE h == [s \in SUBSET S |-> Paso(g, s)]
<1>5. \A s \in SUBSET S : h[s] = Paso(h, s)
  BY <1>1, <1>4
<1>6. h = [s \in SUBSET S |-> IF s = {} THEN 0 ELSE f[Elegir(s)] + h[s \ {Elegir(s)}]]
  BY <1>5
<1> HIDE DEF h
<1> QED BY <1>6 DEF SumaDe

\* Induction on a finite set: a family of its subsets that is not empty has a
\* member which the family does not hold without its chosen element.
LEMMA MenorConjunto ==
    ASSUME NEW S, IsFiniteSet(S), NEW T \in SUBSET (SUBSET S), T # {}
    PROVE  \E s \in T : s = {} \/ (s # {} /\ s \ {Elegir(s)} \notin T)
<1> DEFINE N == {Cardinality(s) : s \in T}
<1>0. \A s \in T : IsFiniteSet(s) /\ Cardinality(s) \in Nat
  BY FS_Subset, FS_CardinalityType
<1>1. N \in SUBSET Nat /\ N # {}  BY <1>0
<1>2. PICK m \in N : \A n \in N : m <= n
  <2> HIDE DEF N
  <2> QED BY <1>1, MenorNat
<1>3. PICK s \in T : m = Cardinality(s)  OBVIOUS
<1>4. ASSUME s # {} PROVE s \ {Elegir(s)} \notin T
  <2>1. /\ Cardinality(s) \in Nat /\ Cardinality(s \ {Elegir(s)}) \in Nat
        /\ Cardinality(s) = Cardinality(s \ {Elegir(s)}) + 1
    BY <1>0, <1>4, QuitarUno
  <2>2. ~(m <= Cardinality(s \ {Elegir(s)}))  BY <1>3, <2>1
  <2>3. Cardinality(s \ {Elegir(s)}) \notin N  BY <1>2, <2>2
  <2> QED BY <2>3
<1> QED BY <1>4

\* There is one such function at most.
LEMMA SumaUnica ==
    ASSUME NEW S, IsFiniteSet(S), NEW f, NEW g, NEW k,
           SumaDe(g, f, S), SumaDe(k, f, S)
    PROVE  g[S] = k[S]
<1> DEFINE T == {s \in SUBSET S : g[s] # k[s]}
<1>1. T = {}
  <2> SUFFICES ASSUME T # {} PROVE FALSE  OBVIOUS
  <2>1. PICK s \in T : s = {} \/ (s # {} /\ s \ {Elegir(s)} \notin T)
    <3>1. T \in SUBSET (SUBSET S)  OBVIOUS
    <3> HIDE DEF T
    <3> QED BY <3>1, MenorConjunto, Zenon
  <2>2. \A r \in SUBSET S : /\ g[r] = IF r = {} THEN 0 ELSE f[Elegir(r)] + g[r \ {Elegir(r)}]
                           /\ k[r] = IF r = {} THEN 0 ELSE f[Elegir(r)] + k[r \ {Elegir(r)}]
    BY DEF SumaDe
  <2> QED BY <2>1, <2>2
<1> QED BY <1>1

\* The sum of a function over a set.
Sumar(f, S) == MapThenSumSet(LAMBDA x : f[x], S)

\* What MapThenSumSet denotes is that recursive function at the whole set.
LEMMA SumarEs ==
    ASSUME NEW S, IsFiniteSet(S), NEW f
    PROVE  \E g : SumaDe(g, f, S) /\ Sumar(f, S) = g[S]
<1> DEFINE E(g) == g = [s \in SUBSET S |->
                          IF s = {} THEN 0
                          ELSE f[CHOOSE x \in s : TRUE] + g[s \ {CHOOSE x \in s : TRUE}]]
<1>1. \A g : SumaDe(g, f, S) <=> E(g)  BY DEF SumaDe, Elegir
<1>2. \E g : E(g)
  <2>1. PICK g : SumaDe(g, f, S)  BY HaySuma
  <2>2. E(g)  BY <1>1, <2>1
  <2> QED BY <2>2
<1>3. E(CHOOSE g : E(g))  BY <1>2
<1>4. Sumar(f, S) = (CHOOSE g : E(g))[S]
  BY DEF Sumar, MapThenSumSet, MapThenFoldSet
<1> HIDE DEF E
<1> QED BY <1>1, <1>3, <1>4

\* A sum is an integer, and it grows with its terms; where one of them grows by n
\* it grows by n at least.
LEMMA SumaSube ==
    ASSUME NEW S, IsFiniteSet(S), NEW f \in [S -> Int], NEW h \in [S -> Int],
           NEW x, NEW n \in Int,
           \A y \in S : f[y] + (IF y = x THEN n ELSE 0) <= h[y]
    PROVE  /\ Sumar(f, S) \in Int /\ Sumar(h, S) \in Int
           /\ Sumar(f, S) + (IF x \in S THEN n ELSE 0) <= Sumar(h, S)
<1>1. PICK g : SumaDe(g, f, S) /\ Sumar(f, S) = g[S]  BY SumarEs
<1>2. PICK k : SumaDe(k, h, S) /\ Sumar(h, S) = k[S]  BY SumarEs
<1> DEFINE Bien(s) == /\ g[s] \in Int /\ k[s] \in Int
                      /\ g[s] + (IF x \in s THEN n ELSE 0) <= k[s]
           T == {s \in SUBSET S : ~Bien(s)}
<1>3. T = {}
  <2> SUFFICES ASSUME T # {} PROVE FALSE  OBVIOUS
  <2>1. PICK s \in T : s = {} \/ (s # {} /\ s \ {Elegir(s)} \notin T)
    <3>1. T \in SUBSET (SUBSET S)  OBVIOUS
    <3> HIDE DEF T
    <3> QED BY <3>1, MenorConjunto, Zenon
  <2>2. CASE s = {}
    <3>1. g[{}] = 0 /\ k[{}] = 0  BY <1>1, <1>2 DEF SumaDe
    <3> QED BY <2>1, <2>2, <3>1
  <2>3. CASE s # {} /\ s \ {Elegir(s)} \notin T
    <3> DEFINE y == Elegir(s)  r == s \ {y}
    <3>1. y \in s /\ y \in S  BY <2>1, <2>3 DEF Elegir
    <3>2. Bien(r)  BY <2>1, <2>3
    <3>3. g[s] = f[y] + g[r] /\ k[s] = h[y] + k[r]
      BY <1>1, <1>2, <2>1, <2>3 DEF SumaDe
    <3>4. f[y] \in Int /\ h[y] \in Int /\ f[y] + (IF y = x THEN n ELSE 0) <= h[y]
      BY <3>1
    <3>5. (x \in s) <=> (x \in r \/ x = y)  BY <3>1
    <3>6. x = y => x \notin r  OBVIOUS
    <3>7. ~Bien(s)  BY <2>1
    <3> HIDE DEF y, r
    <3> QED BY <3>2, <3>3, <3>4, <3>5, <3>6, <3>7
  <2> QED BY <2>1, <2>2, <2>3
<1>4. Bien(S)  BY <1>3
<1> QED BY <1>1, <1>2, <1>4

-----------------------------------------------------------------------------
(* What the other clients reserved *)

\* What each client but c has reserved of s and not used, as the columns u say.
Libres(u, s, c) == [d \in Cliente \ {c} |-> Reservado[d][s] - u[d][s]]

\* Gdoc.return_reservation on those columns.
Libre(u, s, c) == MapThenSumSet(LAMBDA d : Reservado[d][s] - u[d][s], Cliente \ {c})

LEMMA LibreEs ==
    ASSUME NEW u, NEW s, NEW c
    PROVE  Libre(u, s, c) = Sumar(Libres(u, s, c), Cliente \ {c})
<1> DEFINE S == Cliente \ {c}
           f == Libres(u, s, c)
           E(g) == g = [r \in SUBSET S |->
                          IF r = {} THEN 0
                          ELSE LET x == CHOOSE x \in r : TRUE
                               IN  (Reservado[x][s] - u[x][s]) + g[r \ {x}]]
<1>0. IsFiniteSet(S)  BY ProcesoAssumption, FS_Subset
<1>1. PICK g0 : SumaDe(g0, f, S) /\ Sumar(f, S) = g0[S]
  <2> HIDE DEF S, f
  <2> QED BY <1>0, SumarEs
<1>2. \A g : SumaDe(g, f, S) <=> E(g)
  <2>1. \A r \in SUBSET S : r # {} =>
            f[Elegir(r)] = Reservado[Elegir(r)][s] - u[Elegir(r)][s]
    BY DEF Elegir, Libres
  <2> QED BY <2>1 DEF SumaDe, Elegir
<1> HIDE DEF E
<1>3. E(CHOOSE g : E(g))  BY <1>1, <1>2, Zenon
<1> DEFINE k == CHOOSE g : E(g)
<1>4. Libre(u, s, c) = k[S]
  BY DEF Libre, MapThenSumSet, MapThenFoldSet, E
<1>5. SumaDe(k, f, S)  BY <1>2, <1>3
<1> HIDE DEF f, S, k
<1>6. g0[S] = k[S]  BY <1>0, <1>1, <1>5, SumaUnica
<1> QED BY <1>1, <1>4, <1>6 DEF S, f

\* What the others reserved changes only with what they use.
LEMMA ReservaIgual ==
    ASSUME NEW s, NEW c, \A d \in Cliente \ {c} : base'.used[d][s] = base.used[d][s]
    PROVE  return_reservation(s, c)' = return_reservation(s, c)
<1>1. return_reservation(s, c) = Libre(base.used, s, c)
  BY DEF return_reservation, Libre, MapThenSumSet, MapThenFoldSet
<1>2. return_reservation(s, c)' = Libre(base'.used, s, c)
  BY DEF return_reservation, Libre, MapThenSumSet, MapThenFoldSet
<1>3. Libres(base.used, s, c) = Libres(base'.used, s, c)  BY DEF Libres
<1> QED BY <1>1, <1>2, <1>3, LibreEs

LEMMA ReservaEntera ==
    ASSUME TypeOK, NEW s \in Skus, NEW c
    PROVE  return_reservation(s, c) \in Int
<1> DEFINE f == Libres(base.used, s, c)  S == Cliente \ {c}
<1>1. return_reservation(s, c) = Sumar(f, S)
  <2>1. return_reservation(s, c) = Libre(base.used, s, c)
    BY DEF return_reservation, Libre, MapThenSumSet, MapThenFoldSet
  <2> QED BY <2>1, LibreEs
<1>2. f \in [S -> Int]
  <2>1. \A d \in S : Reservado[d][s] \in Nat /\ base.used[d][s] \in Nat
    BY ProcesoAssumption DEF TypeOK, Base
  <2> QED BY <2>1 DEF Libres
<1>3. IsFiniteSet(S)  BY ProcesoAssumption, FS_Subset
<1> HIDE DEF f, S
<1>4. \A y \in S : f[y] + (IF y = c THEN 0 ELSE 0) <= f[y]  BY <1>2
<1> QED BY <1>1, <1>2, <1>3, <1>4, SumaSube

\* A line of the order at hand that is still to be served was looked at: the main
\* depot was short of it, its product is broken, or the others left enough.
Respeto ==
    /\ t.pc \in {"preparar", "mover", "resumen"} => t.quiebre = {}
    /\ t.pc \in {"socios", "recibir"} => Falta(t.linea)
    /\ t.pc \in EnCurso =>
           \A l \in t.prods :
               \/ t.pc \in {"revisar", "socios", "recibir"} /\ l \in t.todo
               \/ Falta(l) \/ SkuLinea[l] \in t.quiebre \/ ~OtrosReservaron(l)

\* A step that leaves the listing, the order at hand and the reservations of the
\* other clients alone.
LEMMA RevisadoIgual ==
    ASSUME t'.foto = t.foto, t'.f = t.f,
           \A s \in Skus, d \in Cliente \ {ClienteDe[t.f]} :
               base'.used[d][s] = base.used[d][s]
    PROVE  \A l \in Linea : /\ Falta(l)' <=> Falta(l)
                            /\ OtrosReservaron(l)' <=> OtrosReservaron(l)
<1> SUFFICES ASSUME NEW l \in Linea
             PROVE  /\ Falta(l)' <=> Falta(l)
                    /\ OtrosReservaron(l)' <=> OtrosReservaron(l)
  OBVIOUS
<1>1. SkuLinea[l] \in Skus  BY ProcesoAssumption
<1>2. return_reservation(SkuLinea[l], ClienteDe[t.f])'
        = return_reservation(SkuLinea[l], ClienteDe[t.f])
  BY <1>1, ReservaIgual
<1> QED BY <1>2 DEF Falta, OtrosReservaron

\* The lines of the task, and the columns used, across a step of it.
LEMMA NextRespeto == TypeOK /\ Registro /\ Respeto /\ [Next]_vars => Respeto'
<1> SUFFICES ASSUME TypeOK, Registro, Respeto, [Next]_vars PROVE Respeto'  OBVIOUS
<1>0. /\ base \in Base /\ t \in Tareas /\ t.prods \subseteq Linea
      /\ t.f \in Archivo /\ t.linea \in Linea
  BY DEF TypeOK, Tareas
<1> DEFINE Quedan == /\ t'.foto = t.foto /\ t'.f = t.f
                     /\ \A s \in Skus, d \in Cliente \ {ClienteDe[t.f]} :
                            base'.used[d][s] = base.used[d][s]
<1>a. ASSUME Quedan
      PROVE  \A l \in Linea : /\ Falta(l)' <=> Falta(l)
                              /\ OtrosReservaron(l)' <=> OtrosReservaron(l)
  BY <1>a, RevisadoIgual
<1>b. ASSUME Quedan, t'.prods \subseteq t.prods,
             t.pc \in EnCurso,
             t'.pc \in {"preparar", "mover", "resumen"} => t'.quiebre = {},
             t'.pc \in {"socios", "recibir"} => Falta(t'.linea),
             t'.linea \in Linea,
             \A l \in t'.prods :
                 \/ t'.pc \in {"revisar", "socios", "recibir"} /\ l \in t'.todo
                 \/ Falta(l) \/ SkuLinea[l] \in t'.quiebre \/ ~OtrosReservaron(l)
      PROVE  Respeto'
  BY <1>0, <1>a, <1>b DEF Respeto
<1> HIDE DEF Quedan
<1>1. CASE t'.pc \in {"libre", "archivo"}
  BY <1>1 DEF Respeto, EnCurso
<1>2. ASSUME NEW g \in Archivo, Abrir(g) PROVE Respeto'
  <2>1. t'.pc = "revisar" /\ t'.prods = t'.todo
    BY <1>0, <1>2 DEF Abrir, Tareas
  <2> QED BY <2>1 DEF Respeto
<1>3. ASSUME NEW l \in Linea, RevisarReservas(l) PROVE Respeto'
  <2>1. /\ t.pc = "revisar" /\ t'.pc = "revisar" /\ t'.foto = t.foto /\ t'.f = t.f
        /\ t'.prods = t.prods /\ t'.todo = t.todo \ {l} /\ base' = base
        /\ t'.quiebre = t.quiebre \cup {s \in {SkuLinea[l]} : OtrosReservaron(l)}
        /\ t'.linea = t.linea
    BY <1>0, <1>3 DEF RevisarReservas, Tareas
  <2>2. Quedan  BY <2>1 DEF Quedan
  <2> QED BY <1>0, <1>b, <2>1, <2>2 DEF Respeto, EnCurso, Pasos
<1>4. ASSUME NEW l \in Linea, RevisarFalta(l) PROVE Respeto'
  <2>1. /\ t.pc = "revisar" /\ t'.pc = "socios" /\ t'.foto = t.foto /\ t'.f = t.f
        /\ t'.prods = t.prods /\ t'.todo = t.todo /\ base' = base
        /\ t'.quiebre = t.quiebre /\ t'.linea = l /\ Falta(l)
    BY <1>0, <1>4 DEF RevisarFalta, Tareas
  <2>2. Quedan  BY <2>1 DEF Quedan
  <2> QED BY <1>0, <1>b, <2>1, <2>2 DEF Respeto, EnCurso, Pasos
<1>5. ASSUME PedirASocio \/ ListarRecepcion \/ \E u \in Unidades : Recibir(u)
      PROVE  Respeto'
  <2>1. /\ t.pc \in {"socios", "recibir"} /\ t'.pc \in {"socios", "recibir"}
        /\ t'.foto = t.foto /\ t'.f = t.f
        /\ t'.prods = t.prods /\ t'.todo = t.todo /\ base' = base
        /\ t'.quiebre = t.quiebre /\ t'.linea = t.linea
    <3>1. CASE PedirASocio  BY <1>0, <3>1 DEF PedirASocio, Tareas
    <3>2. CASE ListarRecepcion  BY <1>0, <3>2 DEF ListarRecepcion, Tareas
    <3>3. ASSUME NEW u \in Unidades, Recibir(u)
          PROVE  \E D : t' = [t EXCEPT !.pend = D] /\ t.pc = "recibir" /\ base' = base
      BY <3>3 DEF Recibir
    <3> QED BY <1>0, <1>5, <3>1, <3>2, <3>3 DEF Tareas
  <2>2. Quedan  BY <2>1 DEF Quedan
  <2> QED BY <1>0, <1>b, <2>1, <2>2 DEF Respeto, EnCurso, Pasos
<1>6. CASE CerrarFalta
  <2> DEFINE Q == {s \in {SkuLinea[t.linea]} : cantRecibida < cantPedir(t.linea)}
  <2>1. /\ t.pc = "recibir" /\ t'.pc = "revisar" /\ t'.foto = t.foto /\ t'.f = t.f
        /\ t'.prods = t.prods /\ t'.todo = t.todo \ {t.linea} /\ base' = base
        /\ t'.quiebre = t.quiebre \cup Q /\ t'.linea = t.linea
    BY <1>0, <1>6 DEF CerrarFalta, Tareas
  <2> HIDE DEF Q
  <2>2. Quedan  BY <2>1 DEF Quedan
  <2> QED BY <1>0, <1>b, <2>1, <2>2 DEF Respeto, EnCurso, Pasos
<1>7. ASSUME GetStockListo \/ Marcar \/ Documentar \/ EmpezarPreparar \/ PrepareStockListo
      PROVE  Respeto'
  <2>0. base'.used = base.used
    <3>1. CASE Marcar  BY <1>0, <3>1 DEF Marcar, Base
    <3> QED
      BY <1>7, <3>1
      DEF GetStockListo, Documentar, EmpezarPreparar, PrepareStockListo
  <2>1. /\ t'.foto = t.foto /\ t'.f = t.f /\ t'.prods = t.prods
        /\ t'.quiebre = t.quiebre /\ t'.linea = t.linea /\ base'.used = base.used
    BY <1>0, <1>7, <2>0
    DEF GetStockListo, Marcar, Documentar, EmpezarPreparar, PrepareStockListo, Tareas
  <2>2. \/ t.pc = "revisar" /\ t.todo = {} /\ t'.pc = "crm"
        \/ t.pc \in {"crm", "documentar"} /\ t'.pc = "quebrar"
        \/ t.pc = "quebrar" /\ t.quiebre = {} /\ t'.pc = "preparar"
        \/ t.pc = "preparar" /\ t'.pc = "resumen"
    BY <1>0, <1>7
    DEF GetStockListo, Marcar, Documentar, EmpezarPreparar, PrepareStockListo, Tareas
  <2>3. Quedan  BY <2>1 DEF Quedan
  <2> QED BY <1>0, <1>b, <2>1, <2>2, <2>3 DEF Respeto, EnCurso, Pasos
<1>8. ASSUME NEW s \in Skus, Quebrar(s) PROVE Respeto'
  <2>1. /\ t.pc = "quebrar" /\ t'.pc = "documentar" /\ t'.foto = t.foto /\ t'.f = t.f
        /\ t'.prods = {l \in t.prods : SkuLinea[l] # s} /\ t'.linea = t.linea
        /\ t'.quiebre = t.quiebre \ {s} /\ base'.used = base.used
    BY <1>0, <1>8 DEF Quebrar, Tareas, Base
  <2>2. Quedan  BY <2>1 DEF Quedan
  <2> QED BY <1>0, <1>b, <2>1, <2>2 DEF Respeto, EnCurso, Pasos
<1>9. ASSUME NEW l \in Linea, ListarPrincipal(l) PROVE Respeto'
  <2>1. /\ t.pc = "preparar" /\ t'.pc = "mover" /\ t'.foto = t.foto /\ t'.f = t.f
        /\ t'.prods = t.prods /\ base' = base /\ t'.quiebre = t.quiebre /\ t'.linea = l
    BY <1>0, <1>9 DEF ListarPrincipal, Tareas
  <2>2. Quedan  BY <2>1 DEF Quedan
  <2> QED BY <1>0, <1>b, <2>1, <2>2 DEF Respeto, EnCurso, Pasos
<1>10. ASSUME Rechazar \/ \E u \in Unidades : Mover(u) PROVE Respeto'
  <2>1. /\ t.pc = "mover" /\ t'.pc = "mover" /\ t'.foto = t.foto /\ t'.f = t.f
        /\ t'.prods = t.prods /\ base' = base /\ t'.quiebre = t.quiebre
        /\ t'.linea = t.linea
    BY <1>0, <1>10 DEF Rechazar, Mover, Tareas
  <2>2. Quedan  BY <2>1 DEF Quedan
  <2> QED BY <1>0, <1>b, <2>1, <2>2 DEF Respeto, EnCurso, Pasos
<1>11. CASE Reservar
  <2>1. /\ t.pc = "mover" /\ t'.pc = "preparar" /\ t'.foto = t.foto /\ t'.f = t.f
        /\ t'.prods = t.prods /\ t'.quiebre = t.quiebre /\ t'.linea = t.linea
    BY <1>0, <1>11 DEF Reservar, Tareas
  <2>2. PICK n : base' = [base EXCEPT !.used[ClienteDe[t.f]][SkuLinea[t.linea]] = n]
    BY <1>11 DEF Reservar
  <2>3. \A s \in Skus, d \in Cliente \ {ClienteDe[t.f]} :
            base'.used[d][s] = base.used[d][s]
    BY <1>0, <2>2 DEF Base
  <2>4. Quedan  BY <2>1, <2>3 DEF Quedan
  <2> QED BY <1>0, <1>b, <2>1, <2>4 DEF Respeto, EnCurso, Pasos
<1>12. ASSUME t' = t, base'.used = base.used PROVE Respeto'
  <2>1. Quedan  BY <1>12 DEF Quedan
  <2> QED BY <1>0, <1>b, <1>12, <2>1, <1>1 DEF Respeto, EnCurso, Pasos, TypeOK, Tareas
<1>13. CASE Iniciar \/ Terminar \/ Fallar \/ Resumir
  <2>1. t'.pc \in {"libre", "archivo"}
    <3>1. CASE Resumir /\ ~t.err
      <4>1. t' = [Ocioso EXCEPT !.pc = "archivo", !.cola = t.cola \ {t.f}]
        BY <3>1 DEF Resumir
      <4> QED BY <4>1 DEF Ocioso
    <3>2. CASE t' = Ocioso  BY <3>2 DEF Ocioso
    <3>3. CASE Iniciar  BY <3>3 DEF Iniciar, Ocioso
    <3> QED BY <1>13, <3>1, <3>2, <3>3 DEF Terminar, Fallar, Resumir
  <2> QED BY <1>1, <2>1
<1>14. ASSUME (\E g \in Archivo : CrearArchivo(g)) \/ (\E l \in Linea : CrearLinea(l))
              \/ (\E u \in Unidades : Ajeno(u)) \/ UNCHANGED vars
       PROVE  Respeto'
  <2>1. t' = t /\ base'.used = base.used
    BY <1>0, <1>14 DEF CrearArchivo, CrearLinea, Ajeno, vars, Base
  <2> QED BY <1>12, <2>1
<1> QED
  BY <1>2, <1>3, <1>4, <1>5, <1>6, <1>7, <1>8, <1>9, <1>10, <1>11, <1>13, <1>14
  DEF Next, Tarea

\* The steps of getStock and of the outcome, before anything is prepared.
Antes == EnCurso \ {"preparar", "mover", "resumen"}

\* The main depot still holds what was listed of a product, but for the units
\* that requests moved since.
Sigue(s) == t.foto[s] <= Total("principal", s) + (ajenos - t.desde)

\* The line at hand can be served, and only it asks for its product.
Servida ==
    ~Falta(t.linea) /\ ~Repetida(t.linea) /\ CantLinea[t.linea] > 0

\* The stock that the listing stands for, from the listing of getStock until the
\* line is prepared; what is listed for the line is at most its quantity.
Existencias ==
    /\ t.desde <= ajenos
    /\ t.pc \in EnCurso =>
           \A l \in t.prods : \/ t.pc \in {"revisar", "socios", "recibir"} /\ l \in t.todo
                              \/ t.bp[l] = t.foto[SkuLinea[l]]
    /\ t.pc \in {"socios", "recibir"} => t.bp[t.linea] = t.foto[SkuLinea[t.linea]]
    /\ t.pc \in Antes => \A s \in Skus : Sigue(s)
    /\ t.pc \in {"preparar", "mover"} =>
           \A l \in t.todo : \/ t.pc = "mover" /\ l = t.linea
                             \/ Repetida(l) \/ Sigue(SkuLinea[l])
    /\ t.pc = "mover" => \A u \in t.pend : SkuDe[u] = SkuLinea[t.linea]
    /\ t.pc = "mover" /\ Servida =>
           t.foto[SkuLinea[t.linea]] - CantLinea[t.linea]
               <= Cardinality(Stock("principal", SkuLinea[t.linea]) \ t.pend)
                      + (ajenos - t.desde)

LEMMA StockFinito ==
    ASSUME NEW d, NEW s, NEW P
    PROVE  IsFiniteSet(Stock(d, s) \ P) /\ Cardinality(Stock(d, s) \ P) \in Nat
BY BodegaAssumption, FS_Subset, FS_CardinalityType DEF Stock

\* A larger stock counts as much or more.
LEMMA StockSube ==
    ASSUME NEW S, NEW T, IsFiniteSet(S), T \subseteq S
    PROVE  Cardinality(T) <= Cardinality(S)
BY FS_Subset

\* A request takes at most one unit out of the main depot at a time.
LEMMA AjenoQuita ==
    ASSUME TypeOK, NEW u \in Unidades, Ajeno(u), NEW s, NEW P
    PROVE  Cardinality(Stock("principal", s) \ P)
               <= Cardinality(Stock("principal", s)' \ P) + 1
<1> DEFINE S == Stock("principal", s) \ P
           T == Stock("principal", s)' \ P
<1>1. S \ {u} \subseteq T
  <2>1. \A v \in Unidades : v # u => loc'[v] = loc[v]
    BY DEF Ajeno, PedidoMueve, MoveStock, MoveStockBodega, TypeOK, LocOK
  <2> QED BY <2>1 DEF Stock
<1>2. IsFiniteSet(S) /\ Cardinality(S) \in Nat  BY StockFinito
<1>3. IsFiniteSet(T) /\ Cardinality(T) \in Nat
  <2>1. T \subseteq Unidades  BY DEF Stock
  <2> HIDE DEF T
  <2> QED BY <2>1, BodegaAssumption, FS_Subset, FS_CardinalityType
<1>4. IsFiniteSet(S \ {u}) /\ Cardinality(S \ {u}) \in Nat
      /\ Cardinality(S) <= Cardinality(S \ {u}) + 1
  <2> HIDE DEF S
  <2>1. IsFiniteSet(S \ {u}) /\ Cardinality(S \ {u})
            = IF u \in S THEN Cardinality(S) - 1 ELSE Cardinality(S)
    BY <1>2, FS_RemoveElement
  <2> QED BY <1>2, <2>1, FS_CardinalityType
<1>5. Cardinality(S \ {u}) <= Cardinality(T)  BY <1>1, <1>3, StockSube
<1> HIDE DEF S, T
<1>6. Cardinality(S) <= Cardinality(T) + 1  BY <1>2, <1>3, <1>4, <1>5
<1> QED BY <1>6 DEF S, T

\* A step that takes nothing out of the main depot.
LEMMA SigueSube ==
    ASSUME TypeOK, t'.foto = t.foto, t'.desde = t.desde, ajenos' = ajenos,
           \A v \in Unidades : loc[v] = "principal" => loc'[v] = "principal"
    PROVE  \A s \in Skus : Sigue(s) => Sigue(s)'
<1> SUFFICES ASSUME NEW s \in Skus, Sigue(s) PROVE Sigue(s)'  OBVIOUS
<1> DEFINE S == Stock("principal", s)
           T == Stock("principal", s)'
<1>1. S \subseteq T  BY DEF Stock
<1>2. IsFiniteSet(T)
  <2>1. T \subseteq Unidades  BY DEF Stock
  <2> HIDE DEF T
  <2> QED BY <2>1, BodegaAssumption, FS_Subset
<1>3. Cardinality(S) \in Nat /\ Cardinality(T) \in Nat
  <2>1. Cardinality(S) \in Nat  BY TotalNat DEF Total
  <2> HIDE DEF T
  <2> QED BY <1>2, <2>1, FS_CardinalityType
<1>4. Cardinality(S) <= Cardinality(T)  BY <1>1, <1>2, StockSube
<1>5. t.foto[s] \in Nat /\ t.desde \in Int /\ ajenos \in Int
  BY ProcesoAssumption DEF TypeOK, Tareas
<1>6. t.foto[s] <= Cardinality(S) + (ajenos - t.desde)  BY DEF Sigue, Total
<1>7. t.foto[s] <= Cardinality(T) + (ajenos - t.desde)
  <2> HIDE DEF S, T
  <2> QED BY <1>3, <1>4, <1>5, <1>6
<1> QED BY <1>7 DEF Sigue, Total

\* The listing, the order at hand, the main depot and what the requests took
\* from it, across a step.
LEMMA NextExistencias ==
    TypeOK /\ Registro /\ Existencias /\ [Next]_vars => Existencias'
<1> SUFFICES ASSUME TypeOK, Registro, Existencias, [Next]_vars PROVE Existencias'
  OBVIOUS
<1>0. /\ t \in Tareas /\ t.prods \subseteq Linea /\ t.todo \subseteq Linea
      /\ t.linea \in Linea /\ t.pend \subseteq Unidades
      /\ t.bp \in [Linea -> Nat] /\ t.foto \in [Skus -> Nat]
      /\ t.desde \in Nat /\ ajenos \in Nat
      /\ \A l \in Linea : SkuLinea[l] \in Skus
  BY ProcesoAssumption DEF TypeOK, Tareas
<1>1. ASSUME t'.pc \in {"libre", "archivo"}, t'.desde = 0, ajenos' = ajenos
      PROVE  Existencias'
  BY <1>0, <1>1 DEF Existencias, EnCurso, Antes
<1>2. CASE Iniciar \/ Terminar \/ Fallar \/ Resumir
  <2>1. t'.pc \in {"libre", "archivo"} /\ t'.desde = 0
    <3>1. CASE Resumir /\ ~t.err
      <4>1. t' = [Ocioso EXCEPT !.pc = "archivo", !.cola = t.cola \ {t.f}]
        BY <3>1 DEF Resumir
      <4> QED BY <4>1 DEF Ocioso
    <3>2. CASE t' = Ocioso  BY <3>2 DEF Ocioso
    <3>3. CASE Iniciar  BY <3>3 DEF Iniciar, Ocioso
    <3> QED BY <1>2, <3>1, <3>2, <3>3 DEF Terminar, Fallar, Resumir
  <2>2. ajenos' = ajenos  BY <1>2 DEF Iniciar, Terminar, Fallar, Resumir
  <2> QED BY <1>1, <2>1, <2>2
<1>3. ASSUME NEW g \in Archivo, Abrir(g) PROVE Existencias'
  <2>1. /\ t'.pc = "revisar" /\ t'.prods = t'.todo /\ t'.desde = ajenos
        /\ t'.foto = [s \in Skus |-> Total("principal", s)]
        /\ ajenos' = ajenos /\ loc' = loc
    BY <1>0, <1>3 DEF Abrir, Tareas
  <2>2. ASSUME NEW s \in Skus PROVE Sigue(s)'
    <3>1. Total("principal", s)' = Total("principal", s)  BY <2>1 DEF Total, Stock
    <3>2. Total("principal", s) \in Nat  BY TotalNat
    <3> QED BY <1>0, <2>1, <3>1, <3>2 DEF Sigue
  <2> QED BY <1>0, <2>1, <2>2 DEF Existencias, Antes
<1>4. ASSUME NEW l \in Linea, RevisarReservas(l) \/ RevisarFalta(l) PROVE Existencias'
  <2>1. /\ t.pc = "revisar" /\ t'.foto = t.foto /\ t'.desde = t.desde
        /\ t'.prods = t.prods /\ ajenos' = ajenos /\ loc' = loc
        /\ t'.bp = [t.bp EXCEPT ![l] = t.foto[SkuLinea[l]]]
        /\ \/ t'.pc = "revisar" /\ t'.todo = t.todo \ {l}
           \/ t'.pc = "socios" /\ t'.todo = t.todo /\ t'.linea = l
    BY <1>0, <1>4 DEF RevisarReservas, RevisarFalta, Tareas
  <2>2. \A s \in Skus : Sigue(s)'
    BY <1>0, <2>1, SigueSube DEF Existencias, Antes, EnCurso, Pasos
  <2>3. t'.bp[l] = t'.foto[SkuLinea[l]]
        /\ \A k \in Linea \ {l} : t'.bp[k] = t.bp[k]
    BY <1>0, <2>1
  <2>4. \A k \in t'.prods :
            \/ t'.pc \in {"revisar", "socios", "recibir"} /\ k \in t'.todo
            \/ t'.bp[k] = t'.foto[SkuLinea[k]]
    BY <1>0, <2>1, <2>3 DEF Existencias, EnCurso, Pasos
  <2> QED BY <1>0, <2>1, <2>2, <2>3, <2>4 DEF Existencias, Antes
<1>5. ASSUME PedirASocio \/ ListarRecepcion \/ (\E u \in Unidades : Recibir(u))
             \/ CerrarFalta
      PROVE  Existencias'
  <2>1. /\ t.pc \in {"socios", "recibir"} /\ t'.foto = t.foto /\ t'.desde = t.desde
        /\ t'.prods = t.prods /\ t'.bp = t.bp /\ t'.linea = t.linea
        /\ \/ t'.pc \in {"socios", "recibir"} /\ t'.todo = t.todo
           \/ t'.pc = "revisar" /\ t'.todo = t.todo \ {t.linea}
    <3>1. CASE PedirASocio  BY <1>0, <3>1 DEF PedirASocio, Tareas
    <3>2. CASE ListarRecepcion  BY <1>0, <3>2 DEF ListarRecepcion, Tareas
    <3>3. ASSUME NEW u \in Unidades, Recibir(u)
          PROVE  \E D : t' = [t EXCEPT !.pend = D] /\ t.pc = "recibir"
      BY <3>3 DEF Recibir
    <3>4. CASE CerrarFalta  BY <1>0, <3>4 DEF CerrarFalta, Tareas
    <3> QED BY <1>0, <1>5, <3>1, <3>2, <3>3, <3>4 DEF Tareas
  <2>2. ajenos' = ajenos
    BY <1>5 DEF PedirASocio, ListarRecepcion, Recibir, CerrarFalta
  <2>3. \A v \in Unidades : loc[v] = "principal" => loc'[v] = "principal"
    BY <1>5 DEF PedirASocio, ListarRecepcion, Recibir, CerrarFalta, MoveStock, Stock,
                TypeOK, LocOK
  <2>4. \A s \in Skus : Sigue(s)'
    BY <2>1, <2>2, <2>3, SigueSube DEF Existencias, Antes, EnCurso, Pasos
  <2> QED BY <1>0, <2>1, <2>2, <2>4 DEF Existencias, Antes, EnCurso, Pasos
<1>6. ASSUME GetStockListo \/ Marcar \/ Documentar \/ (\E s \in Skus : Quebrar(s))
      PROVE  Existencias'
  <2>1. /\ t'.foto = t.foto /\ t'.desde = t.desde /\ t'.bp = t.bp
        /\ t'.prods \subseteq t.prods /\ t'.pc \in {"crm", "quebrar", "documentar"}
        /\ t.pc \in Antes /\ t.pc \notin {"socios", "recibir"}
        /\ t.pc = "revisar" => t.todo = {}
    <3>1. CASE GetStockListo
      BY <1>0, <3>1 DEF GetStockListo, Tareas, Antes, EnCurso, Pasos
    <3>2. CASE Marcar \/ Documentar
      BY <1>0, <3>2 DEF Marcar, Documentar, Tareas, Antes, EnCurso, Pasos
    <3>3. ASSUME NEW s \in Skus, Quebrar(s)
          PROVE  /\ t'.foto = t.foto /\ t'.desde = t.desde /\ t'.bp = t.bp
                 /\ t'.prods = {l \in t.prods : SkuLinea[l] # s}
                 /\ t.pc = "quebrar" /\ t'.pc = "documentar"
      BY <1>0, <3>3 DEF Quebrar, Tareas
    <3> QED BY <1>6, <3>1, <3>2, <3>3 DEF Antes, EnCurso, Pasos
  <2>2. loc' = loc /\ ajenos' = ajenos
    BY <1>6 DEF GetStockListo, Marcar, Documentar, Quebrar
  <2>3. \A s \in Skus : Sigue(s)'
    BY <2>1, <2>2, SigueSube DEF Existencias
  <2> QED BY <1>0, <2>1, <2>2, <2>3 DEF Existencias, Antes, EnCurso
<1>7. CASE EmpezarPreparar
  <2>1. /\ t'.foto = t.foto /\ t'.desde = t.desde /\ t'.bp = t.bp
        /\ t'.prods = t.prods /\ t'.todo = t.prods
        /\ t.pc = "quebrar" /\ t'.pc = "preparar" /\ loc' = loc /\ ajenos' = ajenos
    BY <1>0, <1>7 DEF EmpezarPreparar, Tareas
  <2>2. \A s \in Skus : Sigue(s)'
    BY <2>1, SigueSube DEF Existencias, Antes, EnCurso, Pasos
  <2> QED BY <1>0, <2>1, <2>2 DEF Existencias, Antes, EnCurso, Pasos
<1>8. ASSUME NEW l \in Linea, ListarPrincipal(l) PROVE Existencias'
  <2>1. PICK L \in Listado("principal", SkuLinea[l], cantProdPrincipal(l)) :
            t' = [t EXCEPT !.pc = "mover", !.linea = l, !.pend = L]
    BY <1>8 DEF ListarPrincipal
  <2>2. /\ t'.foto = t.foto /\ t'.desde = t.desde /\ t'.bp = t.bp /\ t'.pend = L
        /\ t'.prods = t.prods /\ t'.todo = t.todo /\ t'.linea = l
        /\ t.pc = "preparar" /\ l \in t.todo /\ t'.pc = "mover"
        /\ loc' = loc /\ ajenos' = ajenos
    BY <1>0, <1>8, <2>1 DEF ListarPrincipal, Tareas
  <2>3. \A s \in Skus : Sigue(s) => Sigue(s)'
    BY <2>2, SigueSube
  <2>4. L \subseteq Stock("principal", SkuLinea[l])  BY DEF Listado
  <2>5. \A u \in t'.pend : SkuDe[u] = SkuLinea[t'.linea]
    BY <2>2, <2>4 DEF Stock
  <2>6. \A k \in Linea : Repetida(k)' <=> Repetida(k)  BY <2>2 DEF Repetida
  <2>7. \A k \in t'.todo : k = l \/ Repetida(k)' \/ Sigue(SkuLinea[k])'
    BY <1>0, <2>2, <2>3, <2>6 DEF Existencias
  <2>8. ASSUME Servida'
        PROVE  t.foto[SkuLinea[l]] - CantLinea[l]
                   <= Cardinality(Stock("principal", SkuLinea[l]) \ L) + (ajenos - t.desde)
    <3> DEFINE S == Stock("principal", SkuLinea[l])
    <3>1. /\ ~Repetida(l) /\ CantLinea[l] > 0
          /\ t.foto[SkuLinea[l]] # 0
      BY <2>2, <2>6, <2>8 DEF Servida, Falta
    <3>2. l \in t.prods  BY <2>2 DEF Registro, EnMano
    <3>3. t.bp[l] # 0  BY <2>2, <3>1, <3>2 DEF Existencias, EnCurso, Pasos
    <3>4. CantLinea[l] \in Nat /\ t.foto[SkuLinea[l]] \in Nat
      BY <1>0, ProcesoAssumption
    <3>5. Cardinality(L) <= CantLinea[l]  BY <3>1, <3>3, <3>4, TopeListado
    <3>6. t.foto[SkuLinea[l]] <= Cardinality(S) + (ajenos - t.desde)
      BY <2>2, <3>1 DEF Existencias, Sigue, Total
    <3>7. IsFiniteSet(S) /\ Cardinality(S) \in Nat
      BY BodegaAssumption, FS_Subset, FS_CardinalityType DEF Stock
    <3>8. Cardinality(S \ L) = Cardinality(S) - Cardinality(L)
          /\ Cardinality(L) \in Nat /\ Cardinality(S \ L) \in Nat
      <4> HIDE DEF S
      <4>1. IsFiniteSet(L) /\ IsFiniteSet(S \ L)  BY <2>4, <3>7, FS_Subset DEF S
      <4>2. S \cap L = L  BY <2>4 DEF S
      <4>3. Cardinality(S \ L) = Cardinality(S) - Cardinality(S \cap L)
        BY <3>7, FS_Difference
      <4> QED BY <4>1, <4>2, <4>3, FS_CardinalityType
    <3> HIDE DEF S
    <3>9. t.foto[SkuLinea[l]] - CantLinea[l] <= Cardinality(S \ L) + (ajenos - t.desde)
      BY <1>0, <3>4, <3>5, <3>6, <3>7, <3>8
    <3> QED BY <3>9 DEF S
  <2>9. Stock("principal", SkuLinea[l])' = Stock("principal", SkuLinea[l])
    BY <2>2 DEF Stock
  <2>10. Servida' =>
            t'.foto[SkuLinea[t'.linea]] - CantLinea[t'.linea]
                <= Cardinality(Stock("principal", SkuLinea[t.linea])' \ t'.pend)
                       + (ajenos' - t'.desde)
    BY <2>2, <2>8, <2>9
  <2> QED BY <1>0, <2>2, <2>5, <2>7, <2>10 DEF Existencias, Antes, EnCurso, Pasos
<1>9. ASSUME Rechazar \/ \E u \in Unidades : Mover(u) PROVE Existencias'
  <2> DEFINE s == SkuLinea[t.linea]
  <2>1. /\ t'.foto = t.foto /\ t'.desde = t.desde /\ t'.bp = t.bp
        /\ t'.prods = t.prods /\ t'.todo = t.todo /\ t'.linea = t.linea
        /\ t.pc = "mover" /\ t'.pc = "mover" /\ ajenos' = ajenos
        /\ t'.pend \subseteq t.pend
    <3>1. CASE Rechazar  BY <1>0, <3>1 DEF Rechazar, Tareas
    <3>2. ASSUME NEW u \in Unidades, Mover(u)
          PROVE  t' = [t EXCEPT !.pend = t.pend \ {u}] /\ t.pc = "mover"
                 /\ ajenos' = ajenos
      BY <3>2 DEF Mover
    <3> QED BY <1>0, <1>9, <3>1, <3>2 DEF Tareas
  <2>2. \A v \in Unidades : v \notin t.pend \/ v \in t'.pend => loc'[v] = loc[v]
    <3>1. CASE Rechazar  BY <1>0, <3>1 DEF Rechazar, Tareas
    <3>2. ASSUME NEW u \in Unidades, Mover(u)
          PROVE  \A v \in Unidades : v \notin t.pend \/ v \in t'.pend => loc'[v] = loc[v]
      BY <1>0, <3>2 DEF Mover, MoveStock, TypeOK, LocOK, Tareas
    <3> QED BY <1>9, <3>1, <3>2
  <2>3. \A u \in t.pend : SkuDe[u] = s  BY <2>1 DEF Existencias
  <2>4. ASSUME NEW k \in t.todo, k # t.linea PROVE Repetida(k)' \/ Sigue(SkuLinea[k])'
    <3>1. Repetida(k)' <=> Repetida(k)  BY <2>1 DEF Repetida
    <3>2. CASE ~Repetida(k)
      <4>1. SkuLinea[k] # s
        BY <2>1, <2>4, <3>2 DEF Repetida, Registro, EnMano
      <4>2. Stock("principal", SkuLinea[k])' = Stock("principal", SkuLinea[k])
        BY <2>2, <2>3, <4>1 DEF Stock
      <4>3. Sigue(SkuLinea[k])  BY <2>1, <2>4, <3>2 DEF Existencias
      <4> QED BY <2>1, <4>2, <4>3 DEF Sigue, Total
    <3> QED BY <3>1, <3>2
  <2>5. Servida' <=> Servida
    BY <2>1 DEF Servida, Falta, Repetida
  <2>6. ASSUME Servida
        PROVE  t.foto[s] - CantLinea[t.linea]
                   <= Cardinality(Stock("principal", s)' \ t'.pend) + (ajenos - t.desde)
    <3> DEFINE S == Stock("principal", s) \ t.pend
               T == Stock("principal", s)' \ t'.pend
    <3>1. S \subseteq T  BY <2>1, <2>2 DEF Stock
    <3>2. IsFiniteSet(T) /\ Cardinality(T) \in Nat
      <4>1. T \subseteq Unidades  BY DEF Stock
      <4> HIDE DEF T
      <4> QED BY <4>1, BodegaAssumption, FS_Subset, FS_CardinalityType
    <3>3. Cardinality(S) \in Nat  BY StockFinito
    <3>4. t.foto[s] - CantLinea[t.linea] <= Cardinality(S) + (ajenos - t.desde)
      BY <2>1, <2>6 DEF Existencias
    <3>5. t.foto[s] \in Nat /\ CantLinea[t.linea] \in Nat
      BY <1>0, ProcesoAssumption
    <3>6. Cardinality(S) <= Cardinality(T)  BY <3>1, <3>2, StockSube
    <3>7. t.foto[s] - CantLinea[t.linea] <= Cardinality(T) + (ajenos - t.desde)
      <4> HIDE DEF S, T, s
      <4> QED BY <1>0, <3>2, <3>3, <3>4, <3>5, <3>6
    <3> QED BY <3>7
  <2>7. \A u \in t'.pend : SkuDe[u] = SkuLinea[t'.linea]  BY <2>1, <2>3
  <2>8. Servida' =>
            t'.foto[SkuLinea[t'.linea]] - CantLinea[t'.linea]
                <= Cardinality(Stock("principal", SkuLinea[t.linea])' \ t'.pend)
                       + (ajenos' - t'.desde)
    BY <2>1, <2>5, <2>6
  <2> QED BY <1>0, <2>1, <2>4, <2>7, <2>8 DEF Existencias, Antes, EnCurso, Pasos
<1>10. CASE Reservar \/ PrepareStockListo
  <2>1. /\ t'.foto = t.foto /\ t'.desde = t.desde /\ t'.bp = t.bp
        /\ t'.prods = t.prods /\ loc' = loc /\ ajenos' = ajenos
        /\ \/ t.pc = "mover" /\ t'.pc = "preparar" /\ t'.todo = t.todo \ {t.linea}
           \/ t.pc = "preparar" /\ t'.pc = "resumen"
    BY <1>0, <1>10 DEF Reservar, PrepareStockListo, Tareas
  <2>2. \A s \in Skus : Sigue(s) => Sigue(s)'  BY <2>1, SigueSube
  <2>3. \A k \in Linea : Repetida(k)' <=> Repetida(k)  BY <2>1 DEF Repetida
  <2> QED BY <1>0, <2>1, <2>2, <2>3 DEF Existencias, Antes, EnCurso, Pasos
<1>11. ASSUME t' = t, loc' = loc, ajenos' = ajenos PROVE Existencias'
  <2>1. \A s : Stock("principal", s)' = Stock("principal", s)  BY <1>11 DEF Stock
  <2>2. \A s : Sigue(s)' <=> Sigue(s)  BY <1>11, <2>1 DEF Sigue, Total
  <2>3. (Servida' <=> Servida) /\ \A k : Repetida(k)' <=> Repetida(k)
    BY <1>11 DEF Servida, Falta, Repetida
  <2>4. Cardinality(Stock("principal", SkuLinea[t.linea])' \ t'.pend)
            = Cardinality(Stock("principal", SkuLinea[t.linea]) \ t.pend)
    BY <1>11 DEF Stock
  <2> QED BY <1>11, <2>2, <2>3, <2>4 DEF Existencias
<1>12. ASSUME (\E g \in Archivo : CrearArchivo(g)) \/ (\E l \in Linea : CrearLinea(l))
              \/ UNCHANGED vars
       PROVE  Existencias'
  BY <1>11, <1>12 DEF CrearArchivo, CrearLinea, vars
<1>13. ASSUME NEW u \in Unidades, Ajeno(u) PROVE Existencias'
  <2>1. t' = t /\ ajenos' = ajenos + 1  BY <1>13 DEF Ajeno
  <2>2. ASSUME NEW s \in Skus, Sigue(s) PROVE Sigue(s)'
    <3>1. Stock("principal", s) \ {} = Stock("principal", s)
          /\ Stock("principal", s)' \ {} = Stock("principal", s)'
      OBVIOUS
    <3>2. Total("principal", s) <= Total("principal", s)' + 1
      BY <1>13, <3>1, AjenoQuita DEF Total
    <3>3. Total("principal", s) \in Nat /\ Total("principal", s)' \in Nat
      <4>1. Stock("principal", s)' \subseteq Unidades  BY DEF Stock
      <4> QED BY <4>1, TotalNat, BodegaAssumption, FS_Subset, FS_CardinalityType
              DEF Total
    <3> QED BY <1>0, <2>1, <2>2, <3>2, <3>3 DEF Sigue
  <2>3. (Servida' <=> Servida) /\ \A k : Repetida(k)' <=> Repetida(k)
    BY <2>1 DEF Servida, Falta, Repetida
  <2>4. ASSUME NEW s \in Skus, s = SkuLinea[t.linea]
        PROVE  t.pc = "mover" /\ Servida =>
                   t.foto[s] - CantLinea[t.linea]
                       <= Cardinality(Stock("principal", s)' \ t.pend)
                              + (ajenos + 1 - t.desde)
    <3> DEFINE S == Stock("principal", s) \ t.pend
               T == Stock("principal", s)' \ t.pend
    <3>1. Cardinality(S) <= Cardinality(T) + 1  BY <1>13, AjenoQuita
    <3>2. Cardinality(S) \in Nat  BY StockFinito
    <3>3. T \subseteq Unidades  BY DEF Stock
    <3>4. t.foto[s] \in Nat /\ CantLinea[t.linea] \in Nat
      BY <1>0, ProcesoAssumption
    <3>5. t.pc = "mover" /\ Servida =>
              t.foto[s] - CantLinea[t.linea] <= Cardinality(S) + (ajenos - t.desde)
      BY <2>4 DEF Existencias
    <3> HIDE DEF S, T
    <3>6. Cardinality(T) \in Nat
      BY <3>3, BodegaAssumption, FS_Subset, FS_CardinalityType
    <3>7. t.pc = "mover" /\ Servida =>
              t.foto[s] - CantLinea[t.linea] <= Cardinality(T) + (ajenos + 1 - t.desde)
      BY <1>0, <3>1, <3>2, <3>4, <3>5, <3>6
    <3> QED BY <3>7 DEF T
  <2>5. t.desde <= ajenos + 1  BY <1>0 DEF Existencias
  <2>6. t'.pc = "mover" /\ Servida' =>
            t'.foto[SkuLinea[t'.linea]] - CantLinea[t'.linea]
                <= Cardinality(Stock("principal", SkuLinea[t.linea])' \ t'.pend)
                       + (ajenos' - t'.desde)
    <3>1. PICK s \in Skus : s = SkuLinea[t.linea]  BY <1>0
    <3> QED BY <1>0, <2>1, <2>3, <2>4, <3>1
  <2> QED BY <1>0, <2>1, <2>2, <2>3, <2>5, <2>6 DEF Existencias, Antes
<1> QED
  BY <1>2, <1>3, <1>4, <1>5, <1>6, <1>7, <1>8, <1>9, <1>10, <1>12, <1>13
  DEF Next, Tarea

\* A line that the main depot can serve leaves in it what the other clients
\* reserved and did not use, but for what requests took meanwhile, although the
\* depot and the reservations are looked at long before the line is prepared
\* (Stock.getStock, Stock.prepareStock).
THEOREM RespetoSiempre == Spec => []RespetaReservas
<1>1. Init => Respeto /\ Existencias
  BY ProcesoAssumption DEF Init, Ocioso, Respeto, Existencias, Antes, EnCurso, Pasos
<1>2. TypeOK /\ Registro /\ Respeto /\ Existencias => RespetaReservas
  <2> DEFINE s == SkuLinea[t.linea]
  <2> SUFFICES ASSUME TypeOK, Registro, Respeto, Existencias, t.pc = "mover", Servida
               PROVE  Cardinality(Stock("principal", s) \ t.pend) + (ajenos - t.desde)
                          >= return_reservation(s, ClienteDe[t.f])
    BY DEF RespetaReservas, Servida
  <2>1. t.linea \in t.prods /\ t.linea \in Linea
    BY DEF Registro, EnMano, TypeOK, Tareas
  <2>2. ~OtrosReservaron(t.linea)
    BY <2>1 DEF Respeto, EnCurso, Pasos, Servida
  <2>3. s \in Skus /\ CantLinea[t.linea] \in Nat /\ t.foto[s] \in Nat
    BY <2>1, ProcesoAssumption DEF TypeOK, Tareas
  <2>4. return_reservation(s, ClienteDe[t.f]) \in Int  BY <2>3, ReservaEntera
  <2>5. t.foto[s] - return_reservation(s, ClienteDe[t.f]) >= CantLinea[t.linea]
    BY <2>2, <2>3, <2>4 DEF OtrosReservaron
  <2>6. t.foto[s] - CantLinea[t.linea]
            <= Cardinality(Stock("principal", s) \ t.pend) + (ajenos - t.desde)
    BY DEF Existencias
  <2>7. Cardinality(Stock("principal", s) \ t.pend) \in Nat  BY StockFinito
  <2>8. t.desde \in Int /\ ajenos \in Int
    BY ProcesoAssumption DEF TypeOK, Tareas
  <2> HIDE DEF s
  <2> QED BY <2>3, <2>4, <2>5, <2>6, <2>7, <2>8
<1> QED BY <1>1, <1>2, TypeCorrect, RegistroSiempre, NextRespeto, NextExistencias, PTL
        DEF Spec

-----------------------------------------------------------------------------
(* The reservations used are covered by units that were moved *)

\* The lines of a client's orders with a product, and the units moved for the
\* lines of a set.
LineasCon(c, s) == {l \in Linea : ClienteDe[ArchivoDe[l]] = c /\ SkuLinea[l] = s}
Movidas(p, S) == MapThenSumSet(LAMBDA l : Cardinality(p[l]), S)

LEMMA MovidasEs ==
    ASSUME NEW p, NEW S, IsFiniteSet(S)
    PROVE  Movidas(p, S) = Sumar([l \in S |-> Cardinality(p[l])], S)
<1> DEFINE f == [l \in S |-> Cardinality(p[l])]
           E(g) == g = [r \in SUBSET S |->
                          IF r = {} THEN 0
                          ELSE LET x == CHOOSE x \in r : TRUE
                               IN  Cardinality(p[x]) + g[r \ {x}]]
<1>1. PICK g0 : SumaDe(g0, f, S) /\ Sumar(f, S) = g0[S]
  <2> HIDE DEF f
  <2> QED BY SumarEs
<1>2. \A g : SumaDe(g, f, S) <=> E(g)
  <2>1. \A r \in SUBSET S : r # {} => f[Elegir(r)] = Cardinality(p[Elegir(r)])
    BY DEF Elegir
  <2> QED BY <2>1 DEF SumaDe, Elegir
<1> HIDE DEF E
<1>3. E(CHOOSE g : E(g))  BY <1>1, <1>2, Zenon
<1> DEFINE k == CHOOSE g : E(g)
<1>4. Movidas(p, S) = k[S]  BY DEF Movidas, MapThenSumSet, MapThenFoldSet, E
<1>5. SumaDe(k, f, S)  BY <1>2, <1>3
<1> HIDE DEF f, k
<1>6. g0[S] = k[S]  BY <1>1, <1>5, SumaUnica
<1> QED BY <1>1, <1>4, <1>6 DEF f

\* The use of a reservation for a line is booked after its units were moved: the
\* lines whose units may have been booked are those of a marked order, but for
\* the ones that the run still has to prepare.
Contada(l) ==
    /\ base.processed[ArchivoDe[l]]
    /\ ArchivoDe[l] = t.f =>
           /\ t.pc \notin {"quebrar", "documentar"}
           /\ t.pc \in {"preparar", "mover"} => l \notin t.todo

Contadas(c, s) ==
    [l \in LineasCon(c, s) |-> IF Contada(l) THEN Cardinality(prep[l]) ELSE 0]

Respaldo ==
    /\ t.pc = "mover" => t.linea \in t.todo
    /\ \A c \in Cliente, s \in Skus :
           /\ base.used[c][s] <= Reservado[c][s]
           /\ base.used[c][s] <= Sumar(Contadas(c, s), LineasCon(c, s))

LEMMA ContadasTipo ==
    ASSUME TypeOK, NEW c, NEW s
    PROVE  /\ IsFiniteSet(LineasCon(c, s)) /\ LineasCon(c, s) \subseteq Linea
           /\ Contadas(c, s) \in [LineasCon(c, s) -> Nat]
<1>1. LineasCon(c, s) \subseteq Linea  BY DEF LineasCon
<1>2. \A l \in Linea : Cardinality(prep[l]) \in Nat  BY PrepNat DEF TypeOK
<1>3. IsFiniteSet(LineasCon(c, s))  BY <1>1, ProcesoAssumption, FS_Subset
<1>4. \A l \in LineasCon(c, s) :
          (IF Contada(l) THEN Cardinality(prep[l]) ELSE 0) \in Nat
  BY <1>1, <1>2
<1>5. Contadas(c, s) \in [LineasCon(c, s) -> Nat]
  BY <1>4 DEF Contadas
<1> QED BY <1>1, <1>3, <1>5

\* What was counted before a step grows by n at x, and shrinks nowhere.
LEMMA ContadasSube ==
    ASSUME TypeOK, TypeOK', NEW c, NEW s, NEW x, NEW n \in Nat,
           \A l \in LineasCon(c, s) \ {x} :
               Contada(l) => Contada(l)' /\ Cardinality(prep[l]) <= Cardinality(prep'[l]),
           x \in LineasCon(c, s) =>
               \/ n = 0 /\ (Contada(x) => /\ Contada(x)'
                                          /\ Cardinality(prep[x]) <= Cardinality(prep'[x]))
               \/ ~Contada(x) /\ Contada(x)' /\ n <= Cardinality(prep'[x])
    PROVE  /\ Sumar(Contadas(c, s), LineasCon(c, s)) \in Int
           /\ Sumar(Contadas(c, s), LineasCon(c, s))' \in Int
           /\ Sumar(Contadas(c, s), LineasCon(c, s))
                  + (IF x \in LineasCon(c, s) THEN n ELSE 0)
                <= Sumar(Contadas(c, s), LineasCon(c, s))'
<1> DEFINE S == LineasCon(c, s)
           f == Contadas(c, s)
           h == Contadas(c, s)'
<1>1. IsFiniteSet(S) /\ S \subseteq Linea /\ f \in [S -> Nat]  BY ContadasTipo
<1>2. \A l \in Linea : Cardinality(prep[l]) \in Nat /\ Cardinality(prep'[l]) \in Nat
  BY PrepNat, BodegaAssumption, FS_Subset, FS_CardinalityType DEF TypeOK
<1>3. h = [l \in S |-> IF Contada(l)' THEN Cardinality(prep'[l]) ELSE 0]
  BY DEF Contadas, LineasCon
<1>4. h \in [S -> Nat]
  <2>1. \A l \in S : (IF Contada(l)' THEN Cardinality(prep'[l]) ELSE 0) \in Nat
    BY <1>1, <1>2
  <2> QED BY <1>3, <2>1
<1>5. f = [l \in S |-> IF Contada(l) THEN Cardinality(prep[l]) ELSE 0]
  BY DEF Contadas
<1>6. ASSUME NEW y \in S PROVE f[y] + (IF y = x THEN n ELSE 0) <= h[y]
  <2>1. /\ f[y] = (IF Contada(y) THEN Cardinality(prep[y]) ELSE 0)
        /\ h[y] = (IF Contada(y)' THEN Cardinality(prep'[y]) ELSE 0)
    BY <1>3, <1>5
  <2>2. Cardinality(prep[y]) \in Nat /\ Cardinality(prep'[y]) \in Nat  BY <1>1, <1>2
  <2> QED BY <2>1, <2>2
<1>7. Sumar(Contadas(c, s), LineasCon(c, s))' = Sumar(h, S)
  <2>1. LineasCon(c, s)' = LineasCon(c, s)  BY DEF LineasCon
  <2> QED BY <2>1, Zenon
<1> HIDE DEF S, f, h
<1>8. f \in [S -> Int] /\ h \in [S -> Int] /\ n \in Int  BY <1>1, <1>4
<1>9. /\ Sumar(f, S) \in Int /\ Sumar(h, S) \in Int
      /\ Sumar(f, S) + (IF x \in S THEN n ELSE 0) <= Sumar(h, S)
  BY <1>1, <1>6, <1>8, SumaSube
<1> QED BY <1>7, <1>9 DEF S, f

\* A step that uses no reservation keeps what was counted.
LEMMA RespaldoIgual ==
    ASSUME TypeOK, TypeOK', Respaldo, base'.used = base.used,
           \A l \in Linea : Contada(l) => Contada(l)',
           \A l \in Linea : Cardinality(prep[l]) <= Cardinality(prep'[l]),
           t'.pc = "mover" => t'.linea \in t'.todo
    PROVE  Respaldo'
<1> SUFFICES ASSUME NEW c \in Cliente, NEW s \in Skus
             PROVE  /\ base'.used[c][s] <= Reservado[c][s]
                    /\ base'.used[c][s] <= Sumar(Contadas(c, s), LineasCon(c, s))'
  BY Zenon DEF Respaldo
<1>1. LineasCon(c, s) \subseteq Linea  BY DEF LineasCon
<1>2. /\ Sumar(Contadas(c, s), LineasCon(c, s)) \in Int
      /\ Sumar(Contadas(c, s), LineasCon(c, s))' \in Int
      /\ Sumar(Contadas(c, s), LineasCon(c, s))
             + (IF 0 \in LineasCon(c, s) THEN 0 ELSE 0)
           <= Sumar(Contadas(c, s), LineasCon(c, s))'
  BY <1>1, ContadasSube
<1>3. /\ base.used[c][s] <= Reservado[c][s]
      /\ base.used[c][s] <= Sumar(Contadas(c, s), LineasCon(c, s))
  BY DEF Respaldo
<1>4. base.used[c][s] \in Nat  BY DEF TypeOK, Base
<1> QED BY <1>2, <1>3, <1>4

\* No step of the task takes back what was counted.
LEMMA ContadaQueda ==
    ASSUME TypeOK, Registro, [Next]_vars, NEW l \in Linea, Contada(l)
    PROVE  Contada(l)'
<1>0. /\ base \in Base /\ t \in Tareas /\ ArchivoDe[l] \in Archivo
      /\ base.processed[ArchivoDe[l]]
  BY ProcesoAssumption DEF TypeOK, Contada
<1>a. base'.processed[ArchivoDe[l]]
  <2>1. CASE Marcar  BY <1>0, <2>1 DEF Marcar, Base
  <2>2. CASE Reservar  BY <1>0, <2>2 DEF Reservar, Base
  <2>3. ASSUME NEW s \in Skus, Quebrar(s) PROVE base'.processed[ArchivoDe[l]]
    BY <1>0, <2>3 DEF Quebrar, Base
  <2>4. ASSUME NEW g \in Archivo, CrearArchivo(g) PROVE base'.processed[ArchivoDe[l]]
    BY <1>0, <2>4 DEF CrearArchivo, Base
  <2>5. ASSUME NEW k \in Linea, CrearLinea(k) PROVE base'.processed[ArchivoDe[l]]
    BY <1>0, <2>5 DEF CrearLinea, Base
  <2>6. CASE base' = base  BY <1>0, <2>6
  <2> QED BY <2>1, <2>2, <2>3, <2>4, <2>5, <2>6, Marco DEF Next, Ajeno, vars
<1> DEFINE Fuera == /\ t'.pc \notin {"quebrar", "documentar"}
                    /\ t'.pc \in {"preparar", "mover"} => l \notin t'.todo
<1> SUFFICES ASSUME ArchivoDe[l] = t'.f PROVE Fuera
  BY <1>a DEF Contada
<1>1. CASE t'.pc \notin {"quebrar", "documentar", "preparar", "mover"}  BY <1>1
<1>2. ASSUME t'.f = t.f, t.pc \in {"quebrar", "documentar"} PROVE Fuera
  BY <1>2 DEF Contada
<1>3. ASSUME t'.f = t.f, t.pc \in {"preparar", "mover"}, t'.pc \in {"preparar", "mover"},
             t'.todo \subseteq t.todo
      PROVE  Fuera
  BY <1>3 DEF Contada
<1>4. CASE Iniciar \/ Terminar \/ Fallar \/ Resumir
  <2>1. t'.pc \in {"libre", "archivo"}
    <3>1. CASE Resumir /\ ~t.err
      <4>1. t' = [Ocioso EXCEPT !.pc = "archivo", !.cola = t.cola \ {t.f}]
        BY <3>1 DEF Resumir
      <4> QED BY <4>1 DEF Ocioso
    <3>2. CASE t' = Ocioso  BY <3>2 DEF Ocioso
    <3>3. CASE Iniciar  BY <3>3 DEF Iniciar, Ocioso
    <3> QED BY <1>4, <3>1, <3>2, <3>3 DEF Terminar, Fallar, Resumir
  <2> QED BY <1>1, <2>1
<1>5. ASSUME (\E g \in Archivo : Abrir(g)) \/ ListarRecepcion \/ CerrarFalta \/ GetStockListo
              \/ PrepareStockListo
              \/ \E k \in Linea : RevisarReservas(k) \/ RevisarFalta(k)
      PROVE  Fuera
  <2>1. t'.pc \notin {"quebrar", "documentar", "preparar", "mover"}
    <3>1. ASSUME NEW g \in Archivo, Abrir(g) PROVE t'.pc = "revisar"
      BY <1>0, <3>1 DEF Abrir, Tareas
    <3>2. CASE ListarRecepcion  BY <1>0, <3>2 DEF ListarRecepcion, Tareas
    <3>3. CASE CerrarFalta  BY <1>0, <3>3 DEF CerrarFalta, Tareas
    <3>4. CASE GetStockListo \/ PrepareStockListo
      BY <1>0, <3>4 DEF GetStockListo, PrepareStockListo, Tareas
    <3>5. ASSUME NEW k \in Linea, RevisarReservas(k) PROVE t'.pc = "revisar"
      BY <1>0, <3>5 DEF RevisarReservas, Tareas
    <3>6. ASSUME NEW k \in Linea, RevisarFalta(k) PROVE t'.pc = "socios"
      BY <1>0, <3>6 DEF RevisarFalta, Tareas
    <3> QED BY <1>5, <3>1, <3>2, <3>3, <3>4, <3>5, <3>6
  <2> QED BY <1>1, <2>1
<1>6. ASSUME PedirASocio \/ \E u \in Unidades : Recibir(u) PROVE Fuera
  <2>1. t'.pc = t.pc /\ t.pc \in {"socios", "recibir"}
    <3>1. CASE PedirASocio  BY <1>0, <3>1 DEF PedirASocio, Tareas
    <3>2. ASSUME NEW u \in Unidades, Recibir(u)
          PROVE  \E D : t' = [t EXCEPT !.pend = D] /\ t.pc = "recibir"
      BY <3>2 DEF Recibir
    <3> QED BY <1>0, <1>6, <3>1, <3>2 DEF Tareas
  <2> QED BY <1>1, <2>1
<1>7. CASE Marcar
  <2>1. t.pc = "crm" /\ t'.f = t.f  BY <1>0, <1>7 DEF Marcar, Tareas
  <2>2. ~base.processed[t.f]
    BY <1>0, <2>1 DEF Registro, Turno, EnCurso, Pasos, Marcado
  <2> QED BY <1>0, <2>1, <2>2
<1>8. ASSUME Documentar \/ EmpezarPreparar \/ \E s \in Skus : Quebrar(s) PROVE Fuera
  <2>1. t'.f = t.f /\ t.pc \in {"quebrar", "documentar"}
    BY <1>0, <1>8 DEF Documentar, EmpezarPreparar, Quebrar, Tareas
  <2> QED BY <1>2, <2>1
<1>9. ASSUME (\E k \in Linea : ListarPrincipal(k)) \/ Rechazar \/ Reservar
              \/ \E u \in Unidades : Mover(u)
      PROVE  Fuera
  <2>1. /\ t'.f = t.f /\ t.pc \in {"preparar", "mover"}
        /\ t'.pc \in {"preparar", "mover"} /\ t'.todo \subseteq t.todo
    <3>1. ASSUME NEW k \in Linea, ListarPrincipal(k)
          PROVE  \E L : /\ t' = [t EXCEPT !.pc = "mover", !.linea = k, !.pend = L]
                        /\ t.pc = "preparar"
      BY <3>1 DEF ListarPrincipal
    <3>2. CASE Rechazar  BY <1>0, <3>2 DEF Rechazar, Tareas
    <3>3. CASE Reservar  BY <1>0, <3>3 DEF Reservar, Tareas
    <3>4. ASSUME NEW u \in Unidades, Mover(u)
          PROVE  t' = [t EXCEPT !.pend = t.pend \ {u}] /\ t.pc = "mover"
      BY <3>4 DEF Mover
    <3> QED BY <1>0, <1>9, <3>1, <3>2, <3>3, <3>4 DEF Tareas
  <2> QED BY <1>3, <2>1
<1>10. CASE t' = t  BY <1>10 DEF Contada
<1> QED
  BY <1>4, <1>5, <1>6, <1>7, <1>8, <1>9, <1>10
  DEF Next, Tarea, CrearArchivo, CrearLinea, Ajeno, vars

\* A sum of naturals is not negative.
LEMMA ContadasPositiva ==
    ASSUME TypeOK, NEW c, NEW s
    PROVE  0 <= Sumar(Contadas(c, s), LineasCon(c, s))
<1> DEFINE S == LineasCon(c, s)  f == Contadas(c, s)  z == [l \in S |-> 0]
<1>1. IsFiniteSet(S) /\ f \in [S -> Nat]  BY ContadasTipo
<1>2. z \in [S -> Int] /\ \A l \in S : z[l] = 0  OBVIOUS
<1> HIDE DEF S, f, z
<1>3. Sumar(z, S) \in Int /\ Sumar(f, S) \in Int /\ Sumar(z, S) <= Sumar(f, S)
  <2>1. f \in [S -> Int]  BY <1>1
  <2>2. \A y \in S : z[y] + (IF y = 0 THEN 0 ELSE 0) <= f[y]  BY <1>1, <1>2
  <2>3. /\ Sumar(z, S) \in Int /\ Sumar(f, S) \in Int
        /\ Sumar(z, S) + (IF 0 \in S THEN 0 ELSE 0) <= Sumar(f, S)
    BY <1>1, <1>2, <2>1, <2>2, SumaSube
  <2> QED BY <2>3
<1>4. Sumar(z, S) = 0
  <2>1. PICK g : SumaDe(g, z, S) /\ Sumar(z, S) = g[S]  BY <1>1, SumarEs
  <2>2. SumaDe([r \in SUBSET S |-> 0], z, S)
    <3>1. \A r \in SUBSET S : r # {} => Elegir(r) \in S /\ r \ {Elegir(r)} \in SUBSET S
      BY DEF Elegir
    <3> QED BY <1>2, <3>1 DEF SumaDe
  <2> QED BY <1>1, <2>1, <2>2, SumaUnica
<1> QED BY <1>3, <1>4 DEF S, f

LEMMA NextRespaldo ==
    TypeOK /\ TypeOK' /\ Registro /\ Respaldo /\ [Next]_vars => Respaldo'
<1> SUFFICES ASSUME TypeOK, TypeOK', Registro, Respaldo, [Next]_vars
             PROVE  Respaldo'
  OBVIOUS
<1>0. /\ base \in Base /\ t \in Tareas /\ t' \in Tareas
      /\ prep \in [Linea -> SUBSET Unidades] /\ t.f \in Archivo /\ t.linea \in Linea
  BY DEF TypeOK, Tareas
<1>1. \A l \in Linea : Contada(l) => Contada(l)'  BY ContadaQueda
<1>2. \A l \in Linea : Cardinality(prep[l]) <= Cardinality(prep'[l])
  <2> SUFFICES ASSUME NEW l \in Linea
               PROVE  Cardinality(prep[l]) <= Cardinality(prep'[l])
    OBVIOUS
  <2>1. prep[l] \subseteq prep'[l] /\ prep'[l] \subseteq Unidades
    <3>1. ASSUME NEW u \in Unidades, Mover(u)
          PROVE  prep[l] \subseteq prep'[l]
      BY <1>0, <3>1 DEF Mover
    <3>2. prep' = prep \/ \E u \in Unidades : Mover(u)
      BY Marco DEF Next, CrearArchivo, CrearLinea, Ajeno, vars
    <3> QED BY <3>1, <3>2 DEF TypeOK
  <2> QED BY <2>1, BodegaAssumption, FS_Subset
<1>3. t'.pc = "mover" => t'.linea \in t'.todo \/ Reservar
  <2>1. ASSUME NEW l \in Linea, ListarPrincipal(l) PROVE t'.linea \in t'.todo
    BY <1>0, <2>1 DEF ListarPrincipal, Tareas
  <2>2. ASSUME Rechazar \/ \E u \in Unidades : Mover(u) PROVE t'.linea \in t'.todo
    BY <1>0, <2>2 DEF Rechazar, Mover, Tareas, Respaldo
  <2>3. CASE t' = t  BY <2>3 DEF Respaldo
  <2>4. ASSUME Iniciar \/ Terminar \/ Fallar \/ Resumir PROVE t'.pc # "mover"
    <3>1. CASE Resumir /\ ~t.err
      <4>1. t' = [Ocioso EXCEPT !.pc = "archivo", !.cola = t.cola \ {t.f}]
        BY <3>1 DEF Resumir
      <4> QED BY <4>1 DEF Ocioso
    <3>2. CASE t' = Ocioso  BY <3>2 DEF Ocioso
    <3>3. CASE Iniciar  BY <3>3 DEF Iniciar, Ocioso
    <3> QED BY <2>4, <3>1, <3>2, <3>3 DEF Terminar, Fallar, Resumir
  <2>5. ASSUME (\E g \in Archivo : Abrir(g)) \/ ListarRecepcion \/ CerrarFalta
               \/ GetStockListo \/ PrepareStockListo \/ Marcar \/ Documentar
               \/ EmpezarPreparar
               \/ (\E s \in Skus : Quebrar(s))
               \/ \E k \in Linea : RevisarReservas(k) \/ RevisarFalta(k)
        PROVE  t'.pc # "mover"
    BY <1>0, <2>5
    DEF Abrir, ListarRecepcion, CerrarFalta, GetStockListo, PrepareStockListo,
        Marcar, Documentar, EmpezarPreparar, Quebrar, RevisarReservas, RevisarFalta,
        Tareas
  <2>6. ASSUME PedirASocio \/ \E u \in Unidades : Recibir(u) PROVE t'.pc # "mover"
    <3>1. CASE PedirASocio  BY <1>0, <3>1 DEF PedirASocio, Tareas
    <3>2. ASSUME NEW u \in Unidades, Recibir(u)
          PROVE  \E D : t' = [t EXCEPT !.pend = D] /\ t.pc = "recibir"
      BY <3>2 DEF Recibir
    <3> QED BY <1>0, <2>6, <3>1, <3>2 DEF Tareas
  <2> QED
    BY <2>1, <2>2, <2>3, <2>4, <2>5, <2>6
    DEF Next, Tarea, CrearArchivo, CrearLinea, Ajeno, vars
<1>4. CASE ~Reservar
  <2>1. base'.used = base.used
    <3>1. CASE Marcar  BY <1>0, <3>1 DEF Marcar, Base
    <3>2. ASSUME NEW s \in Skus, Quebrar(s) PROVE base'.used = base.used
      BY <1>0, <3>2 DEF Quebrar, Base
    <3>3. ASSUME NEW g \in Archivo, CrearArchivo(g) PROVE base'.used = base.used
      BY <1>0, <3>3 DEF CrearArchivo, Base
    <3>4. ASSUME NEW l \in Linea, CrearLinea(l) PROVE base'.used = base.used
      BY <1>0, <3>4 DEF CrearLinea, Base
    <3> QED BY <1>4, <3>1, <3>2, <3>3, <3>4, Marco DEF Next, Ajeno, vars
  <2> QED BY <1>1, <1>2, <1>3, <1>4, <2>1, RespaldoIgual
<1>5. CASE Reservar
  <2>0. PICK x, c, s, n : /\ x = t.linea /\ c = ClienteDe[t.f] /\ s = SkuLinea[x]
                          /\ n = Cardinality(prep[x])
    OBVIOUS
  <2> DEFINE N == use_reservation(base.used[c][s], Reservado[c][s], n)
  <2>1. /\ c \in Cliente /\ s \in Skus /\ Reservado[c][s] \in Nat
        /\ base.used[c][s] \in Nat /\ n \in Nat
    <3>1. c \in Cliente /\ s \in Skus  BY <1>0, <2>0, ProcesoAssumption
    <3>2. n \in Nat  BY <1>0, <2>0, PrepNat
    <3>3. Reservado[c][s] \in Nat  BY <3>1, ProcesoAssumption
    <3>4. base.used[c][s] \in Nat  BY <1>0, <3>1 DEF Base
    <3> QED BY <3>1, <3>2, <3>3, <3>4
  <2>2. /\ t.pc = "mover" /\ t'.pc = "preparar" /\ t'.todo = t.todo \ {x} /\ t'.f = t.f
        /\ prep' = prep /\ base' = [base EXCEPT !.used[c][s] = N]
    BY <1>0, <1>5, <2>0 DEF Reservar, Tareas
  <2>3. N \in Nat /\ N <= Reservado[c][s] /\ N <= base.used[c][s] + n
    <3>1. base.used[c][s] <= Reservado[c][s]  BY <2>1 DEF Respaldo
    <3> QED BY <2>1, <3>1 DEF use_reservation
  <2>4. /\ base'.used[c][s] = N
        /\ \A d \in Cliente, r \in Skus :
               d # c \/ r # s => base'.used[d][r] = base.used[d][r]
    <3> HIDE DEF N
    <3> QED BY <1>0, <2>1, <2>2 DEF Base
  <2>5. x \in LineasCon(c, s) /\ ~Contada(x) /\ Contada(x)'
    <3>1. x \in t.todo /\ x \in t.prods  BY <2>0, <2>2 DEF Respaldo, Registro, EnMano
    <3>2. ArchivoDe[x] = t.f /\ base.processed[t.f]
      BY <2>0, <2>2, <3>1 DEF Registro, EnMano, Turno, EnCurso, Marcado, Pasos
    <3>3. base'.processed = base.processed  BY <1>0, <2>2 DEF Base
    <3>4. x \in LineasCon(c, s)  BY <1>0, <2>0, <3>2 DEF LineasCon
    <3>5. ~Contada(x)  BY <2>2, <3>1, <3>2 DEF Contada
    <3>6. Contada(x)'
      <4>1. base'.processed[ArchivoDe[x]]  BY <3>2, <3>3
      <4>2. x \notin t'.todo /\ t'.pc = "preparar"  BY <2>2
      <4> QED BY <4>1, <4>2 DEF Contada
    <3> QED BY <3>4, <3>5, <3>6
  <2> HIDE DEF N
  <2>6. /\ base'.used[c][s] <= Reservado[c][s]
        /\ base'.used[c][s] <= Sumar(Contadas(c, s), LineasCon(c, s))'
    <3>1. n <= Cardinality(prep'[x])  BY <2>0, <2>1, <2>2
    <3>2. LineasCon(c, s) \subseteq Linea  BY DEF LineasCon
    <3>3. /\ Sumar(Contadas(c, s), LineasCon(c, s)) \in Int
          /\ Sumar(Contadas(c, s), LineasCon(c, s))' \in Int
          /\ Sumar(Contadas(c, s), LineasCon(c, s))
                 + (IF x \in LineasCon(c, s) THEN n ELSE 0)
               <= Sumar(Contadas(c, s), LineasCon(c, s))'
      <4>1. \A l \in LineasCon(c, s) \ {x} :
                Contada(l) => Contada(l)' /\ Cardinality(prep[l]) <= Cardinality(prep'[l])
        BY <1>1, <1>2, <3>2
      <4>2. x \in LineasCon(c, s) =>
               \/ n = 0 /\ (Contada(x) => /\ Contada(x)'
                                          /\ Cardinality(prep[x]) <= Cardinality(prep'[x]))
               \/ ~Contada(x) /\ Contada(x)' /\ n <= Cardinality(prep'[x])
        BY <2>5, <3>1
      <4>3. n \in Nat  BY <2>1
      <4> QED BY <4>1, <4>2, <4>3, ContadasSube
    <3>4. base.used[c][s] <= Sumar(Contadas(c, s), LineasCon(c, s))
      BY <2>1 DEF Respaldo
    <3> QED BY <2>1, <2>3, <2>4, <2>5, <3>3, <3>4
  <2>7. ASSUME NEW d \in Cliente, NEW r \in Skus, d # c \/ r # s
        PROVE  /\ base'.used[d][r] <= Reservado[d][r]
               /\ base'.used[d][r] <= Sumar(Contadas(d, r), LineasCon(d, r))'
    <3>1. LineasCon(d, r) \subseteq Linea  BY DEF LineasCon
    <3>2. /\ Sumar(Contadas(d, r), LineasCon(d, r)) \in Int
          /\ Sumar(Contadas(d, r), LineasCon(d, r))' \in Int
          /\ Sumar(Contadas(d, r), LineasCon(d, r))
                 + (IF 0 \in LineasCon(d, r) THEN 0 ELSE 0)
               <= Sumar(Contadas(d, r), LineasCon(d, r))'
      BY <1>1, <1>2, <3>1, ContadasSube
    <3>3. /\ base.used[d][r] <= Reservado[d][r]
          /\ base.used[d][r] <= Sumar(Contadas(d, r), LineasCon(d, r))
      BY DEF Respaldo
    <3>4. base.used[d][r] \in Nat  BY <1>0 DEF Base
    <3> QED BY <2>4, <2>7, <3>2, <3>3, <3>4
  <2>8. t'.pc # "mover"  BY <2>2
  <2>9. ASSUME NEW d \in Cliente, NEW r \in Skus
        PROVE  /\ base'.used[d][r] <= Reservado[d][r]
               /\ base'.used[d][r] <= Sumar(Contadas(d, r), LineasCon(d, r))'
    <3>1. CASE d # c \/ r # s  BY <2>7, <3>1
    <3>2. CASE d = c /\ r = s  BY <2>6, <3>2
    <3> QED BY <3>1, <3>2
  <2> QED BY <2>8, <2>9, Zenon DEF Respaldo
<1> QED BY <1>4, <1>5

\* Wherever the task is stopped, the reservations a client used are covered by
\* units that were moved for lines of its orders, and are within the amounts.
THEOREM UsoSiempre == Spec => []UsoRespaldado
<1>1. Init => Respaldo
  <2> SUFFICES ASSUME Init, NEW c \in Cliente, NEW s \in Skus
               PROVE  /\ t.pc # "mover"
                      /\ base.used[c][s] <= Reservado[c][s]
                      /\ base.used[c][s] <= Sumar(Contadas(c, s), LineasCon(c, s))
    BY DEF Respaldo, Init, Ocioso
  <2>1. base.used[c][s] = 0 /\ Reservado[c][s] \in Nat /\ t.pc # "mover"
    BY ProcesoAssumption DEF Init, Ocioso
  <2>2. 0 <= Sumar(Contadas(c, s), LineasCon(c, s))
    BY InitTypeOK, ContadasPositiva
  <2> QED BY <2>1, <2>2
<1>2. TypeOK /\ Respaldo => UsoRespaldado
  <2> SUFFICES ASSUME TypeOK, Respaldo, NEW c \in Cliente, NEW s \in Skus
               PROVE  base.used[c][s] <= MapThenSumSet(LAMBDA l : Cardinality(prep[l]),
                          {l \in Linea : ClienteDe[ArchivoDe[l]] = c /\ SkuLinea[l] = s})
    BY DEF UsoRespaldado, Respaldo
  <2> DEFINE S == LineasCon(c, s)  h == [l \in S |-> Cardinality(prep[l])]
             f == Contadas(c, s)
  <2>1. IsFiniteSet(S) /\ S \subseteq Linea /\ f \in [S -> Nat]  BY ContadasTipo
  <2>2. h \in [S -> Int] /\ f \in [S -> Int]
    <3>1. \A l \in S : Cardinality(prep[l]) \in Int  BY <2>1, PrepNat DEF TypeOK
    <3> QED BY <2>1, <3>1
  <2>3. \A y \in S : f[y] + (IF y = 0 THEN 0 ELSE 0) <= h[y]
    <3>1. \A l \in S : Cardinality(prep[l]) \in Nat  BY <2>1, PrepNat DEF TypeOK
    <3> QED BY <3>1 DEF Contadas
  <2>4. /\ Sumar(f, S) \in Int /\ Sumar(h, S) \in Int
        /\ Sumar(f, S) + (IF 0 \in S THEN 0 ELSE 0) <= Sumar(h, S)
    <3> HIDE DEF f, h, S
    <3>1. f \in [S -> Int] /\ h \in [S -> Int] /\ IsFiniteSet(S)  BY <2>1, <2>2
    <3>2. 0 \in Int  OBVIOUS
    <3> QED BY <2>3, <3>1, <3>2, SumaSube
  <2>5. MapThenSumSet(LAMBDA l : Cardinality(prep[l]),
            {l \in Linea : ClienteDe[ArchivoDe[l]] = c /\ SkuLinea[l] = s})
          = Movidas(prep, S)
    BY DEF Movidas, LineasCon, MapThenSumSet, MapThenFoldSet
  <2>6. Movidas(prep, S) = Sumar(h, S)  BY <2>1, MovidasEs
  <2>7. base.used[c][s] <= Sumar(f, S) /\ base.used[c][s] \in Int
    BY DEF Respaldo, TypeOK, Base
  <2> HIDE DEF f, h, S
  <2> QED BY <2>4, <2>5, <2>6, <2>7
<1> QED BY <1>1, <1>2, TypeCorrect, RegistroSiempre, NextRespaldo, PTL DEF Spec
=============================================================================
