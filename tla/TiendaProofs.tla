---------------------------- MODULE TiendaProofs ----------------------------
(***************************************************************************)
(* What the daily task and the requests do to each other, for any orders   *)
(* and requests.                                                           *)
(*   - Every state is well typed.                                          *)
(*   - A unit has one receiver: only one in the dispatch depot leaves, and *)
(*     one that left is in no depot, so no listing that still names it     *)
(*     moves it again.                                                     *)
(*   - Requests do to units what Proceso and Entrega assume.               *)
(*   - What main prepared in full leaves in full when nothing disturbs it. *)
(* Theorems of ProcesoProofs and EntregaProofs are about those modules on  *)
(* their own; the lemmas of theirs that hold of P and E are proved here    *)
(* for the instances.                                                      *)
(***************************************************************************)
EXTENDS Tienda, FiniteSetTheorems, NaturalsInduction, TLAPS

-----------------------------------------------------------------------------
(* Type correctness *)

\* What Proceso, Entrega and Pedidos assume of the constants, spelled out.
LEMMA Supuestos ==
    /\ Archivo \subseteq Nat /\ Archivo # {} /\ IsFiniteSet(Archivo)
    /\ IsFiniteSet(Linea) /\ Linea # {}
    /\ ArchivoDe \in [Linea -> Archivo] /\ SkuLinea \in [Linea -> Skus]
    /\ CantLinea \in [Linea -> Nat \ {0}]
    /\ ClienteDe \in [Archivo -> Cliente] /\ Reservado \in [Cliente -> [Skus -> Nat]]
    /\ Fecha \in [Archivo -> Nat]
    /\ NumSocios \in Nat /\ MaxFallos \in Nat /\ MaxDia \in Nat
    /\ Cantidades \subseteq Int
<1>1. IsFiniteSet(Archivo) /\ IsFiniteSet(Linea)
  BY TiendaAssumption DEF P!ProcesoAssumption, P!IsFiniteSet, IsFiniteSet
<1> QED
  BY <1>1, TiendaAssumption
  DEF P!ProcesoAssumption, E!EntregaAssumption, R!PedidosAssumption

\* Counting and listing are the same in the three modules.
LEMMA Contar ==
    \A S : /\ P!Cardinality(S) = Cardinality(S) /\ E!Cardinality(S) = Cardinality(S)
           /\ R!Cardinality(S) = Cardinality(S)
BY Zenon DEF P!Cardinality, E!Cardinality, R!Cardinality, Cardinality

LEMMA Lugar ==
    /\ (P!LocOK <=> LocOK) /\ (E!LocOK <=> LocOK) /\ (R!LocOK <=> LocOK)
    /\ P!Depositos = Depositos /\ E!Depositos = Depositos /\ R!Depositos = Depositos
    /\ P!Lugares = Lugares /\ E!Lugares = Lugares /\ R!Lugares = Lugares
BY DEF P!LocOK, E!LocOK, R!LocOK, LocOK, P!Lugares, E!Lugares, R!Lugares, Lugares,
       P!Depositos, E!Depositos, R!Depositos, Depositos

LEMMA MainOciosoTipo ==
    ASSUME NEW s \in Skus
    PROVE  P!Ocioso \in P!Tareas
<1>1. (CHOOSE g \in Archivo : TRUE) \in Archivo  BY Supuestos
<1>2. (CHOOSE l \in Linea : TRUE) \in Linea  BY Supuestos
<1>3. (CHOOSE k \in Skus : TRUE) \in Skus  OBVIOUS
<1>4. 0 \in 0..NumSocios /\ 0 \in 0..0  BY Supuestos
<1>5. [k \in Skus |-> 0] \in [Skus -> Nat] /\ [l \in Linea |-> 0] \in [Linea -> Nat]
  OBVIOUS
<1> QED BY <1>1, <1>2, <1>3, <1>4, <1>5 DEF P!Ocioso, P!Tareas, P!Pasos

\* There is a product, since there is a line.
LEMMA HaySku == \E s \in Skus : TRUE
BY Supuestos

LEMMA MainSinTarea == P!Ocioso \in P!Tareas
BY MainOciosoTipo, HaySku

LEMMA TotalNat == \A d, s : P!Total(d, s) \in Nat
<1> SUFFICES ASSUME NEW d, NEW s PROVE P!Total(d, s) \in Nat  OBVIOUS
<1>1. P!Stock(d, s) \subseteq Unidades  BY DEF P!Stock
<1> QED BY <1>1, BodegaAssumption, FS_Subset, FS_CardinalityType, Contar DEF P!Total

LEMMA PrepNat ==
    ASSUME prep \in [Linea -> SUBSET Unidades], NEW l \in Linea
    PROVE  IsFiniteSet(prep[l]) /\ Cardinality(prep[l]) \in Nat
BY BodegaAssumption, FS_Subset, FS_CardinalityType

\* What a listing names was in the listed depot.
LEMMA MainListado ==
    ASSUME NEW d, NEW s, NEW n, NEW L \in P!Listado(d, s, n)
    PROVE  L \in SUBSET Unidades
BY DEF P!Listado, P!Stock

\* A step of the task leaves its local state well typed.
LEMMA MainTipo ==
    ASSUME tp \in P!Tareas, base \in P!Base, P!Tarea \/ P!Fallar
    PROVE  tp' \in P!Tareas
<1> USE DEF P!Tareas, P!Pasos
<1>0. base.lineas \subseteq Linea /\ base.archivos \subseteq Archivo  BY DEF P!Base
<1>a. \A g : P!LineasDe(g) \in SUBSET Linea  BY <1>0 DEF P!LineasDe
<1>b. \A l \in Linea : CantLinea[l] \in Nat /\ SkuLinea[l] \in Skus
  BY Supuestos
<1>c. \A l \in Linea : tp.foto[SkuLinea[l]] \in Nat /\ P!cantPedir(l) \in Int
  BY <1>b DEF P!cantPedir
<1>1. CASE P!Iniciar
  <2>1. {g \in base.archivos : ~base.processed[g]} \in SUBSET Archivo  BY <1>0
  <2> QED BY <1>1, <2>1, MainSinTarea DEF P!Iniciar
<1>2. ASSUME NEW g \in Archivo, P!Abrir(g) PROVE tp' \in P!Tareas
  <2>1. [s \in Skus |-> P!Total("principal", s)] \in [Skus -> Nat]  BY TotalNat
  <2>2. tp' = [tp EXCEPT !.pc = "revisar", !.f = g,
                       !.prods = P!LineasDe(g), !.todo = P!LineasDe(g),
                       !.foto = [s \in Skus |-> P!Total("principal", s)],
                       !.desde = 0]
    BY <1>2 DEF P!Abrir
  <2>3. 0 \in 0..0  OBVIOUS
  <2> QED BY <1>a, <2>1, <2>2, <2>3
<1>3. CASE P!Terminar \/ P!Fallar
  BY <1>3, MainSinTarea DEF P!Terminar, P!Fallar
<1>4. ASSUME NEW l \in Linea, P!RevisarReservas(l) PROVE tp' \in P!Tareas
  <2>1. [tp.bp EXCEPT ![l] = tp.foto[SkuLinea[l]]] \in [Linea -> Nat]  BY <1>c
  <2>2. tp.quiebre \cup {s \in {SkuLinea[l]} : P!OtrosReservaron(l)} \in SUBSET Skus
    BY <1>b
  <2> QED BY <1>4, <2>1, <2>2 DEF P!RevisarReservas
<1>5. ASSUME NEW l \in Linea, P!RevisarFalta(l) PROVE tp' \in P!Tareas
  <2>1. [tp.bp EXCEPT ![l] = tp.foto[SkuLinea[l]]] \in [Linea -> Nat]  BY <1>c
  <2>2. NumSocios \in 0..NumSocios  BY Supuestos
  <2> QED BY <1>5, <1>c, <2>1, <2>2 DEF P!RevisarFalta
<1>6. CASE P!PedirASocio
  <2>1. PICK D \in SUBSET P!Stock("ajeno", SkuLinea[tp.linea]) :
            \E n \in P!Faltante(D) : tp' = [tp EXCEPT !.falta = n, !.socios = @ - 1]
    BY <1>6 DEF P!PedirASocio
  <2>a. PICK n \in P!Faltante(D) : tp' = [tp EXCEPT !.falta = n, !.socios = @ - 1]
    BY <2>1
  <2>2. IsFiniteSet(D)  BY BodegaAssumption, FS_Subset DEF P!Stock
  <2>3. n \in Int  BY <2>2, FS_CardinalityType DEF P!Faltante
  <2>4. tp.socios - 1 \in 0..NumSocios  BY <1>6, Supuestos DEF P!PedirASocio
  <2> QED BY <2>a, <2>3, <2>4
<1>7. CASE P!ListarRecepcion
  <2>1. PICK L \in P!Listado("recepcion", SkuLinea[tp.linea], P!cantRecibida) :
            tp' = [tp EXCEPT !.pc = "recibir", !.pend = L]
    BY <1>7 DEF P!ListarRecepcion
  <2>2. L \in SUBSET Unidades  BY MainListado
  <2> QED BY <2>1, <2>2
<1>8. ASSUME NEW u \in Unidades, P!Recibir(u) \/ P!Mover(u) PROVE tp' \in P!Tareas
  <2>1. CASE P!Recibir(u)  BY <2>1 DEF P!Recibir
  <2>2. CASE P!Mover(u)  BY <2>2 DEF P!Mover
  <2> QED BY <1>8, <2>1, <2>2
<1>9. CASE P!CerrarFalta
  <2>1. tp.quiebre \cup {s \in {SkuLinea[tp.linea]} : P!cantRecibida < P!cantPedir(tp.linea)}
            \in SUBSET Skus
    BY <1>b
  <2>2. NumSocios \in Nat  BY Supuestos
  <2>3. PICK Q \in SUBSET Skus, T \in SUBSET Linea :
            tp' = [tp EXCEPT !.pc = "revisar", !.todo = T, !.quiebre = Q,
                           !.falta = 0, !.socios = 0]
    <3>1. tp.todo \ {tp.linea} \in SUBSET Linea  OBVIOUS
    <3> QED BY <1>9, <2>1, <3>1, Zenon DEF P!CerrarFalta
  <2>4. ASSUME NEW n \in Int, NEW m \in 0..NumSocios
        PROVE  [tp EXCEPT !.pc = "revisar", !.todo = T, !.quiebre = Q,
                         !.falta = n, !.socios = m] \in P!Tareas
    OBVIOUS
  <2>5. 0 \in Int /\ 0 \in 0..NumSocios  BY <2>2
  <2> QED BY <2>3, <2>4, <2>5, Zenon
<1>10. CASE P!GetStockListo \/ P!Marcar \/ P!Documentar
  <2>1. CASE P!GetStockListo  BY <2>1 DEF P!GetStockListo
  <2>2. CASE P!Marcar  BY <2>2 DEF P!Marcar
  <2>3. CASE P!Documentar  BY <2>3 DEF P!Documentar
  <2> QED BY <1>10, <2>1, <2>2, <2>3
<1>11. ASSUME NEW s \in Skus, P!Quebrar(s) PROVE tp' \in P!Tareas
  <2>1. {l \in tp.prods : SkuLinea[l] # s} \in SUBSET Linea  OBVIOUS
  <2>2. tp' = [tp EXCEPT !.pc = "documentar", !.clave = s, !.quiebre = tp.quiebre \ {s},
                       !.prods = {l \in tp.prods : SkuLinea[l] # s}]
    BY <1>11 DEF P!Quebrar
  <2>3. tp.quiebre \ {s} \in SUBSET Skus  OBVIOUS
  <2> QED BY <2>1, <2>2, <2>3
<1>12. CASE P!EmpezarPreparar
  BY <1>12 DEF P!EmpezarPreparar
<1>13. ASSUME NEW l \in Linea, P!ListarPrincipal(l) PROVE tp' \in P!Tareas
  <2>1. PICK L \in P!Listado("principal", SkuLinea[l], P!cantProdPrincipal(l)) :
            tp' = [tp EXCEPT !.pc = "mover", !.linea = l, !.pend = L]
    BY <1>13 DEF P!ListarPrincipal
  <2>2. L \in SUBSET Unidades  BY MainListado
  <2> QED BY <2>1, <2>2
<1>14. CASE P!Rechazar
  BY <1>14 DEF P!Rechazar
<1>15. CASE P!Reservar \/ P!PrepareStockListo
  <2>1. CASE P!Reservar
    <3>1. tp' = [tp EXCEPT !.pc = "preparar", !.todo = tp.todo \ {tp.linea}]
      BY <2>1 DEF P!Reservar
    <3> QED BY <3>1
  <2>2. CASE P!PrepareStockListo  BY <2>2 DEF P!PrepareStockListo
  <2> QED BY <1>15, <2>1, <2>2
<1>16. CASE P!Resumir
  BY <1>16, MainSinTarea DEF P!Resumir
<1> QED
  BY <1>1, <1>2, <1>3, <1>4, <1>5, <1>6, <1>7, <1>8, <1>9, <1>10, <1>11, <1>12,
     <1>13, <1>14, <1>15, <1>16 DEF P!Tarea

\* What a step of the task leaves alone.
LEMMA MainMarco ==
    ASSUME P!Tarea \/ P!Fallar
    PROVE  /\ \/ base' = base \/ P!Marcar \/ P!Reservar
              \/ \E s \in Skus : P!Quebrar(s)
           /\ dw' = dw \/ P!Documentar \/ P!Resumir
           /\ prep' = prep \/ \E u \in Unidades : P!Mover(u)
           /\ fallos' = fallos \/ P!Fallar
BY DEF P!Tarea, P!Fallar, P!Iniciar, P!Abrir, P!Terminar, P!RevisarReservas, P!RevisarFalta,
       P!ListarPrincipal, P!PedirASocio, P!ListarRecepcion, P!CerrarFalta, P!GetStockListo,
       P!Recibir, P!Mover, P!Marcar, P!Documentar, P!EmpezarPreparar, P!Rechazar, P!Reservar,
       P!Quebrar, P!PrepareStockListo, P!Resumir

\* What a client used of a reservation is a number, whatever is prepared.
LEMMA UsoNat ==
    ASSUME NEW usado \in Nat, NEW reservado \in Nat, NEW n \in Nat
    PROVE  P!use_reservation(usado, reservado, n) \in Nat
BY DEF P!use_reservation

LEMMA MainBase ==
    ASSUME P!TypeOK, P!Tarea \/ P!Fallar
    PROVE  base' \in P!Base
<1>0. base \in P!Base /\ tp \in P!Tareas /\ prep \in [Linea -> SUBSET Unidades]
  BY DEF P!TypeOK
<1>1. CASE P!Marcar
  <2>1. tp.f \in Archivo /\ (tp.quiebre = {}) \in BOOLEAN  BY <1>0 DEF P!Tareas
  <2> QED BY <1>0, <1>1, <2>1 DEF P!Marcar, P!Base
<1>2. ASSUME NEW s \in Skus, P!Quebrar(s) PROVE base' \in P!Base
  <2> DEFINE B == [l \in Linea |-> base.broked[l] \/ (l \in P!LineasDe(tp.f) /\ SkuLinea[l] = s)]
  <2>1. B \in [Linea -> BOOLEAN]  OBVIOUS
  <2>2. base' = [base EXCEPT !.broked = B]  BY <1>2 DEF P!Quebrar
  <2> HIDE DEF B
  <2> QED BY <1>0, <2>1, <2>2 DEF P!Base
<1>3. CASE P!Reservar
  <2> DEFINE c == ClienteDe[tp.f]  s == SkuLinea[tp.linea]
             n == P!use_reservation(base.used[c][s], Reservado[c][s],
                                  Cardinality(prep[tp.linea]))
  <2>1. tp.f \in Archivo /\ tp.linea \in Linea  BY <1>0 DEF P!Tareas
  <2>2. c \in Cliente /\ s \in Skus /\ Reservado[c][s] \in Nat
    BY <2>1, Supuestos
  <2>3. base.used[c][s] \in Nat  BY <1>0, <2>2 DEF P!Base
  <2>4. n \in Nat  BY <1>0, <2>1, <2>2, <2>3, PrepNat, UsoNat
  <2>5. base' = [base EXCEPT !.used[c][s] = n]  BY <1>3, Contar DEF P!Reservar
  <2> HIDE DEF n, c, s
  <2> QED BY <1>0, <2>2, <2>4, <2>5 DEF P!Base
<1> QED BY <1>0, <1>1, <1>2, <1>3, MainMarco

LEMMA MainLoc ==
    ASSUME P!TypeOK, P!Tarea \/ P!Fallar
    PROVE  LocOK'
<1>0. LocOK /\ tp.pend \subseteq Unidades  BY Lugar DEF P!TypeOK, P!Tareas
<1>1. ASSUME NEW u \in Unidades, NEW d \in Depositos, P!MoveStock(u, d) PROVE LocOK'
  BY <1>0, <1>1 DEF P!MoveStock, LocOK, Lugares
<1>2. ASSUME loc' = loc PROVE LocOK'  BY <1>0, <1>2 DEF LocOK
<1>3. CASE P!PedirASocio
  <2>1. PICK D \in SUBSET P!Stock("ajeno", SkuLinea[tp.linea]),
             d \in {"recepcion", "pulmon"} :
                 loc' = [u \in Unidades |-> IF u \in D THEN d ELSE loc[u]]
    BY <1>3 DEF P!PedirASocio
  <2>2. d \in Lugares  BY DEF Lugares, Depositos
  <2> QED BY <1>0, <2>1, <2>2 DEF LocOK
<1>4. ASSUME NEW u \in Unidades, P!Recibir(u) \/ P!Mover(u) PROVE LocOK'
  BY <1>1, <1>2, <1>4 DEF P!Recibir, P!Mover, Depositos
<1>5. CASE P!Fallar
  BY <1>0, <1>1, <1>2, <1>5 DEF P!Fallar, Depositos
<1>6. CASE ~P!PedirASocio /\ ~P!Fallar /\ ~\E u \in Unidades : P!Recibir(u) \/ P!Mover(u)
  <2>1. loc' = loc
    BY <1>6
    DEF P!Tarea, P!Iniciar, P!Abrir, P!Terminar, P!RevisarReservas, P!RevisarFalta,
        P!ListarPrincipal, P!ListarRecepcion, P!CerrarFalta, P!GetStockListo, P!Marcar,
        P!Documentar, P!EmpezarPreparar, P!Rechazar, P!Reservar, P!Quebrar,
        P!PrepareStockListo, P!Resumir
  <2> QED BY <1>2, <2>1
<1> QED BY <1>3, <1>4, <1>5, <1>6

LEMMA DeliveryOcioso == E!Ocioso \in E!Tareas
<1>1. (CHOOSE g \in Archivo : TRUE) \in Archivo  BY Supuestos
<1>2. (CHOOSE l \in Linea : TRUE) \in Linea  BY Supuestos
<1> QED BY <1>1, <1>2 DEF E!Ocioso, E!Tareas, E!Pasos

\* What a listing names was in the listed depot.
LEMMA DeliveryListado ==
    ASSUME NEW d, NEW s, NEW n, NEW L \in E!Listado(d, s, n)
    PROVE  L \subseteq Unidades /\ \A u \in L : SkuDe[u] = s
BY DEF E!Listado, E!Stock

\* A step of the task leaves its local state well typed.
LEMMA DeliveryTipo ==
    ASSUME te \in E!Tareas, E!Tarea \/ E!Fallar
    PROVE  te' \in E!Tareas
<1> USE DEF E!Tareas, E!Pasos
<1>1. CASE E!Iniciar
  <2>1. {g \in Archivo : E!EnFecha(g)} \in SUBSET Archivo  OBVIOUS
  <2> QED BY <1>1, <2>1, DeliveryOcioso DEF E!Iniciar
<1>2. ASSUME NEW g \in Archivo, E!Abrir(g) PROVE te' \in E!Tareas
  <2>1. E!PorEntregar(g) \in SUBSET Linea  BY DEF E!PorEntregar, E!LineasDe
  <2> QED BY <1>2, <2>1 DEF E!Abrir
<1>3. CASE E!Terminar \/ E!Fallar
  BY <1>3, DeliveryOcioso DEF E!Terminar, E!Fallar
<1>4. CASE E!EmpezarDespacho
  <2>1. {s \in Skus : E!Stock("espera", s) # {}} \in SUBSET Skus  OBVIOUS
  <2> QED BY <1>4, <2>1 DEF E!EmpezarDespacho
<1>5. ASSUME NEW l \in Linea, E!ListarEspera(l) PROVE te' \in E!Tareas
  <2>1. PICK L \in E!Listado("espera", SkuLinea[l], E!Limite(l)) :
            te' = [te EXCEPT !.pc = "unidad", !.linea = l, !.pend = L]
    BY <1>5 DEF E!ListarEspera
  <2>2. L \in SUBSET Unidades  BY DeliveryListado
  <2> QED BY <2>1, <2>2
<1>6. ASSUME NEW l \in Linea, E!NoEnEspera(l) PROVE te' \in E!Tareas
  BY <1>6 DEF E!NoEnEspera
<1>7. ASSUME NEW l \in Linea, E!CerrarLinea(l) PROVE te' \in E!Tareas
  <2>1. CASE te' = [te EXCEPT !.pc = "anotar", !.linea = l]  BY <2>1
  <2>2. ASSUME NEW L \in E!Listado("principal", SkuLinea[l], CantLinea[l]),
               te' = [te EXCEPT !.pc = "reponer", !.linea = l, !.pend = L]
        PROVE  te' \in E!Tareas
    <3>1. L \in SUBSET Unidades  BY DeliveryListado
    <3> QED BY <2>2, <3>1
  <2> QED BY <1>7, <2>1, <2>2 DEF E!CerrarLinea
<1>8. ASSUME NEW u \in Unidades, E!Sacar(u) PROVE te' \in E!Tareas
  BY <1>8 DEF E!Sacar
<1>9. ASSUME NEW u \in Unidades, E!Despachar(u) PROVE te' \in E!Tareas
  <2>1. E!Cuenta(TRUE) = 1 /\ E!Cuenta(FALSE) = 0  BY DEF E!Cuenta
  <2>2. te.total + 1 \in Nat /\ te.total + 0 \in Nat  OBVIOUS
  <2>3. \/ te' = [te EXCEPT !.mano = {}, !.total = te.total + 1]
        \/ te' = [te EXCEPT !.mano = {}, !.total = te.total + 0]
    BY <1>9, <2>1 DEF E!Despachar
  <2> QED BY <2>2, <2>3
<1>10. ASSUME NEW u \in Unidades, E!Reponer(u) PROVE te' \in E!Tareas
  BY <1>10 DEF E!Reponer
<1>11. CASE E!LineaDespachada
  <2>1. SkuLinea[te.linea] \in Skus  BY Supuestos
  <2> QED BY <1>11, <2>1 DEF E!LineaDespachada
<1>12. CASE E!DespacharListo \/ E!Anotar \/ E!Reportar \/ E!Repuesta
  <2>1. CASE E!DespacharListo  BY <2>1 DEF E!DespacharListo
  <2>2. CASE E!Anotar  BY <2>2 DEF E!Anotar
  <2>3. CASE E!Reportar  BY <2>3 DEF E!Reportar
  <2>4. CASE E!Repuesta  BY <2>4 DEF E!Repuesta
  <2> QED BY <1>12, <2>1, <2>2, <2>3, <2>4
<1>13. CASE E!ArchivoListo
  BY <1>13, DeliveryOcioso DEF E!ArchivoListo
<1> QED
  BY <1>1, <1>2, <1>3, <1>4, <1>5, <1>6, <1>7, <1>8, <1>9, <1>10, <1>11, <1>12,
     <1>13 DEF E!Tarea

\* A call to the warehouse leaves every unit somewhere.
LEMMA LlamadaLocOK ==
    ASSUME LocOK, NEW u \in Unidades,
           \/ loc' = loc \/ E!MoveStock(u, "espera") \/ E!MoveStock(u, "despacho")
           \/ E!DeleteStock(u) \/ E!PedidoMueve(u)
    PROVE  LocOK'
BY DEF LocOK, E!MoveStock, E!MoveStockBodega, E!DeleteStock, E!PedidoMueve, Lugares,
       E!Depositos, Depositos

\* The unit that a step dispatches is recorded for the line at hand.
LEMMA EntregadasTipo ==
    ASSUME te \in E!Tareas, entregadas \in [Linea -> SUBSET Unidades],
           NEW u \in Unidades,
           \/ entregadas' = entregadas
           \/ entregadas' = [entregadas EXCEPT ![te.linea] = @ \cup {u}]
    PROVE  entregadas' \in [Linea -> SUBSET Unidades]
BY DEF E!Tareas



\* What a step of main does to the data warehouse and to what it prepared.
LEMMA MainTypeOK == ASSUME P!TypeOK, P!Tarea \/ P!Fallar PROVE P!TypeOK'
<1>0. /\ base \in P!Base /\ tp \in P!Tareas /\ prep \in [Linea -> SUBSET Unidades]
      /\ dw \in [pedido: [Archivo -> Nat], quiebre: SUBSET (Archivo \X Skus)]
      /\ fallos \in 0..MaxFallos /\ 0 \in 0..0
      /\ tp.f \in Archivo /\ tp.clave \in Skus /\ tp.linea \in Linea
  BY DEF P!TypeOK, P!Tareas
<1>1. P!LocOK' /\ base' \in P!Base /\ tp' \in P!Tareas
  <2>1. LocOK'  BY MainLoc
  <2>2. P!LocOK'
    BY <2>1 DEF P!LocOK, LocOK, P!Lugares, Lugares, P!Depositos, Depositos
  <2> QED BY <1>0, <2>2, MainBase, MainTipo
<1>2. dw' \in [pedido: [Archivo -> Nat], quiebre: SUBSET (Archivo \X Skus)]
  <2>1. CASE P!Documentar  BY <1>0, <2>1 DEF P!Documentar
  <2>2. CASE P!Resumir  BY <1>0, <2>2 DEF P!Resumir
  <2> QED BY <1>0, <2>1, <2>2, MainMarco
<1>3. prep' \in [Linea -> SUBSET Unidades]
  <2>1. ASSUME NEW u \in Unidades, P!Mover(u) PROVE prep' \in [Linea -> SUBSET Unidades]
    BY <1>0, <2>1 DEF P!Mover
  <2> QED BY <1>0, <2>1, MainMarco
<1>4. fallos' \in 0..MaxFallos
  <2>1. CASE P!Fallar  BY <1>0, <2>1, Supuestos DEF P!Fallar
  <2> QED BY <1>0, <2>1, MainMarco
<1> QED BY <1>0, <1>1, <1>2, <1>3, <1>4 DEF P!TypeOK

\* Delivery takes the database as it is.
LEMMA DeliveryMarco ==
    ASSUME E!Tarea \/ E!Fallar
    PROVE  /\ hoy' = hoy
           /\ corrio' = corrio \/ (E!Iniciar /\ corrio' = TRUE)
           /\ docs' = docs \/ E!Anotar
           /\ reportes' = reportes \/ E!Reportar
           /\ \/ loc' = loc /\ entregadas' = entregadas
              \/ E!Fallar \/ \E u \in Unidades : E!Sacar(u) \/ E!Despachar(u) \/ E!Reponer(u)
BY DEF E!Tarea, E!Fallar, E!Iniciar, E!Abrir, E!Terminar, E!EmpezarDespacho, E!ListarEspera,
       E!NoEnEspera, E!CerrarLinea, E!Sacar, E!Despachar, E!Reponer, E!LineaDespachada,
       E!DespacharListo, E!Anotar, E!Reportar, E!Repuesta, E!ArchivoListo

LEMMA DeliveryTypeOK ==
    ASSUME E!TypeOK, E!Tarea \/ E!Fallar, base' = base PROVE E!TypeOK' /\ LocOK'
<1>0. /\ LocOK /\ reportes \subseteq Linea
      /\ docs \subseteq Linea \X Nat /\ hoy \in 0..MaxDia /\ corrio \in BOOLEAN
      /\ te \in E!Tareas /\ entregadas \in [Linea -> SUBSET Unidades]
      /\ te.linea \in Linea /\ te.total \in Nat
      /\ te.mano \subseteq Unidades /\ te.pend \subseteq Unidades
  BY Lugar DEF E!TypeOK, E!Tareas
<1>1. te' \in E!Tareas  BY <1>0, DeliveryTipo
<1>2. hoy' = hoy /\ corrio' \in BOOLEAN  BY <1>0, DeliveryMarco
<1>3. docs' \subseteq Linea \X Nat
  <2>1. CASE E!Anotar  BY <1>0, <2>1 DEF E!Anotar
  <2> QED BY <1>0, <2>1, DeliveryMarco
<1>4. reportes' \subseteq Linea
  <2>1. CASE E!Reportar  BY <1>0, <2>1 DEF E!Reportar
  <2> QED BY <1>0, <2>1, DeliveryMarco
<1>5. LocOK' /\ entregadas' \in [Linea -> SUBSET Unidades]
  <2>1. ASSUME NEW u \in Unidades, E!Sacar(u) \/ E!Despachar(u) \/ E!Reponer(u)
        PROVE  LocOK' /\ entregadas' \in [Linea -> SUBSET Unidades]
    BY <1>0, <2>1, LlamadaLocOK, EntregadasTipo DEF E!Sacar, E!Despachar, E!Reponer
  <2>2. CASE E!Fallar
    <3>1. CASE loc' = loc /\ UNCHANGED entregadas  BY <1>0, <3>1 DEF LocOK
    <3>2. ASSUME NEW u \in te.mano, E!DeleteStock(u),
                 entregadas' = [entregadas EXCEPT ![te.linea] = @ \cup {u}]
          PROVE  LocOK' /\ entregadas' \in [Linea -> SUBSET Unidades]
      BY <1>0, <3>2, LlamadaLocOK, EntregadasTipo
    <3>3. ASSUME NEW u \in te.pend, E!MoveStock(u, "despacho") \/ E!MoveStock(u, "espera"),
                 UNCHANGED entregadas
          PROVE  LocOK' /\ entregadas' \in [Linea -> SUBSET Unidades]
      BY <1>0, <3>3, LlamadaLocOK
    <3> QED BY <2>2, <3>1, <3>2, <3>3 DEF E!Fallar
  <2>3. CASE loc' = loc /\ entregadas' = entregadas  BY <1>0, <2>3 DEF LocOK
  <2> QED BY <2>1, <2>2, <2>3, DeliveryMarco
<1>6. E!LocOK'
  BY <1>5 DEF E!LocOK, LocOK, E!Lugares, Lugares, E!Depositos, Depositos
<1> QED BY <1>0, <1>1, <1>2, <1>3, <1>4, <1>5, <1>6 DEF E!TypeOK

\* A request changes only its own fields and, by a call, where units are.
LEMMA PeticionTypeOK ==
    ASSUME R!TypeOK, NEW r \in Pedido, R!Pedir(r) \/ R!Atender(r) \/ R!Excepcion(r)
    PROVE  R!TypeOK' /\ LocOK'
<1> USE DEF R!TypeOK
<1>0. LocOK  BY Lugar
<1>1. ASSUME LocOK' PROVE R!LocOK'
  BY <1>1 DEF R!LocOK, LocOK, R!Lugares, Lugares, R!Depositos, Depositos
<1>2. CASE R!Pedir(r)  BY <1>0, <1>1, <1>2 DEF R!Pedir, LocOK
<1>3. CASE R!Consultar(r)
  <2>1. R!SinRespuesta \in [success: BOOLEAN, amountSent: Nat]  BY DEF R!SinRespuesta
  <2>2. resp' \in [Pedido -> [success: BOOLEAN, amountSent: Nat]]
    BY <1>3, <2>1 DEF R!Consultar
  <2>3. pc' = [pc EXCEPT ![r] = "aceptado"] \/ pc' = [pc EXCEPT ![r] = "fin"]
    BY <1>3 DEF R!Consultar
  <2>4. LocOK'  BY <1>0, <1>3 DEF R!Consultar, LocOK
  <2> QED BY <1>1, <1>3, <2>2, <2>3, <2>4 DEF R!Consultar
<1>4. ASSUME NEW e \in R!Etapas, R!Listar(r, e) PROVE R!TypeOK' /\ LocOK'
  <2>1. PICK L \in R!Listado(R!Origen[e], sku[r], R!Limite(r, e)) :
            pend' = [pend EXCEPT ![r] = L]
    BY <1>4, Zenon DEF R!Listar
  <2>2. L \in SUBSET Unidades  BY DEF R!Listado, R!Stock
  <2>3. UNCHANGED <<loc, sku, cant, mov, error, resp>> /\ pc' = [pc EXCEPT ![r] = e]
    BY <1>4, Zenon DEF R!Listar
  <2> QED BY <1>0, <1>1, <2>1, <2>2, <2>3 DEF LocOK
<1>5. ASSUME NEW u \in Unidades, R!Llamada(r, u) PROVE LocOK'
  BY <1>0, <1>5
  DEF R!Llamada, R!MoveStock, R!MoveStockBodega, LocOK, Lugares, R!Depositos, Depositos
<1>6. ASSUME NEW u \in Unidades, R!Mover(r, u) PROVE R!TypeOK' /\ LocOK'
  <2>1. LocOK'  BY <1>5, <1>6 DEF R!Mover
  <2>2. pc[r] \in R!Etapas  BY <1>6 DEF R!Mover, R!Llamada, R!Etapas
  <2>3. mov' \in [Pedido -> [R!Etapas -> SUBSET Unidades]]  BY <1>6, <2>2 DEF R!Mover
  <2> QED BY <1>1, <1>6, <2>1, <2>3 DEF R!Mover
<1>7. CASE R!Rechazar(r)  BY <1>0, <1>1, <1>7 DEF R!Rechazar, LocOK
<1>8. CASE R!Responder(r)
  <2>1. R!Cantidad(r, "enviar") \in Nat
    <3>1. mov[r]["enviar"] \subseteq Unidades  BY DEF R!Etapas
    <3> QED BY <3>1, BodegaAssumption, FS_Subset, FS_CardinalityType, Contar DEF R!Cantidad
  <2>2. R!HuboError(r) \in BOOLEAN  BY DEF R!HuboError, R!Etapas
  <2>3. R!Respuesta(r) \in [success: BOOLEAN, amountSent: Nat]
    BY <2>1, <2>2 DEF R!Respuesta
  <2> QED BY <1>0, <1>1, <1>8, <2>3 DEF R!Responder, LocOK
<1>9. CASE R!Excepcion(r)
  <2>1. LocOK'
    <3>1. CASE loc' = loc  BY <1>0, <3>1 DEF LocOK
    <3>2. CASE \E u \in pend[r] : R!Llamada(r, u)  BY <1>5, <3>2
    <3> QED BY <1>9, <3>1, <3>2 DEF R!Excepcion
  <2> QED BY <1>1, <1>9, <2>1 DEF R!Excepcion
<1> QED
  BY <1>2, <1>3, <1>4, <1>6, <1>7, <1>8, <1>9 DEF R!Atender

\* A step of one task or request leaves the state of the others well typed.
LEMMA OtroTypeOK ==
    ASSUME LocOK'
    PROVE  /\ P!TypeOK /\ UNCHANGED <<deProceso, fallos>> => P!TypeOK'
           /\ E!TypeOK /\ base' \in P!Base /\ UNCHANGED deEntrega => E!TypeOK'
           /\ R!TypeOK /\ UNCHANGED dePedidos => R!TypeOK'
<1>1. P!LocOK' /\ E!LocOK' /\ R!LocOK'
  BY DEF P!LocOK, E!LocOK, R!LocOK, LocOK, P!Lugares, E!Lugares, R!Lugares, Lugares,
         P!Depositos, E!Depositos, R!Depositos, Depositos
<1>2. P!TypeOK /\ UNCHANGED <<deProceso, fallos>> => P!TypeOK'
  BY <1>1 DEF P!TypeOK, deProceso
<1>3. R!TypeOK /\ UNCHANGED dePedidos => R!TypeOK'
  BY <1>1 DEF R!TypeOK, dePedidos
<1>4. ASSUME base' \in P!Base
      PROVE  [processed |-> base'.processed, broked |-> base'.broked,
              delivered |-> [l \in Linea |-> FALSE]] \in E!Base
  BY <1>4 DEF P!Base, E!Base
<1>5. E!TypeOK /\ base' \in P!Base /\ UNCHANGED deEntrega => E!TypeOK'
  BY <1>1, <1>4 DEF E!TypeOK, deEntrega
<1> QED BY <1>2, <1>3, <1>5

LEMMA InitTypeOK == Init => TypeOK
<1> SUFFICES ASSUME Init PROVE TypeOK  OBVIOUS
<1>1. LocOK  BY DEF Init, R!Init, LocOK, Lugares, Depositos
<1>2. base \in P!Base
  <2>1. [c \in Cliente |-> [s \in Skus |-> 0]] \in [Cliente -> [Skus -> Nat]]
    OBVIOUS
  <2> QED BY <2>1 DEF Init, P!Base
<1>3. P!TypeOK
  <2>1. tp \in P!Tareas  BY MainSinTarea DEF Init
  <2>2. dw \in [pedido: [Archivo -> Nat], quiebre: SUBSET (Archivo \X Skus)]
    BY DEF Init
  <2>3. prep \in [Linea -> SUBSET Unidades] /\ fallos \in 0..MaxFallos /\ 0 \in 0..0
    BY Supuestos DEF Init
  <2> QED BY <1>1, <1>2, <2>1, <2>2, <2>3, Lugar DEF P!TypeOK
<1>4. E!TypeOK
  <2>1. te \in E!Tareas  BY DeliveryOcioso DEF Init
  <2>2. [processed |-> base.processed, broked |-> base.broked,
         delivered |-> [l \in Linea |-> FALSE]] \in E!Base
    BY <1>2 DEF P!Base, E!Base
  <2>3. /\ reportes = {} /\ docs = {} /\ hoy = 0 /\ corrio = FALSE
        /\ entregadas = [l \in Linea |-> {}]
    BY DEF Init
  <2>4. 0 \in 0..MaxDia /\ entregadas \in [Linea -> SUBSET Unidades]
    BY <2>3, Supuestos
  <2> QED BY <1>1, <2>1, <2>2, <2>3, <2>4, Lugar DEF E!TypeOK
<1>5. R!TypeOK
  <2> USE DEF R!Init, R!Etapas
  <2>1. cant \in [Pedido -> Int]  BY Supuestos DEF Init
  <2>2. resp \in [Pedido -> [success: BOOLEAN, amountSent: Nat]]
    BY DEF Init, R!SinRespuesta
  <2>3. /\ mov \in [Pedido -> [R!Etapas -> SUBSET Unidades]]
        /\ error \in [Pedido -> [R!Etapas -> BOOLEAN]]
    BY DEF Init
  <2>4. /\ pc \in [Pedido -> {"libre", "consultar", "aceptado", "fin", "caido"}
                             \cup R!Etapas]
        /\ sku \in [Pedido -> Skus] /\ pend \in [Pedido -> SUBSET Unidades]
    BY DEF Init
  <2> QED BY <1>1, <2>1, <2>2, <2>3, <2>4, Lugar DEF R!TypeOK
<1> QED BY <1>3, <1>4, <1>5 DEF TypeOK, Init

LEMMA NextTypeOK == TypeOK /\ [Next]_vars => TypeOK'
<1> SUFFICES ASSUME P!TypeOK, E!TypeOK, R!TypeOK, hecho \in BOOLEAN, limpio \in BOOLEAN,
                    [Next]_vars
             PROVE  TypeOK'
  BY DEF TypeOK
<1>0. LocOK /\ base \in P!Base  BY Lugar DEF P!TypeOK
<1>1. hecho' \in BOOLEAN /\ limpio' \in BOOLEAN
  BY Zenon DEF Next, Main, Delivery, Fallar, NuevoDia, Peticion, vars
<1>2. ASSUME P!Tarea \/ P!Fallar, UNCHANGED <<deEntrega, dePedidos>> PROVE TypeOK'
  <2>1. P!TypeOK'  BY <1>2, MainTypeOK
  <2>2. LocOK' /\ base' \in P!Base
    BY <2>1 DEF P!TypeOK, P!LocOK, LocOK, P!Lugares, Lugares, P!Depositos, Depositos
  <2> QED BY <1>1, <1>2, <2>1, <2>2, OtroTypeOK DEF TypeOK
<1>3. ASSUME E!Tarea \/ E!Fallar, UNCHANGED <<deProceso, dePedidos>>, fallos' \in 0..MaxFallos
      PROVE  TypeOK'
  <2>1. base' = base /\ dw' = dw /\ tp' = tp /\ prep' = prep  BY <1>3, Zenon DEF deProceso
  <2>2. E!TypeOK' /\ LocOK'  BY <1>3, <2>1, DeliveryTypeOK
  <2>3. P!TypeOK'
    BY <1>3, <2>1, <2>2
    DEF P!TypeOK, P!LocOK, LocOK, P!Lugares, Lugares, P!Depositos, Depositos
  <2> QED BY <1>1, <1>3, <2>2, <2>3, OtroTypeOK DEF TypeOK
<1>4. CASE Main
  <2>1. P!Tarea /\ UNCHANGED <<deEntrega, dePedidos>>
    BY <1>4, Zenon DEF Main, P!Tarea
  <2> QED BY <1>2, <2>1
<1>5. CASE Delivery
  <2>1. E!Tarea /\ UNCHANGED <<deProceso, dePedidos>> /\ fallos' = fallos
    BY <1>5, Zenon DEF Delivery
  <2> QED BY <1>3, <2>1 DEF P!TypeOK
<1>6. CASE Fallar
  <2>1. \/ P!Fallar /\ UNCHANGED <<deEntrega, dePedidos>>
        \/ /\ E!Fallar /\ UNCHANGED <<deProceso, dePedidos>>
           /\ fallos < MaxFallos /\ fallos' = fallos + 1
    BY <1>6, Zenon DEF Fallar
  <2>2. fallos < MaxFallos /\ fallos' = fallos + 1 => fallos' \in 0..MaxFallos
    BY Supuestos DEF P!TypeOK
  <2> QED BY <1>2, <1>3, <2>1, <2>2
<1>7. CASE NuevoDia
  <2>1. /\ UNCHANGED <<deProceso, dePedidos, fallos, loc, reportes, docs, te, entregadas>>
        /\ hoy < MaxDia /\ hoy' = hoy + 1 /\ corrio' = FALSE
    BY <1>7, Zenon DEF NuevoDia, E!NuevoDia
  <2>2. LocOK' /\ base' = base  BY <1>0, <2>1 DEF LocOK, deProceso
  <2>3. hoy' \in 0..MaxDia  BY <2>1, Supuestos DEF E!TypeOK
  <2>4. E!TypeOK'  BY <2>1, <2>2, <2>3 DEF E!TypeOK, E!LocOK
  <2> QED BY <1>1, <2>1, <2>2, <2>4, OtroTypeOK DEF TypeOK
<1>8. ASSUME NEW r \in Pedido, Peticion(r) PROVE TypeOK'
  <2>1. /\ R!Pedir(r) \/ R!Atender(r) \/ R!Excepcion(r)
        /\ UNCHANGED <<deProceso, deEntrega, fallos>>
    BY <1>8, Zenon DEF Peticion
  <2>2. R!TypeOK' /\ LocOK'  BY <2>1, PeticionTypeOK
  <2>3. base' \in P!Base  BY <1>0, <2>1 DEF deProceso
  <2> QED BY <1>1, <2>1, <2>2, <2>3, OtroTypeOK DEF TypeOK
<1>9. CASE UNCHANGED vars
  <2>1. UNCHANGED <<loc, deProceso, fallos, deEntrega, dePedidos>>
    BY <1>9, Zenon DEF vars
  <2>2. LocOK' /\ base' \in P!Base  BY <1>0, <2>1 DEF LocOK, deProceso
  <2> QED BY <1>1, <2>1, <2>2, OtroTypeOK DEF TypeOK
<1> QED BY <1>4, <1>5, <1>6, <1>7, <1>8, <1>9, Zenon DEF Next

\* Over one warehouse and one database the three components stay well typed:
\* no step of one leaves the others in a state that they do not expect.
THEOREM TypeCorrect == Spec => []TypeOK
<1> QED BY InitTypeOK, NextTypeOK, PTL DEF Spec

-----------------------------------------------------------------------------
(* Where units are *)

Fuera == {"socio", "cliente"}
Cerca == {"principal", "espera", "despacho"} \cup Fuera

\* A step that moves no unit that left, and none back to where it came in.
Quieto ==
    /\ LocOK'
    /\ \A u \in Unidades : /\ loc[u] \in Fuera => loc'[u] = loc[u]
                           /\ loc[u] \in Cerca => loc'[u] \in Cerca

\* Of the local state of the two tasks, the fields that change as a unit moves.
TpBien == "pend" \in DOMAIN tp /\ "socios" \in DOMAIN tp /\ tp.socios \in Int
TeBien == "pend" \in DOMAIN te /\ "mano" \in DOMAIN te /\ te.mano \subseteq Unidades

Tipos ==
    /\ LocOK /\ TeBien
    /\ entregadas \in [Linea -> SUBSET Unidades]
    /\ mov \in [Pedido -> [R!Etapas -> SUBSET Unidades]]

LEMMA SinLlamada == ASSUME LocOK, loc' = loc PROVE Quieto
BY DEF LocOK, Quieto, Cerca

LEMMA UnaLlamada ==
    ASSUME LocOK, NEW u, NEW d \in Cerca, loc[u] \in Depositos,
           loc' = [loc EXCEPT ![u] = d]
    PROVE  Quieto
BY DEF LocOK, Lugares, Depositos, Quieto, Fuera, Cerca

\* Schedule.main sends no unit away.
LEMMA MainQuieto == ASSUME LocOK, P!Tarea \/ P!Fallar PROVE Quieto
<1>1. CASE P!PedirASocio
  <2>1. PICK D \in SUBSET P!Stock("ajeno", SkuLinea[tp.linea]), d \in {"recepcion", "pulmon"} :
            loc' = [u \in Unidades |-> IF u \in D THEN d ELSE loc[u]]
    BY <1>1, Zenon DEF P!PedirASocio
  <2>2. \A u \in D : loc[u] = "ajeno"  BY DEF P!Stock
  <2> QED BY <2>1, <2>2 DEF LocOK, Lugares, Depositos, Quieto, Fuera, Cerca
<1>2. ASSUME NEW u, NEW d \in Cerca, P!MoveStock(u, d) PROVE Quieto
  BY <1>2, UnaLlamada DEF P!MoveStock, P!Depositos, Depositos
<1>3. \/ P!PedirASocio \/ loc' = loc
      \/ \E u : P!MoveStock(u, "principal") \/ P!MoveStock(u, "espera")
  BY Zenon DEF P!Tarea, P!Fallar, P!Iniciar, P!Terminar, P!Abrir, P!RevisarReservas,
     P!RevisarFalta, P!ListarPrincipal, P!ListarRecepcion, P!CerrarFalta,
     P!GetStockListo, P!Recibir, P!Mover, P!Marcar, P!Documentar, P!EmpezarPreparar,
     P!Rechazar, P!Reservar, P!Quebrar, P!PrepareStockListo, P!Resumir
<1> QED BY <1>1, <1>2, <1>3, SinLlamada DEF Cerca

\* Schedule.delivery sends the unit at hand for the line at hand, or none.
LEMMA DeliveryManda ==
    ASSUME Tipos, E!Tarea \/ E!Fallar
    PROVE  \/ Quieto /\ entregadas' = entregadas
           \/ \E u \in Unidades : \E l :
                  E!DeleteStock(u) /\ entregadas' = [entregadas EXCEPT ![l] = @ \cup {u}]
<1>0. LocOK  BY DEF Tipos
<1>1. ASSUME NEW u, NEW d \in Cerca, E!MoveStock(u, d) PROVE Quieto
  BY <1>0, <1>1, UnaLlamada DEF E!MoveStock, E!Depositos, Depositos
<1>2. ASSUME NEW u \in Unidades, E!Sacar(u) \/ E!Reponer(u)
      PROVE  Quieto /\ entregadas' = entregadas
  <2>1. /\ entregadas' = entregadas
        /\ E!MoveStock(u, "despacho") \/ E!MoveStock(u, "espera") \/ loc' = loc
    BY <1>2, Zenon DEF E!Sacar, E!Reponer
  <2> QED BY <1>0, <1>1, <2>1, SinLlamada DEF Cerca
<1>3. ASSUME NEW u \in Unidades, E!Despachar(u)
      PROVE  \/ /\ E!DeleteStock(u)
                /\ entregadas' = [entregadas EXCEPT ![te.linea] = @ \cup {u}]
             \/ loc' = loc /\ entregadas' = entregadas
  BY <1>3, Zenon DEF E!Despachar
<1>4. CASE E!Fallar
  <2>1. \/ loc' = loc /\ entregadas' = entregadas
        \/ \E u \in te.mano : /\ E!DeleteStock(u)
                              /\ entregadas' = [entregadas EXCEPT ![te.linea] = @ \cup {u}]
        \/ \E u : /\ E!MoveStock(u, "despacho") \/ E!MoveStock(u, "espera")
                  /\ entregadas' = entregadas
    BY <1>4, Zenon DEF E!Fallar
  <2>2. te.mano \subseteq Unidades  BY DEF Tipos, TeBien
  <2> QED BY <1>0, <1>1, <2>1, <2>2, SinLlamada DEF Cerca
<1>5. ASSUME \/ E!Iniciar \/ E!Terminar \/ E!EmpezarDespacho \/ E!LineaDespachada
             \/ E!DespacharListo \/ E!Anotar \/ E!Reportar \/ E!Repuesta \/ E!ArchivoListo
      PROVE  loc' = loc /\ entregadas' = entregadas
  BY <1>5, Zenon DEF E!Iniciar, E!Terminar, E!EmpezarDespacho, E!LineaDespachada,
     E!DespacharListo, E!Anotar, E!Reportar, E!Repuesta, E!ArchivoListo
<1>6. ASSUME NEW g \in Archivo, E!Abrir(g) PROVE loc' = loc /\ entregadas' = entregadas
  BY <1>6, Zenon DEF E!Abrir
<1>7. ASSUME NEW l \in Linea, E!ListarEspera(l) \/ E!NoEnEspera(l) \/ E!CerrarLinea(l)
      PROVE  loc' = loc /\ entregadas' = entregadas
  BY <1>7, Zenon DEF E!ListarEspera, E!NoEnEspera, E!CerrarLinea
<1>8. CASE loc' = loc /\ entregadas' = entregadas  BY <1>0, <1>8, SinLlamada
<1>9. CASE \E u \in Unidades : E!Despachar(u)  BY <1>0, <1>3, <1>9, SinLlamada, Zenon
<1> QED BY <1>2, <1>4, <1>5, <1>6, <1>7, <1>8, <1>9, Zenon DEF E!Tarea

LEMMA DeliveryTe == ASSUME TeBien, E!Tarea \/ E!Fallar PROVE TeBien'
<1> USE DEF TeBien
<1>a. /\ "pend" \in DOMAIN E!Ocioso /\ "mano" \in DOMAIN E!Ocioso
      /\ E!Ocioso.mano \subseteq Unidades
  BY Zenon DEF E!Ocioso
<1>1. CASE E!Iniciar \/ E!Terminar \/ E!ArchivoListo \/ E!Fallar
  BY <1>a, <1>1, Zenon DEF E!Iniciar, E!Terminar, E!ArchivoListo, E!Fallar
<1>2. CASE \/ E!EmpezarDespacho \/ E!LineaDespachada \/ E!DespacharListo
           \/ E!Anotar \/ E!Reportar \/ E!Repuesta
  BY <1>2, Zenon DEF E!EmpezarDespacho, E!LineaDespachada, E!DespacharListo,
     E!Anotar, E!Reportar, E!Repuesta
<1>3. ASSUME NEW g \in Archivo, E!Abrir(g) PROVE TeBien'
  BY <1>3, Zenon DEF E!Abrir
<1>4. ASSUME NEW l \in Linea, E!ListarEspera(l) \/ E!NoEnEspera(l) \/ E!CerrarLinea(l)
      PROVE  TeBien'
  BY <1>4, Zenon DEF E!ListarEspera, E!NoEnEspera, E!CerrarLinea
<1>5. ASSUME NEW u \in Unidades, E!Sacar(u) \/ E!Despachar(u) \/ E!Reponer(u)
      PROVE  TeBien'
  <2>1. {u} \subseteq Unidades  OBVIOUS
  <2> QED BY <1>5, <2>1, Zenon DEF E!Sacar, E!Despachar, E!Reponer
<1> QED BY <1>1, <1>2, <1>3, <1>4, <1>5, Zenon DEF E!Tarea

LEMMA MainTp == ASSUME TpBien, P!Tarea \/ P!Fallar PROVE TpBien'
<1> USE DEF TpBien
<1>a. 0 \in Int /\ NumSocios \in Int /\ tp.socios - 1 \in Int  BY TiendaAssumption
<1>b. /\ "pend" \in DOMAIN P!Ocioso /\ "socios" \in DOMAIN P!Ocioso
      /\ P!Ocioso.socios = 0
  BY Zenon DEF P!Ocioso
<1>1. CASE P!Iniciar \/ P!Terminar \/ P!Fallar \/ P!Resumir
  BY <1>a, <1>b, <1>1, Zenon DEF P!Iniciar, P!Terminar, P!Fallar, P!Resumir
<1>2. CASE P!ListarRecepcion \/ P!GetStockListo \/ P!Marcar \/ P!Documentar
           \/ P!EmpezarPreparar \/ P!Rechazar \/ P!Reservar \/ P!PrepareStockListo
  BY <1>2, Zenon DEF P!ListarRecepcion, P!GetStockListo, P!Marcar, P!Documentar,
     P!EmpezarPreparar, P!Rechazar, P!Reservar, P!PrepareStockListo
<1>3. ASSUME NEW g \in Archivo, P!Abrir(g) PROVE TpBien'
  BY <1>3, Zenon DEF P!Abrir
<1>4. ASSUME NEW l \in Linea,
             P!RevisarReservas(l) \/ P!RevisarFalta(l) \/ P!ListarPrincipal(l)
      PROVE  TpBien'
  BY <1>a, <1>4, Zenon DEF P!RevisarReservas, P!RevisarFalta, P!ListarPrincipal
<1>5. CASE P!PedirASocio \/ P!CerrarFalta
  BY <1>a, <1>5, Zenon DEF P!PedirASocio, P!CerrarFalta
<1>6. ASSUME NEW u \in Unidades, P!Recibir(u) \/ P!Mover(u) PROVE TpBien'
  BY <1>6, Zenon DEF P!Recibir, P!Mover
<1>7. ASSUME NEW s \in Skus, P!Quebrar(s) PROVE TpBien'
  BY <1>7, Zenon DEF P!Quebrar
<1> QED BY <1>1, <1>2, <1>3, <1>4, <1>5, <1>6, <1>7, Zenon DEF P!Tarea

\* A request counts a unit as sent only in the call that sends it.
LEMMA PeticionManda ==
    ASSUME Tipos, NEW r \in Pedido, R!Pedir(r) \/ R!Atender(r) \/ R!Excepcion(r)
    PROVE  \/ Quieto /\ mov' = mov
           \/ /\ Quieto
              /\ \E u \in Unidades, e \in R!Etapas \ {"enviar"} :
                     mov' = [mov EXCEPT ![r][e] = @ \cup {u}]
           \/ \E u \in Unidades : /\ R!MoveStockBodega(u)
                                  /\ mov' = [mov EXCEPT ![r]["enviar"] = @ \cup {u}]
<1>0. LocOK  BY DEF Tipos
<1>1. ASSUME NEW u, R!Llamada(r, u) PROVE Quieto
  <2>1. loc[u] \in Depositos /\ \E d \in Cerca : loc' = [loc EXCEPT ![u] = d]
    BY <1>1 DEF R!Llamada, R!MoveStock, R!MoveStockBodega, R!Depositos, Depositos,
       Cerca, Fuera
  <2> QED BY <1>0, <2>1, UnaLlamada
<1>2. ASSUME NEW u \in Unidades, R!Mover(r, u)
      PROVE  \/ /\ Quieto
                /\ \E e \in R!Etapas \ {"enviar"} : mov' = [mov EXCEPT ![r][e] = @ \cup {u}]
             \/ /\ R!MoveStockBodega(u)
                /\ mov' = [mov EXCEPT ![r]["enviar"] = @ \cup {u}]
  <2>1. R!Llamada(r, u) /\ mov' = [mov EXCEPT ![r][pc[r]] = @ \cup {u}]
    BY <1>2 DEF R!Mover
  <2>2. \/ pc[r] = "sacar" \/ pc[r] = "devolver"
        \/ pc[r] = "enviar" /\ R!MoveStockBodega(u)
    BY <2>1 DEF R!Llamada
  <2> QED BY <1>1, <2>1, <2>2 DEF R!Etapas
<1>3. CASE R!Excepcion(r)
  BY <1>0, <1>1, <1>3, SinLlamada DEF R!Excepcion
<1>4. CASE loc' = loc /\ mov' = mov  BY <1>0, <1>4, SinLlamada
<1>5. ASSUME R!Pedir(r) \/ R!Consultar(r) \/ R!Rechazar(r) \/ R!Responder(r)
      PROVE  loc' = loc /\ mov' = mov
  BY <1>5, Zenon DEF R!Pedir, R!Consultar, R!Rechazar, R!Responder
<1>6. ASSUME NEW e \in R!Etapas, R!Listar(r, e) PROVE loc' = loc /\ mov' = mov
  BY <1>6, Zenon DEF R!Listar
<1>7. CASE \E u \in Unidades : R!Mover(r, u)  BY <1>2, <1>7
<1> QED BY <1>3, <1>4, <1>5, <1>6, <1>7, Zenon DEF R!Atender

-----------------------------------------------------------------------------
(* One receiver *)

\* Nothing is counted as sent, and units that left stay.
LEMMA NadaSale ==
    ASSUME Tipos, UnSoloReceptor, Quieto, entregadas' = entregadas,
           \A r \in Pedido : mov'[r]["enviar"] = mov[r]["enviar"]
    PROVE  UnSoloReceptor'
<1>1. /\ \A l \in Linea : entregadas[l] \subseteq Unidades
      /\ \A r \in Pedido : mov[r]["enviar"] \subseteq Unidades
  BY DEF Tipos, R!Etapas
<1> QED BY <1>1 DEF UnSoloReceptor, Quieto, Fuera

\* A unit in the dispatch depot has no receiver yet.
LEMMA EnDespacho ==
    ASSUME UnSoloReceptor, NEW u, loc[u] = "despacho"
    PROVE  /\ \A l \in Linea : u \notin entregadas[l]
           /\ \A r \in Pedido : u \notin mov[r]["enviar"]
BY DEF UnSoloReceptor

LEMMA SaleUna ==
    ASSUME Tipos, UnSoloReceptor, NEW u \in Unidades, E!DeleteStock(u), mov' = mov, NEW l,
           entregadas' = [entregadas EXCEPT ![l] = @ \cup {u}]
    PROVE  UnSoloReceptor' /\ Quieto /\ entregadas' \in [Linea -> SUBSET Unidades]
<1>0. loc \in [Unidades -> Lugares] /\ entregadas \in [Linea -> SUBSET Unidades]
  BY DEF Tipos, LocOK
<1>1. loc[u] = "despacho" /\ loc' = [loc EXCEPT ![u] = "cliente"]
  BY DEF E!DeleteStock
<1>2. Quieto /\ loc'[u] = "cliente" /\ LocOK'
  <2>1. LocOK /\ "despacho" \in Depositos /\ "cliente" \in Cerca
    BY DEF Tipos, Depositos, Cerca, Fuera
  <2> QED BY <1>0, <1>1, <2>1, UnaLlamada DEF Quieto
<1>3. /\ \A k \in Linea : k # l => entregadas'[k] = entregadas[k]
      /\ \A k \in Linea : k = l => entregadas'[k] = entregadas[k] \cup {u}
      /\ entregadas' \in [Linea -> SUBSET Unidades]
  BY <1>0
<1>4. /\ \A k \in Linea : u \notin entregadas[k]
      /\ \A r \in Pedido : u \notin mov[r]["enviar"]
  BY <1>1, EnDespacho
<1>5. /\ \A k \in Linea : \A v \in entregadas[k] : loc'[v] = "cliente"
      /\ \A r \in Pedido : \A v \in mov[r]["enviar"] : loc'[v] = "socio"
  <2>1. /\ \A k \in Linea : entregadas[k] \subseteq Unidades
        /\ \A r \in Pedido : mov[r]["enviar"] \subseteq Unidades
    BY DEF Tipos, R!Etapas
  <2> QED BY <1>2, <2>1 DEF UnSoloReceptor, Quieto, Fuera
<1>6. UnSoloReceptor'
  BY <1>2, <1>3, <1>4, <1>5 DEF UnSoloReceptor
<1> QED BY <1>2, <1>3, <1>6

LEMMA ParteUna ==
    ASSUME Tipos, UnSoloReceptor, NEW u \in Unidades, NEW r \in Pedido,
           R!MoveStockBodega(u), entregadas' = entregadas,
           mov' = [mov EXCEPT ![r]["enviar"] = @ \cup {u}]
    PROVE  UnSoloReceptor' /\ Quieto /\ mov' \in [Pedido -> [R!Etapas -> SUBSET Unidades]]
<1>0. /\ loc \in [Unidades -> Lugares]
      /\ mov \in [Pedido -> [R!Etapas -> SUBSET Unidades]] /\ "enviar" \in R!Etapas
  BY DEF Tipos, LocOK, R!Etapas
<1>1. loc[u] = "despacho" /\ loc' = [loc EXCEPT ![u] = "socio"]
  BY DEF R!MoveStockBodega
<1>2. Quieto /\ loc'[u] = "socio" /\ LocOK'
  <2>1. LocOK /\ "despacho" \in Depositos /\ "socio" \in Cerca
    BY DEF Tipos, Depositos, Cerca, Fuera
  <2> QED BY <1>0, <1>1, <2>1, UnaLlamada DEF Quieto
<1>3. /\ \A q \in Pedido : q # r => mov'[q]["enviar"] = mov[q]["enviar"]
      /\ mov'[r]["enviar"] = mov[r]["enviar"] \cup {u}
      /\ mov' \in [Pedido -> [R!Etapas -> SUBSET Unidades]]
  BY <1>0
<1>4. /\ \A k \in Linea : u \notin entregadas[k]
      /\ \A q \in Pedido : u \notin mov[q]["enviar"]
  BY <1>1, EnDespacho
<1>5. /\ \A k \in Linea : \A v \in entregadas[k] : loc'[v] = "cliente"
      /\ \A q \in Pedido : \A v \in mov[q]["enviar"] : loc'[v] = "socio"
  <2>1. /\ \A k \in Linea : entregadas[k] \subseteq Unidades
        /\ \A q \in Pedido : mov[q]["enviar"] \subseteq Unidades
    BY <1>0 DEF Tipos
  <2> QED BY <1>2, <2>1 DEF UnSoloReceptor, Quieto, Fuera
<1>6. UnSoloReceptor'
  BY <1>2, <1>3, <1>4, <1>5 DEF UnSoloReceptor
<1> QED BY <1>2, <1>3, <1>6

Receptor == Tipos /\ UnSoloReceptor

LEMMA InitReceptor == Init => Receptor
<1> SUFFICES ASSUME Init PROVE Receptor  OBVIOUS
<1>1. LocOK /\ mov = [r \in Pedido |-> [e \in R!Etapas |-> {}]]
  BY DEF Init, R!Init, LocOK, Lugares, Depositos
<1>2. entregadas = [l \in Linea |-> {}]  BY DEF Init
<1>3. TeBien
  BY Zenon DEF Init, E!Ocioso, TeBien
<1>4. Tipos  BY <1>1, <1>2, <1>3 DEF Tipos
<1>5. UnSoloReceptor  BY <1>1, <1>2 DEF UnSoloReceptor, R!Etapas
<1> QED BY <1>4, <1>5 DEF Receptor

LEMMA NextReceptor == Receptor /\ [Next]_vars => Receptor'
<1> SUFFICES ASSUME Tipos, UnSoloReceptor, [Next]_vars PROVE Tipos' /\ UnSoloReceptor'
  BY DEF Receptor
<1>0. LocOK  BY DEF Tipos
\* steps of main, and steps of no one
<1>1. ASSUME Quieto, UNCHANGED <<te, entregadas, mov>> PROVE Tipos' /\ UnSoloReceptor'
  BY <1>1, NadaSale DEF Tipos, TeBien, Quieto
<1>2. ASSUME E!Tarea \/ E!Fallar, mov' = mov PROVE Tipos' /\ UnSoloReceptor'
  <2>1. TeBien'  BY <1>2, DeliveryTe DEF Tipos
  <2>2. CASE Quieto /\ entregadas' = entregadas
    BY <1>2, <2>1, <2>2, NadaSale DEF Tipos, Quieto
  <2>3. ASSUME NEW u \in Unidades, NEW l, E!DeleteStock(u),
               entregadas' = [entregadas EXCEPT ![l] = @ \cup {u}]
        PROVE  Tipos' /\ UnSoloReceptor'
    BY <1>2, <2>1, <2>3, SaleUna DEF Tipos, Quieto
  <2> QED BY <1>2, <2>2, <2>3, DeliveryManda
<1>3. ASSUME NEW r \in Pedido, R!Pedir(r) \/ R!Atender(r) \/ R!Excepcion(r),
             UNCHANGED <<te, entregadas>>
      PROVE  Tipos' /\ UnSoloReceptor'
  <2>1. CASE Quieto /\ mov' = mov  BY <1>1, <1>3, <2>1
  <2>2. ASSUME Quieto, NEW u \in Unidades, NEW e \in R!Etapas \ {"enviar"},
               mov' = [mov EXCEPT ![r][e] = @ \cup {u}]
        PROVE  Tipos' /\ UnSoloReceptor'
    <3>1. mov \in [Pedido -> [R!Etapas -> SUBSET Unidades]] /\ "enviar" \in R!Etapas
      BY DEF Tipos, R!Etapas
    <3>2. /\ mov' \in [Pedido -> [R!Etapas -> SUBSET Unidades]]
          /\ \A q \in Pedido : mov'[q]["enviar"] = mov[q]["enviar"]
      BY <2>2, <3>1
    <3> QED BY <1>3, <2>2, <3>2, NadaSale DEF Tipos, TeBien, Quieto
  <2>3. ASSUME NEW u \in Unidades, R!MoveStockBodega(u),
               mov' = [mov EXCEPT ![r]["enviar"] = @ \cup {u}]
        PROVE  Tipos' /\ UnSoloReceptor'
    BY <1>3, <2>3, ParteUna DEF Tipos, TeBien, Quieto
  <2> QED BY <1>3, <2>1, <2>2, <2>3, PeticionManda
<1>4. CASE Main
  <2>1. (P!Iniciar \/ P!Tarea) /\ UNCHANGED <<te, entregadas, mov>>
    BY <1>4, Zenon DEF Main, deEntrega, dePedidos
  <2>2. P!Tarea  BY <2>1, Zenon DEF P!Tarea
  <2> QED BY <1>0, <1>1, <2>1, <2>2, MainQuieto
<1>5. CASE Delivery
  <2>1. E!Tarea /\ mov' = mov  BY <1>5, Zenon DEF Delivery, dePedidos
  <2> QED BY <1>2, <2>1
<1>6. CASE Fallar
  <2>1. \/ P!Fallar /\ UNCHANGED <<te, entregadas, mov>>
        \/ E!Fallar /\ mov' = mov
    BY <1>6, Zenon DEF Fallar, deEntrega, dePedidos
  <2> QED BY <1>0, <1>1, <1>2, <2>1, MainQuieto
<1>7. CASE NuevoDia
  <2>1. loc' = loc /\ UNCHANGED <<te, entregadas, mov>>
    BY <1>7, Zenon DEF NuevoDia, E!NuevoDia, dePedidos
  <2> QED BY <1>0, <1>1, <2>1, SinLlamada
<1>8. ASSUME NEW r \in Pedido, Peticion(r) PROVE Tipos' /\ UnSoloReceptor'
  <2>1. /\ R!Pedir(r) \/ R!Atender(r) \/ R!Excepcion(r)
        /\ UNCHANGED <<te, entregadas>>
    BY <1>8, Zenon DEF Peticion, deEntrega
  <2> QED BY <1>3, <2>1
<1>9. CASE UNCHANGED vars
  <2>1. loc' = loc /\ UNCHANGED <<te, entregadas, mov>>
    BY <1>9, Zenon DEF vars, deEntrega, dePedidos
  <2> QED BY <1>0, <1>1, <2>1, SinLlamada
<1> QED BY <1>4, <1>5, <1>6, <1>7, <1>8, <1>9, Zenon DEF Next

\* However the daily task, its stops and any number of requests interleave, a
\* unit leaves for one line or for one request only.
THEOREM ReceptorSiempre == Spec => []UnSoloReceptor
<1>1. Receptor => UnSoloReceptor  BY DEF Receptor
<1> QED BY <1>1, InitReceptor, NextReceptor, PTL DEF Spec
-----------------------------------------------------------------------------
(* Requests, as the tasks see them *)

LEMMA TodoQuieto == ASSUME Tipos, UnSoloReceptor, [Next]_vars PROVE Quieto
<1>0. LocOK  BY DEF Tipos
<1>1. ASSUME E!Tarea \/ E!Fallar, mov' = mov PROVE Quieto
  BY <1>1, DeliveryManda, SaleUna
<1>2. ASSUME NEW r \in Pedido, R!Pedir(r) \/ R!Atender(r) \/ R!Excepcion(r),
             entregadas' = entregadas
      PROVE  Quieto
  BY <1>2, PeticionManda, ParteUna
<1>3. CASE Main
  <2>1. P!Tarea  BY <1>3, Zenon DEF Main, P!Tarea
  <2> QED BY <1>0, <2>1, MainQuieto
<1>4. CASE Delivery
  <2>1. E!Tarea /\ mov' = mov  BY <1>4, Zenon DEF Delivery, dePedidos
  <2> QED BY <1>1, <2>1
<1>5. CASE Fallar
  <2>1. P!Fallar \/ (E!Fallar /\ mov' = mov)  BY <1>5, Zenon DEF Fallar, dePedidos
  <2> QED BY <1>0, <1>1, <2>1, MainQuieto
<1>6. CASE NuevoDia \/ UNCHANGED vars
  <2>1. loc' = loc  BY <1>6, Zenon DEF NuevoDia, E!NuevoDia, vars
  <2> QED BY <1>0, <2>1, SinLlamada
<1>7. ASSUME NEW r \in Pedido, Peticion(r) PROVE Quieto
  <2>1. /\ R!Pedir(r) \/ R!Atender(r) \/ R!Excepcion(r)
        /\ entregadas' = entregadas
    BY <1>7, Zenon DEF Peticion, deEntrega
  <2> QED BY <1>2, <2>1
<1> QED BY <1>3, <1>4, <1>5, <1>6, <1>7, Zenon DEF Next

\* What a request listed was in the main or the dispatch depot, and whatever
\* happened to it since, it is not back where units come in.
Listadas ==
    /\ pend \in [Pedido -> SUBSET Unidades]
    /\ \A r \in Pedido : \A u \in pend[r] : loc[u] \in Cerca

Vecinos == Receptor /\ TpBien /\ Listadas

LEMMA PeticionPend ==
    ASSUME Listadas, NEW r \in Pedido, R!Pedir(r) \/ R!Atender(r) \/ R!Excepcion(r)
    PROVE  \E L \in SUBSET Unidades :
               /\ pend' = [pend EXCEPT ![r] = L]
               /\ \A u \in L : u \in pend[r] \/ (loc'[u] = loc[u] /\ loc[u] \in Cerca)
<1>0. pend[r] \in SUBSET Unidades /\ pend = [pend EXCEPT ![r] = pend[r]]
  BY DEF Listadas
<1>1. CASE pend' = pend  BY <1>0, <1>1
<1>2. ASSUME \/ R!Pedir(r) \/ R!Consultar(r) \/ R!Rechazar(r) \/ R!Responder(r)
             \/ R!Excepcion(r)
      PROVE  pend' = pend
  BY <1>2, Zenon DEF R!Pedir, R!Consultar, R!Rechazar, R!Responder, R!Excepcion
<1>3. CASE \E u \in Unidades : R!Mover(r, u)
  <2>1. PICK u \in Unidades : pend' = [pend EXCEPT ![r] = @ \ {u}]
    BY <1>3 DEF R!Mover
  <2>2. pend[r] \ {u} \in SUBSET Unidades  BY <1>0
  <2> QED BY <2>1, <2>2
<1>4. ASSUME NEW e \in R!Etapas, R!Listar(r, e)
      PROVE  \E L \in SUBSET Unidades :
                 /\ pend' = [pend EXCEPT ![r] = L]
                 /\ \A u \in L : loc'[u] = loc[u] /\ loc[u] \in Cerca
  <2>1. PICK L \in R!Listado(R!Origen[e], sku[r], R!Limite(r, e)) :
            pend' = [pend EXCEPT ![r] = L]
    BY <1>4, Zenon DEF R!Listar
  <2>2. loc' = loc  BY <1>4, Zenon DEF R!Listar
  <2>3. R!Origen[e] \in {"principal", "despacho"}  BY DEF R!Origen, R!Etapas
  <2>4. L \in SUBSET Unidades /\ \A u \in L : loc[u] = R!Origen[e]
    BY DEF R!Listado, R!Stock
  <2> QED BY <2>1, <2>2, <2>3, <2>4 DEF Cerca
<1>5. CASE \E e \in R!Etapas : R!Listar(r, e)  BY <1>4, <1>5
<1> QED BY <1>1, <1>2, <1>3, <1>5, Zenon DEF R!Atender

LEMMA NextVecinos == Vecinos /\ [Next]_vars => Vecinos'
<1> SUFFICES ASSUME Receptor, TpBien, Listadas, [Next]_vars PROVE Vecinos'
  BY DEF Vecinos
<1>1. Receptor'  BY NextReceptor
<1>2. Quieto  BY TodoQuieto DEF Receptor
<1>3. ASSUME pend' = pend PROVE Listadas'
  BY <1>2, <1>3 DEF Listadas, Quieto
<1>4. ASSUME NEW r \in Pedido, R!Pedir(r) \/ R!Atender(r) \/ R!Excepcion(r)
      PROVE  Listadas'
  <2>1. PICK L \in SUBSET Unidades :
            /\ pend' = [pend EXCEPT ![r] = L]
            /\ \A u \in L : u \in pend[r] \/ (loc'[u] = loc[u] /\ loc[u] \in Cerca)
    BY <1>4, PeticionPend
  <2>2. \A q \in Pedido : pend[q] \subseteq Unidades  BY DEF Listadas
  <2>3. \A u \in L : loc'[u] \in Cerca  BY <1>2, <2>1, <2>2 DEF Listadas, Quieto
  <2>4. ASSUME NEW q \in Pedido, q # r PROVE \A u \in pend'[q] : loc'[u] \in Cerca
    BY <1>2, <2>1, <2>2, <2>4 DEF Listadas, Quieto
  <2> QED BY <2>1, <2>3, <2>4 DEF Listadas
<1>5. CASE Main
  <2>1. P!Tarea /\ pend' = pend  BY <1>5, Zenon DEF Main, P!Tarea, dePedidos
  <2> QED BY <1>1, <1>3, <2>1, MainTp DEF Vecinos
<1>6. CASE Fallar
  <2>1. pend' = pend /\ (P!Fallar \/ tp' = tp)
    BY <1>6, Zenon DEF Fallar, dePedidos, deProceso
  <2> QED BY <1>1, <1>3, <2>1, MainTp DEF Vecinos, TpBien
<1>7. CASE Delivery \/ NuevoDia \/ UNCHANGED vars
  <2>1. pend' = pend /\ tp' = tp
    BY <1>7, Zenon DEF Delivery, NuevoDia, vars, dePedidos, deProceso
  <2> QED BY <1>1, <1>3, <2>1 DEF Vecinos, TpBien
<1>8. ASSUME NEW r \in Pedido, Peticion(r) PROVE Vecinos'
  <2>1. /\ R!Pedir(r) \/ R!Atender(r) \/ R!Excepcion(r)
        /\ tp' = tp
    BY <1>8, Zenon DEF Peticion, deProceso
  <2> QED BY <1>1, <1>4, <2>1 DEF Vecinos, TpBien
<1> QED BY <1>5, <1>6, <1>7, <1>8, Zenon DEF Next

LEMMA InitVecinos == Init => Vecinos
<1> SUFFICES ASSUME Init PROVE Vecinos  OBVIOUS
<1>1. "pend" \in DOMAIN tp /\ "socios" \in DOMAIN tp /\ tp.socios = 0
  BY Zenon DEF Init, P!Ocioso
<1>2. pend = [r \in Pedido |-> {}]  BY DEF Init, R!Init
<1> QED BY <1>1, <1>2, InitReceptor DEF Vecinos, TpBien, Listadas

\* A task that moves a unit changes its own state with it.
LEMMA MainSeNota ==
    ASSUME TpBien, P!Tarea \/ P!Fallar, tp' = tp
    PROVE  loc' = loc
<1> USE DEF TpBien
<1>1. CASE P!PedirASocio
  <2>1. tp'.socios = tp.socios - 1  BY <1>1, Zenon DEF P!PedirASocio
  <2>2. tp.socios - 1 # tp.socios  OBVIOUS
  <2> QED BY <2>1, <2>2, Zenon
<1>2. ASSUME NEW u \in Unidades, P!Recibir(u) \/ P!Mover(u) PROVE loc' = loc
  <2>1. u \in tp.pend /\ (loc' = loc \/ tp'.pend = tp.pend \ {u})
    BY <1>2, Zenon DEF P!Recibir, P!Mover
  <2>2. u \notin tp.pend \ {u}  OBVIOUS
  <2> QED BY <2>1, <2>2, Zenon
<1>3. CASE P!Fallar
  <2>1. P!Ocioso.pc = "libre"  BY Zenon DEF P!Ocioso
  <2>2. tp.pc # "libre" /\ tp' = P!Ocioso  BY <1>3, Zenon DEF P!Fallar
  <2> QED BY <2>1, <2>2, Zenon
<1>4. \/ P!PedirASocio \/ P!Fallar \/ loc' = loc
      \/ \E u \in Unidades : P!Recibir(u) \/ P!Mover(u)
  BY Zenon DEF P!Tarea, P!Iniciar, P!Terminar, P!Abrir, P!RevisarReservas,
     P!RevisarFalta, P!ListarPrincipal, P!ListarRecepcion, P!CerrarFalta,
     P!GetStockListo, P!Marcar, P!Documentar, P!EmpezarPreparar, P!Rechazar,
     P!Reservar, P!Quebrar, P!PrepareStockListo, P!Resumir
<1> QED BY <1>1, <1>2, <1>3, <1>4

LEMMA DeliverySeNota ==
    ASSUME TeBien, E!Tarea \/ E!Fallar, te' = te
    PROVE  loc' = loc
<1> USE DEF TeBien
<1>1. ASSUME NEW u \in Unidades, E!Sacar(u) \/ E!Despachar(u) PROVE FALSE
  <2>1. \/ te.mano = {} /\ te'.mano = {u}
        \/ u \in te.mano /\ te'.mano = {}
    BY <1>1, Zenon DEF E!Sacar, E!Despachar
  <2> QED BY <2>1, Zenon
<1>2. ASSUME NEW u \in Unidades, E!Reponer(u) PROVE loc' = loc
  <2>1. u \in te.pend /\ (loc' = loc \/ te'.pend = te.pend \ {u})
    BY <1>2, Zenon DEF E!Reponer
  <2>2. u \notin te.pend \ {u}  OBVIOUS
  <2> QED BY <2>1, <2>2, Zenon
<1>3. CASE E!Fallar
  <2>1. E!Ocioso.pc = "libre"  BY Zenon DEF E!Ocioso
  <2>2. te.pc # "libre" /\ te' = E!Ocioso  BY <1>3, Zenon DEF E!Fallar
  <2> QED BY <2>1, <2>2, Zenon
<1>4. ASSUME \/ E!Iniciar \/ E!Terminar \/ E!EmpezarDespacho \/ E!LineaDespachada
             \/ E!DespacharListo \/ E!Anotar \/ E!Reportar \/ E!Repuesta \/ E!ArchivoListo
      PROVE  loc' = loc
  BY <1>4, Zenon DEF E!Iniciar, E!Terminar, E!EmpezarDespacho, E!LineaDespachada,
     E!DespacharListo, E!Anotar, E!Reportar, E!Repuesta, E!ArchivoListo
<1>5. ASSUME NEW g \in Archivo, E!Abrir(g) PROVE loc' = loc
  BY <1>5, Zenon DEF E!Abrir
<1>6. ASSUME NEW l \in Linea, E!ListarEspera(l) \/ E!NoEnEspera(l) \/ E!CerrarLinea(l)
      PROVE  loc' = loc
  BY <1>6, Zenon DEF E!ListarEspera, E!NoEnEspera, E!CerrarLinea
<1> QED BY <1>1, <1>2, <1>3, <1>4, <1>5, <1>6, Zenon DEF E!Tarea

\* A call of a request is one that the tasks expect of it.
LEMMA PeticionMueve ==
    ASSUME Listadas, NEW r \in Pedido, R!Pedir(r) \/ R!Atender(r) \/ R!Excepcion(r),
           loc' # loc
    PROVE  \E u \in Unidades : PedidoMueve(u)
<1>1. ASSUME NEW u \in pend[r], R!Llamada(r, u) PROVE \E v \in Unidades : PedidoMueve(v)
  <2>1. u \in Unidades /\ loc[u] \in Cerca  BY DEF Listadas
  <2>2. PedidoMueve(u)
    BY <1>1, <2>1 DEF R!Llamada, R!MoveStock, R!MoveStockBodega, R!Depositos,
       PedidoMueve, MoveStock, MoveStockBodega, Depositos, Cerca, Fuera
  <2> QED BY <2>1, <2>2
<1>2. CASE R!Excepcion(r)
  <2>1. \E u \in pend[r] : R!Llamada(r, u)  BY <1>2, Zenon DEF R!Excepcion
  <2> QED BY <1>1, <2>1
<1>3. ASSUME NEW u \in Unidades, R!Mover(r, u) PROVE \E v \in Unidades : PedidoMueve(v)
  <2>1. u \in pend[r] /\ R!Llamada(r, u)  BY <1>3, Zenon DEF R!Mover
  <2> QED BY <1>1, <2>1
<1>4. ASSUME R!Pedir(r) \/ R!Consultar(r) \/ R!Rechazar(r) \/ R!Responder(r)
      PROVE  loc' = loc
  BY <1>4, Zenon DEF R!Pedir, R!Consultar, R!Rechazar, R!Responder
<1>5. ASSUME NEW e \in R!Etapas, R!Listar(r, e) PROVE loc' = loc
  BY <1>5, Zenon DEF R!Listar
<1> QED BY <1>2, <1>3, <1>4, <1>5, Zenon DEF R!Atender

\* What the environment of Proceso and Entrega may do is all that requests do:
\* a step of no task that moves a unit is one of Bodega!PedidoMueve.
THEOREM AjenosSiempre == Spec => PedidosComoAjenos
<1> DEFINE Espera == UNCHANGED <<tp, te>> /\ loc' # loc => \E u \in Unidades : PedidoMueve(u)
<1>1. Vecinos /\ [Next]_vars => [Espera]_vars
  <2> SUFFICES ASSUME TpBien, TeBien, Listadas, Next, UNCHANGED <<tp, te>>, loc' # loc
               PROVE  \E u \in Unidades : PedidoMueve(u)
    BY DEF Vecinos, Receptor, Tipos
  <2>1. CASE Main
    <3>1. P!Tarea  BY <2>1, Zenon DEF Main, P!Tarea
    <3> QED BY <3>1, MainSeNota
  <2>2. CASE Delivery
    <3>1. E!Tarea  BY <2>2, Zenon DEF Delivery
    <3> QED BY <3>1, DeliverySeNota
  <2>3. CASE Fallar
    <3>1. P!Fallar \/ E!Fallar  BY <2>3, Zenon DEF Fallar
    <3> QED BY <3>1, MainSeNota, DeliverySeNota
  <2>4. CASE NuevoDia
    <3>1. loc' = loc  BY <2>4, Zenon DEF NuevoDia, E!NuevoDia
    <3> QED BY <3>1
  <2>5. ASSUME NEW r \in Pedido, Peticion(r) PROVE \E u \in Unidades : PedidoMueve(u)
    <3>1. R!Pedir(r) \/ R!Atender(r) \/ R!Excepcion(r)  BY <2>5, Zenon DEF Peticion
    <3> QED BY <3>1, PeticionMueve
  <2> QED BY <2>1, <2>2, <2>3, <2>4, <2>5, Zenon DEF Next
<1> QED BY <1>1, InitVecinos, NextVecinos, PTL DEF Spec, PedidosComoAjenos

-----------------------------------------------------------------------------
(* What is prepared in full leaves in full *)

\* A line that delivery takes up today.
Debida(l) == /\ ~base.broked[l] /\ base.processed[ArchivoDe[l]]
             /\ Fecha[ArchivoDe[l]] <= hoy

\* The two tasks take turns, and main has done nothing yet for the orders it
\* has left: what left is of orders it is done with.
Turnos ==
    /\ tp.pc # "libre" => te.pc = "libre"
    /\ tp.pc \notin {"libre", "archivo"} => tp.f \in tp.cola
    /\ \A l \in Linea : entregadas[l] # {} =>
           Debida(l) /\ (tp.pc # "libre" => ArchivoDe[l] \notin tp.cola)
    /\ \A l \in Linea : \A u \in entregadas[l] : SkuDe[u] = SkuLinea[l]
    /\ \A u \in Unidades : loc[u] = "cliente" => \E l \in Linea : u \in entregadas[l]

\* What delivery has at hand.
EnCurso ==
    /\ te.pc # "libre" => corrio /\ \A g \in te.cola : E!EnFecha(g)
    /\ te.pc \notin {"libre", "archivo"} =>
           te.f \in te.cola /\ \A l \in te.prods : ArchivoDe[l] = te.f /\ Debida(l)
    /\ te.pc \notin {"libre", "archivo", "crm"} => te.todo \subseteq te.prods
    /\ te.pc = "unidad" =>
           /\ te.linea \in te.todo
           /\ \A u \in te.pend \cup te.mano : SkuDe[u] = SkuLinea[te.linea]
    /\ te.mano # {} => te.pc = "unidad"
    /\ \A u, v \in te.mano : u = v

EnVuelo == {"despachar", "unidad", "cerrar", "anotar", "reportar", "reponer"}

\* A line that today's run has still to come to.
Pendiente(l) ==
    \/ ~corrio
    \/ te.pc \in {"archivo", "crm"} /\ ArchivoDe[l] \in te.cola
    \/ te.pc \in EnVuelo /\ ArchivoDe[l] \in te.cola \ {te.f}
    \/ te.pc = "despachar" /\ l \in te.todo
    \/ te.pc = "unidad" /\ l \in te.todo \ {te.linea}

DeHoy(l) == Fecha[ArchivoDe[l]] = hoy

\* What is on its way for the line at hand, and what left for it.
Suyas == entregadas[te.linea] \cup te.pend \cup te.mano

\* Of a line that is due today nothing has left before its turn, and no more
\* than its quantity after.
Cota ==
    /\ \A l \in Linea : DeHoy(l) => /\ Pendiente(l) => entregadas[l] = {}
                                    /\ Cardinality(entregadas[l]) <= CantLinea[l]
    /\ te.pc = "unidad" /\ DeHoy(te.linea) => Cardinality(Suyas) <= CantLinea[te.linea]

\* Undisturbed, a unit is where the task that handles it put it: one prepared
\* waits until it is dispatched, and a listing is as good as new.
Intactas ==
    /\ \A l, k \in Linea : l # k => prep[l] \cap prep[k] = {}
    /\ \A l \in Linea : \A u \in prep[l] :
           SkuDe[u] = SkuLinea[l] /\ loc[u] \in {"espera", "despacho", "cliente"}
    /\ \A u \in Unidades : loc[u] = "despacho" => u \in te.mano
    /\ tp.pc = "recibir" => \A u \in tp.pend : loc[u] = "recepcion"
    /\ tp.pc = "mover" => \A u \in tp.pend :
           loc[u] = "principal" /\ SkuDe[u] = SkuLinea[tp.linea]
    /\ te.pc = "unidad" => /\ \A u \in te.pend : loc[u] = "espera"
                           /\ \A u \in te.mano : loc[u] = "despacho"
    /\ te.pc = "reponer" => \A u \in te.pend : loc[u] = "principal"

\* The lines of a product that are due, and that the property is about.
Rivales(s) == {k \in Linea : SkuLinea[k] = s /\ Debida(k)}
Cubierta(s) == \A k \in Rivales(s) : DeHoy(k) /\ Completa(k)

\* The lines of the order at hand that are done.
Hechas == IF te.pc \in {"despachar", "unidad"} THEN te.prods \ te.todo ELSE te.prods

\* Such a line is listed with its quantity, and gets it.
Entera ==
    /\ te.pc \in {"despachar", "unidad"} =>
           \A l \in te.todo : Cubierta(SkuLinea[l]) => SkuLinea[l] \in te.foto
    /\ te.pc = "unidad" /\ Cubierta(SkuLinea[te.linea]) =>
           Cardinality(Suyas) = CantLinea[te.linea]
    /\ te.pc \in EnVuelo => \A l \in Hechas :
           Cubierta(SkuLinea[l]) => Cardinality(entregadas[l]) = CantLinea[l]

Sereno == limpio => Intactas /\ Entera

-----------------------------------------------------------------------------
(* The steps of main, as delivery sees them *)

\* Main sends nothing to a client.
LEMMA MainCliente ==
    ASSUME LocOK, P!Tarea \/ P!Fallar, NEW u \in Unidades, loc'[u] = "cliente"
    PROVE  loc[u] = "cliente"
<1>1. CASE P!PedirASocio
  <2>1. PICK D \in SUBSET P!Stock("ajeno", SkuLinea[tp.linea]), d \in {"recepcion", "pulmon"} :
            loc' = [v \in Unidades |-> IF v \in D THEN d ELSE loc[v]]
    BY <1>1, Zenon DEF P!PedirASocio
  <2> QED BY <2>1
<1>2. ASSUME NEW v, P!MoveStock(v, "principal") \/ P!MoveStock(v, "espera")
      PROVE  loc[u] = "cliente"
  BY <1>2 DEF P!MoveStock, LocOK
<1>3. \/ P!PedirASocio \/ loc' = loc
      \/ \E v : P!MoveStock(v, "principal") \/ P!MoveStock(v, "espera")
  BY Zenon DEF P!Tarea, P!Fallar, P!Iniciar, P!Terminar, P!Abrir, P!RevisarReservas,
     P!RevisarFalta, P!ListarPrincipal, P!ListarRecepcion, P!CerrarFalta,
     P!GetStockListo, P!Recibir, P!Mover, P!Marcar, P!Documentar, P!EmpezarPreparar,
     P!Rechazar, P!Reservar, P!Quebrar, P!PrepareStockListo, P!Resumir
<1> QED BY <1>1, <1>2, <1>3

\* It has orders left until it ends, the one at hand among them, and it starts
\* with orders that are not marked.
LEMMA MainCola ==
    ASSUME tp \in P!Tareas, base \in P!Base, P!Tarea \/ P!Fallar,
           tp.pc \notin {"libre", "archivo"} => tp.f \in tp.cola
    PROVE  /\ tp'.pc \notin {"libre", "archivo"} => tp'.f \in tp'.cola
           /\ \/ tp'.pc = "libre"
              \/ tp.pc # "libre" /\ tp'.cola \subseteq tp.cola
              \/ \A g \in tp'.cola : ~base.processed[g]
<1> DEFINE Bien == /\ tp'.pc \notin {"libre", "archivo"} => tp'.f \in tp'.cola
                   /\ \/ tp'.pc = "libre"
                      \/ tp.pc # "libre" /\ tp'.cola \subseteq tp.cola
                      \/ \A g \in tp'.cola : ~base.processed[g]
<1>0. P!Ocioso \in P!Tareas /\ P!Ocioso.pc = "libre"
  BY MainSinTarea, Zenon DEF P!Ocioso
<1>1. CASE P!Iniciar  BY <1>1 DEF P!Iniciar, P!Ocioso
<1>2. CASE P!Terminar \/ P!Fallar \/ P!Resumir
  <2>1. CASE P!Terminar \/ P!Fallar  BY <1>0, <2>1 DEF P!Terminar, P!Fallar
  <2>2. CASE P!Resumir
    <3>1. tp.pc = "resumen" /\ (tp' = P!Ocioso
              \/ tp' = [P!Ocioso EXCEPT !.pc = "archivo", !.cola = tp.cola \ {tp.f}])
      BY <2>2, Zenon DEF P!Resumir
    <3> QED BY <1>0, <3>1 DEF P!Tareas
  <2> QED BY <1>2, <2>1, <2>2
<1>3. ASSUME NEW g \in Archivo, P!Abrir(g) PROVE Bien
  <2>1. tp'.f = g /\ tp'.cola = tp.cola  BY <1>3 DEF P!Abrir, P!Tareas
  <2>2. g \in tp.cola /\ tp.pc = "archivo"  BY <1>3 DEF P!Abrir, P!Primero
  <2> QED BY <2>1, <2>2
<1>4. CASE tp'.f = tp.f /\ tp'.cola = tp.cola /\ tp.pc \notin {"libre", "archivo"}
  BY <1>4
<1>5. ASSUME NEW l \in Linea, P!RevisarReservas(l) \/ P!RevisarFalta(l) \/ P!ListarPrincipal(l)
      PROVE  Bien
  BY <1>4, <1>5 DEF P!RevisarReservas, P!RevisarFalta, P!ListarPrincipal, P!Tareas
<1>6. CASE P!PedirASocio \/ P!ListarRecepcion \/ P!CerrarFalta \/ P!GetStockListo
  <2>1. CASE P!PedirASocio  BY <1>4, <2>1 DEF P!PedirASocio, P!Tareas
  <2>2. CASE P!ListarRecepcion  BY <1>4, <2>2 DEF P!ListarRecepcion, P!Tareas
  <2>3. CASE P!CerrarFalta \/ P!GetStockListo
    BY <1>4, <2>3 DEF P!CerrarFalta, P!GetStockListo, P!Tareas
  <2> QED BY <1>6, <2>1, <2>2, <2>3
<1>7. ASSUME NEW u \in Unidades, P!Recibir(u) \/ P!Mover(u) PROVE Bien
  BY <1>4, <1>7 DEF P!Recibir, P!Mover, P!Tareas
<1>8. CASE P!Marcar \/ P!Documentar \/ P!EmpezarPreparar \/ P!Rechazar
  BY <1>4, <1>8 DEF P!Marcar, P!Documentar, P!EmpezarPreparar, P!Rechazar, P!Tareas
<1>9. CASE P!Reservar \/ P!PrepareStockListo
  BY <1>4, <1>9 DEF P!Reservar, P!PrepareStockListo, P!Tareas
<1>10. ASSUME NEW s \in Skus, P!Quebrar(s) PROVE Bien
  BY <1>4, <1>10 DEF P!Quebrar, P!Tareas
<1> QED BY <1>1, <1>2, <1>3, <1>5, <1>6, <1>7, <1>8, <1>9, <1>10 DEF P!Tarea

\* It marks orders, and breaks only lines of the order at hand.
LEMMA MainMarca ==
    ASSUME tp \in P!Tareas, base \in P!Base, P!Tarea \/ P!Fallar, NEW l \in Linea, Debida(l),
           tp.pc \notin {"libre", "archivo"} => ArchivoDe[l] # tp.f
    PROVE  base'.processed[ArchivoDe[l]] /\ ~base'.broked[l]
<1>0. ArchivoDe[l] \in Archivo  BY Supuestos
<1>1. CASE P!Marcar \/ P!Reservar
  <2>1. CASE P!Marcar
    <3>1. base'.broked = base.broked
      BY <2>1 DEF P!Marcar, P!Base
    <3>2. base'.processed = [base.processed EXCEPT ![tp.f] = TRUE]
      BY <2>1 DEF P!Marcar, P!Base
    <3>3. base.processed \in [Archivo -> BOOLEAN]  BY DEF P!Base
    <3> QED BY <1>0, <3>1, <3>2, <3>3 DEF Debida
  <2>2. CASE P!Reservar
    <3>1. base'.broked = base.broked /\ base'.processed = base.processed
      BY <2>2 DEF P!Reservar, P!Base
    <3> QED BY <3>1 DEF Debida
  <2> QED BY <1>1, <2>1, <2>2
<1>2. ASSUME NEW s \in Skus, P!Quebrar(s)
      PROVE  base'.processed[ArchivoDe[l]] /\ ~base'.broked[l]
  <2>1. l \notin P!LineasDe(tp.f)  BY <1>2 DEF P!Quebrar, P!LineasDe
  <2>2. /\ base'.processed = base.processed
        /\ base'.broked = [k \in Linea |-> base.broked[k]
                               \/ (k \in P!LineasDe(tp.f) /\ SkuLinea[k] = s)]
    BY <1>2 DEF P!Quebrar, P!Base
  <2> QED BY <2>1, <2>2 DEF Debida
<1> QED BY <1>1, <1>2, MainMarco DEF Debida

LEMMA MainTurnos ==
    ASSUME TypeOK, Turnos, te.pc = "libre", P!Tarea \/ P!Fallar, UNCHANGED deEntrega
    PROVE  Turnos'
<1>0. /\ tp \in P!Tareas /\ base \in P!Base /\ LocOK
      /\ te' = te /\ hoy' = hoy /\ entregadas' = entregadas
  BY Lugar DEF TypeOK, P!TypeOK, deEntrega
<1>1. /\ tp'.pc \notin {"libre", "archivo"} => tp'.f \in tp'.cola
      /\ \/ tp'.pc = "libre"
         \/ tp.pc # "libre" /\ tp'.cola \subseteq tp.cola
         \/ \A g \in tp'.cola : ~base.processed[g]
  BY <1>0, MainCola DEF Turnos
<1>2. ASSUME NEW l \in Linea, entregadas[l] # {}
      PROVE  Debida(l)' /\ (tp'.pc # "libre" => ArchivoDe[l] \notin tp'.cola)
  <2>1. Debida(l) /\ (tp.pc # "libre" => ArchivoDe[l] \notin tp.cola)
    BY <1>2 DEF Turnos
  <2>2. tp.pc \notin {"libre", "archivo"} => ArchivoDe[l] # tp.f
    BY <2>1 DEF Turnos
  <2>3. base'.processed[ArchivoDe[l]] /\ ~base'.broked[l]
    BY <1>0, <2>1, <2>2, MainMarca
  <2> QED BY <1>0, <1>1, <2>1, <2>3 DEF Debida
<1>3. \A u \in Unidades : loc'[u] = "cliente" => loc[u] = "cliente"
  BY <1>0, MainCliente
<1> QED BY <1>0, <1>1, <1>2, <1>3 DEF Turnos

-----------------------------------------------------------------------------
(* The steps of delivery *)

\* What delivery knows of its orders stays true while it runs, and no step makes
\* a line due again.
LEMMA DeliveryEnCurso ==
    ASSUME te \in E!Tareas, EnCurso, E!Tarea \/ E!Fallar, base' = base
    PROVE  EnCurso' /\ \A l \in Linea : Pendiente(l)' => Pendiente(l)
<1> DEFINE Bien == EnCurso' /\ \A l \in Linea : Pendiente(l)' => Pendiente(l)
<1> USE DEF EnCurso, Pendiente, EnVuelo
<1>0. /\ hoy' = hoy /\ te.cola \subseteq Archivo /\ te.prods \subseteq Linea
      /\ corrio' = corrio \/ (E!Iniciar /\ corrio' = TRUE)
  BY DeliveryMarco DEF E!Tareas
<1>a. /\ \A g \in Archivo : E!EnFecha(g)' <=> E!EnFecha(g)
      /\ \A l \in Linea : Debida(l)' <=> Debida(l)
  BY <1>0 DEF E!EnFecha, Debida
<1>b. E!Ocioso \in E!Tareas /\ E!Ocioso.pc = "libre" /\ E!Ocioso.mano = {}
  BY DeliveryOcioso, Zenon DEF E!Ocioso
<1>1. CASE E!Iniciar
  <2>1. /\ ~corrio /\ corrio' = TRUE
        /\ te' = [E!Ocioso EXCEPT !.pc = "archivo", !.cola = {g \in Archivo : E!EnFecha(g)}]
    BY <1>1, Zenon DEF E!Iniciar
  <2>2. /\ te'.pc = "archivo" /\ te'.cola = {g \in Archivo : E!EnFecha(g)} /\ te'.mano = {}
    BY <1>b, <2>1 DEF E!Tareas
  <2> QED BY <1>a, <2>1, <2>2
<1>2. ASSUME NEW g \in Archivo, E!Abrir(g) PROVE Bien
  <2>1. /\ te.pc = "archivo" /\ g \in te.cola /\ te.mano = {} /\ corrio' = corrio
        /\ \/ te' = [te EXCEPT !.cola = @ \ {g}]
           \/ te' = [te EXCEPT !.pc = "crm", !.f = g, !.prods = E!PorEntregar(g)]
    BY <1>2 DEF E!Abrir, E!Primero
  <2>2. E!EnFecha(g)  BY <2>1
  <2>3. \A l \in E!PorEntregar(g) : l \in Linea /\ Debida(l) /\ ArchivoDe[l] = g
    BY <2>2 DEF E!PorEntregar, E!LineasDe, E!EnFecha, Debida
  <2>4. CASE te' = [te EXCEPT !.cola = @ \ {g}]
    BY <1>0, <1>a, <2>1, <2>4 DEF E!Tareas
  <2>5. CASE te' = [te EXCEPT !.pc = "crm", !.f = g, !.prods = E!PorEntregar(g)]
    <3>1. /\ te'.pc = "crm" /\ te'.f = g /\ te'.prods = E!PorEntregar(g)
          /\ te'.cola = te.cola /\ te'.mano = te.mano
      BY <2>5 DEF E!Tareas
    <3> QED BY <1>0, <1>a, <2>1, <2>3, <3>1
  <2> QED BY <2>1, <2>4, <2>5
<1>3. CASE E!Terminar \/ E!Fallar
  BY <1>b, <1>3 DEF E!Terminar, E!Fallar
<1>4. CASE E!EmpezarDespacho
  <2>1. /\ te.pc = "crm" /\ te'.pc = "despachar" /\ te'.todo = te.prods
        /\ te'.cola = te.cola /\ te'.f = te.f /\ te'.prods = te.prods
        /\ te'.mano = te.mano /\ corrio' = corrio
    BY <1>4 DEF E!EmpezarDespacho, E!Tareas
  <2> QED BY <1>0, <1>a, <2>1
<1>5. ASSUME NEW l \in Linea, E!ListarEspera(l) PROVE Bien
  <2>1. PICK L \in E!Listado("espera", SkuLinea[l], E!Limite(l)) :
            te' = [te EXCEPT !.pc = "unidad", !.linea = l, !.pend = L]
    BY <1>5, Zenon DEF E!ListarEspera
  <2>2. \A u \in L : SkuDe[u] = SkuLinea[l]  BY DeliveryListado
  <2>3. te.pc = "despachar" /\ l \in te.todo /\ te.mano = {} /\ corrio' = corrio
    BY <1>5 DEF E!ListarEspera
  <2>4. /\ te'.pc = "unidad" /\ te'.linea = l /\ te'.pend = L /\ te'.todo = te.todo
        /\ te'.cola = te.cola /\ te'.f = te.f /\ te'.prods = te.prods
        /\ te'.mano = te.mano
    BY <2>1 DEF E!Tareas
  <2> QED BY <1>0, <1>a, <2>2, <2>3, <2>4
<1>6. ASSUME NEW l \in Linea, E!NoEnEspera(l) PROVE Bien
  <2>1. /\ te.pc = "despachar" /\ te'.pc = "despachar" /\ te'.todo = te.todo \ {l}
        /\ te'.cola = te.cola /\ te'.f = te.f /\ te'.prods = te.prods
        /\ te'.mano = te.mano /\ corrio' = corrio
    BY <1>6 DEF E!NoEnEspera, E!Tareas
  <2> QED BY <1>0, <1>a, <2>1
<1>7. ASSUME NEW l \in Linea, E!CerrarLinea(l) PROVE Bien
  <2>1. /\ te.pc = "cerrar" /\ te'.pc \in {"anotar", "reponer"} /\ te'.todo = te.todo
        /\ te'.cola = te.cola /\ te'.f = te.f /\ te'.prods = te.prods
        /\ te'.mano = te.mano /\ corrio' = corrio
    BY <1>7 DEF E!CerrarLinea, E!Tareas
  <2> QED BY <1>0, <1>a, <2>1
<1>8. ASSUME NEW u \in Unidades, E!Sacar(u) \/ E!Despachar(u) \/ E!Reponer(u) PROVE Bien
  <2>1. ASSUME te'.pc = te.pc, te'.todo = te.todo, te'.linea = te.linea,
               te'.cola = te.cola, te'.f = te.f, te'.prods = te.prods,
               te'.pend \cup te'.mano \subseteq te.pend \cup te.mano, corrio' = corrio,
               te'.mano # {} => te.pc = "unidad", \A v, w \in te'.mano : v = w
        PROVE  Bien
    BY <1>0, <1>a, <2>1
  <2>2. CASE E!Sacar(u)
    <3>1. /\ te.pc = "unidad" /\ u \in te.pend /\ corrio' = corrio
          /\ te' = [te EXCEPT !.mano = {u}, !.pend = @ \ {u}]
      BY <1>8, <2>2, Zenon DEF E!Sacar
    <3>2. /\ te'.pc = te.pc /\ te'.todo = te.todo /\ te'.linea = te.linea
          /\ te'.cola = te.cola /\ te'.f = te.f /\ te'.prods = te.prods
          /\ te'.pend = te.pend \ {u} /\ te'.mano = {u}
      BY <3>1 DEF E!Tareas
    <3> QED BY <2>1, <3>1, <3>2
  <2>3. CASE E!Despachar(u)
    <3>1. /\ te'.pc = te.pc /\ te'.todo = te.todo /\ te'.linea = te.linea
          /\ te'.cola = te.cola /\ te'.f = te.f /\ te'.prods = te.prods
          /\ te'.pend = te.pend /\ te'.mano = {} /\ corrio' = corrio
      BY <2>3 DEF E!Despachar, E!Tareas
    <3> QED BY <2>1, <3>1
  <2>4. CASE E!Reponer(u)
    <3>1. /\ corrio' = corrio
          /\ te' = [te EXCEPT !.pend = @ \ {u}] \/ te' = [te EXCEPT !.pend = {}]
      BY <2>4, Zenon DEF E!Reponer
    <3>2. /\ te'.pc = te.pc /\ te'.todo = te.todo /\ te'.linea = te.linea
          /\ te'.cola = te.cola /\ te'.f = te.f /\ te'.prods = te.prods
          /\ te'.pend \subseteq te.pend /\ te'.mano = te.mano
      BY <3>1 DEF E!Tareas
    <3> QED BY <2>1, <3>1, <3>2
  <2> QED BY <1>8, <2>2, <2>3, <2>4
<1>9. CASE E!LineaDespachada
  <2>1. /\ te.pc = "unidad" /\ te'.pc = "despachar" /\ te'.todo = te.todo \ {te.linea}
        /\ te'.cola = te.cola /\ te'.f = te.f /\ te'.prods = te.prods
        /\ te'.mano = te.mano /\ te.mano = {} /\ corrio' = corrio
    BY <1>9 DEF E!LineaDespachada, E!Tareas
  <2> QED BY <1>0, <1>a, <2>1
<1>10. CASE E!DespacharListo \/ E!Anotar \/ E!Reportar \/ E!Repuesta
  <2>1. /\ te.pc \in {"despachar", "anotar", "reportar", "reponer"}
        /\ te'.pc \in {"cerrar", "reportar"} /\ te'.todo \subseteq te.todo \cup te.prods
        /\ te'.cola = te.cola /\ te'.f = te.f /\ te'.prods = te.prods
        /\ te'.mano = te.mano /\ corrio' = corrio
    BY <1>10 DEF E!DespacharListo, E!Anotar, E!Reportar, E!Repuesta, E!Tareas
  <2> QED BY <1>0, <1>a, <2>1
<1>11. CASE E!ArchivoListo
  <2>1. /\ te.pc = "cerrar" /\ corrio' = corrio
        /\ te' = [E!Ocioso EXCEPT !.pc = "archivo", !.cola = te.cola \ {te.f}]
    BY <1>11, Zenon DEF E!ArchivoListo
  <2>2. te'.pc = "archivo" /\ te'.cola = te.cola \ {te.f} /\ te'.mano = {}
    BY <1>b, <2>1 DEF E!Tareas
  <2> QED BY <1>0, <1>a, <2>1, <2>2
<1> QED
  BY <1>1, <1>2, <1>3, <1>4, <1>5, <1>6, <1>7, <1>8, <1>9, <1>10, <1>11 DEF E!Tarea

\* The moves of delivery, and of a delivery that is stopped.
LEMMA DeliveryMueve ==
    ASSUME te \in E!Tareas, EnCurso, E!Tarea \/ E!Fallar
    PROVE  \/ loc' = loc /\ entregadas' = entregadas
           \/ \E u \in te.pend :
                  /\ E!MoveStock(u, "despacho") \/ E!MoveStock(u, "espera")
                  /\ entregadas' = entregadas
           \/ /\ te.pc = "unidad" /\ te.linea \in Linea
              /\ \E u \in te.mano :
                     /\ u \in Unidades /\ E!DeleteStock(u)
                     /\ entregadas' = [entregadas EXCEPT ![te.linea] = @ \cup {u}]
<1>0. te.mano \subseteq Unidades /\ te.linea \in Linea /\ (te.mano # {} => te.pc = "unidad")
  BY DEF E!Tareas, EnCurso
<1>1. ASSUME NEW u \in Unidades, E!Sacar(u) \/ E!Reponer(u)
      PROVE  \/ loc' = loc /\ entregadas' = entregadas
             \/ /\ u \in te.pend /\ entregadas' = entregadas
                /\ E!MoveStock(u, "despacho") \/ E!MoveStock(u, "espera")
  BY <1>1, Zenon DEF E!Sacar, E!Reponer
<1>2. ASSUME NEW u \in Unidades, E!Despachar(u)
      PROVE  \/ loc' = loc /\ entregadas' = entregadas
             \/ /\ u \in te.mano /\ E!DeleteStock(u)
                /\ entregadas' = [entregadas EXCEPT ![te.linea] = @ \cup {u}]
  BY <1>2, Zenon DEF E!Despachar
<1>3. CASE E!Fallar
  <2>1. \/ loc' = loc /\ entregadas' = entregadas
        \/ \E u \in te.mano : /\ E!DeleteStock(u)
                              /\ entregadas' = [entregadas EXCEPT ![te.linea] = @ \cup {u}]
        \/ \E u \in te.pend : /\ E!MoveStock(u, "despacho") \/ E!MoveStock(u, "espera")
                              /\ entregadas' = entregadas
    BY <1>3, Zenon DEF E!Fallar
  <2> QED BY <1>0, <2>1
<1> QED BY <1>0, <1>1, <1>2, <1>3, DeliveryMarco

LEMMA DeliveryTurnos ==
    ASSUME te \in E!Tareas, LocOK, entregadas \in [Linea -> SUBSET Unidades],
           tp.pc = "libre", tp' = tp, Turnos, EnCurso, E!Tarea \/ E!Fallar, base' = base
    PROVE  Turnos'
<1>0. hoy' = hoy /\ \A l \in Linea : Debida(l)' <=> Debida(l)
  BY DeliveryMarco DEF Debida
<1>1. CASE loc' = loc /\ entregadas' = entregadas  BY <1>0, <1>1 DEF Turnos
<1>2. ASSUME NEW u \in te.pend, E!MoveStock(u, "despacho") \/ E!MoveStock(u, "espera"),
             entregadas' = entregadas
      PROVE  Turnos'
  <2>1. \A v \in Unidades : loc'[v] = "cliente" => loc[v] = "cliente"
    BY <1>2 DEF E!MoveStock, LocOK
  <2> QED BY <1>0, <1>2, <2>1 DEF Turnos
<1>3. ASSUME te.pc = "unidad", te.linea \in Linea, NEW u \in te.mano, u \in Unidades,
             E!DeleteStock(u), entregadas' = [entregadas EXCEPT ![te.linea] = @ \cup {u}]
      PROVE  Turnos'
  <2>1. /\ te.linea \in te.prods /\ Debida(te.linea) /\ SkuDe[u] = SkuLinea[te.linea]
    BY <1>3 DEF EnCurso
  <2>2. \A v \in Unidades : v # u => loc'[v] = loc[v]
    BY <1>3 DEF E!DeleteStock, LocOK
  <2>3. /\ entregadas'[te.linea] = entregadas[te.linea] \cup {u}
        /\ \A l \in Linea : l # te.linea => entregadas'[l] = entregadas[l]
    BY <1>3
  <2>4. \A l \in Linea : entregadas[l] \subseteq entregadas'[l]  BY <2>3
  <2>5. \A l \in Linea : entregadas'[l] # {} => Debida(l)
    BY <2>1, <2>3 DEF Turnos
  <2>6. \A l \in Linea : \A v \in entregadas'[l] : SkuDe[v] = SkuLinea[l]
    BY <2>1, <2>3 DEF Turnos
  <2>7. ASSUME NEW v \in Unidades, loc'[v] = "cliente"
        PROVE  \E l \in Linea : v \in entregadas'[l]
    <3>1. CASE v = u  BY <1>3, <2>3, <3>1
    <3>2. CASE v # u  BY <2>2, <2>4, <2>7, <3>2 DEF Turnos
    <3> QED BY <3>1, <3>2
  <2> QED BY <1>0, <2>5, <2>6, <2>7 DEF Turnos
<1> QED BY <1>1, <1>2, <1>3, DeliveryMueve

-----------------------------------------------------------------------------
(* Counting units *)

\* Fewer units than some are no more of them.
LEMMA ContarMenos ==
    ASSUME NEW A \in SUBSET Unidades, NEW B \in SUBSET A
    PROVE  /\ IsFiniteSet(A) /\ IsFiniteSet(B)
           /\ Cardinality(A) \in Nat /\ Cardinality(B) \in Nat
           /\ Cardinality(B) <= Cardinality(A)
<1>1. IsFiniteSet(A)  BY FS_Subset, BodegaAssumption
<1>2. IsFiniteSet(B) /\ Cardinality(B) <= Cardinality(A)  BY <1>1, FS_Subset
<1> QED BY <1>1, <1>2, FS_CardinalityType

LEMMA ContarUnion ==
    ASSUME NEW A \in SUBSET Unidades, NEW B \in SUBSET Unidades
    PROVE  /\ Cardinality(A) \in Nat /\ Cardinality(B) \in Nat
           /\ Cardinality(A \cup B) \in Nat
           /\ Cardinality(A \cup B) <= Cardinality(A) + Cardinality(B)
           /\ A \cap B = {} => Cardinality(A \cup B) = Cardinality(A) + Cardinality(B)
<1>1. /\ IsFiniteSet(A) /\ IsFiniteSet(B) /\ IsFiniteSet(A \cap B)
      /\ Cardinality(A) \in Nat /\ Cardinality(B) \in Nat
      /\ Cardinality(A \cap B) \in Nat
  BY ContarMenos
<1>2. Cardinality(A \cup B) = Cardinality(A) + Cardinality(B) - Cardinality(A \cap B)
  BY <1>1, FS_Union
<1>3. Cardinality(A \cup B) \in Nat
  <2>1. A \cup B \in SUBSET Unidades  OBVIOUS
  <2> QED BY <2>1, ContarMenos
<1> QED BY <1>1, <1>2, <1>3, FS_EmptySet

\* A set of naturals that is not empty has a least element.
LEMMA MenorNat ==
    ASSUME NEW T \in SUBSET Nat, T # {}
    PROVE  \E m \in T : \A n \in T : m <= n
<1> DEFINE Orden == OpToRel(<, Nat)
<1>1. IsWellFoundedOn(Orden, Nat)  BY NatLessThanWellFounded
<1>2. \A x, y \in Nat : y < x => <<y, x>> \in Orden  BY DEF OpToRel
<1> HIDE DEF Orden
<1>3. T \subseteq Nat  OBVIOUS
<1>4. PICK x \in T : \A y \in T : ~(<<y, x>> \in Orden)  BY <1>1, <1>3, WFMin, Zenon
<1>5. ASSUME NEW y \in T PROVE x <= y
  <2>1. ~(y < x)  BY <1>2, <1>3, <1>4
  <2> QED BY <1>3, <2>1
<1> QED BY <1>5

\* Induction on a set of lines: a family of such sets that is not empty has a
\* member which the family does not hold without any one of its lines.
LEMMA MenorConjunto ==
    ASSUME NEW T \in SUBSET (SUBSET Linea), T # {}
    PROVE  \E K \in T : \A l \in K : K \ {l} \notin T
<1> DEFINE N == {Cardinality(K) : K \in T}
<1>0. \A K \in SUBSET Linea : IsFiniteSet(K) /\ Cardinality(K) \in Nat
  BY FS_Subset, FS_CardinalityType, Supuestos
<1>1. N \in SUBSET Nat /\ N # {}  BY <1>0
<1>2. PICK m \in N : \A n \in N : m <= n
  <2> HIDE DEF N
  <2> QED BY <1>1, MenorNat
<1>3. PICK K \in T : m = Cardinality(K)  OBVIOUS
<1>4. ASSUME NEW l \in K PROVE K \ {l} \notin T
  <2>1. Cardinality(K \ {l}) = Cardinality(K) - 1  BY <1>0, FS_RemoveElement
  <2>2. ~(m <= Cardinality(K \ {l}))  BY <1>0, <1>3, <2>1
  <2>3. Cardinality(K \ {l}) \notin N  BY <1>2, <2>2
  <2> QED BY <2>3
<1> QED BY <1>4

\* The units that a family gives some lines.
De(A, K) == UNION {A[k] : k \in K}

\* Sets that are no smaller, one by one, and that share no unit are no fewer
\* units together.
LEMMA ContarFamilias ==
    ASSUME NEW A \in [Linea -> SUBSET Unidades], NEW B \in [Linea -> SUBSET Unidades],
           NEW K \in SUBSET Linea,
           \A k \in K : Cardinality(A[k]) <= Cardinality(B[k]),
           \A k, m \in K : k # m => B[k] \cap B[m] = {}
    PROVE  Cardinality(De(A, K)) <= Cardinality(De(B, K))
<1> DEFINE Mal == {J \in SUBSET K : ~(Cardinality(De(A, J)) <= Cardinality(De(B, J)))}
<1>1. \A J \in SUBSET K : De(A, J) \in SUBSET Unidades /\ De(B, J) \in SUBSET Unidades
  BY DEF De
<1>2. ASSUME Mal # {} PROVE FALSE
  <2>1. PICK J \in Mal : \A l \in J : J \ {l} \notin Mal
    <3>1. Mal \in SUBSET (SUBSET Linea)  OBVIOUS
    <3> HIDE DEF Mal
    <3> QED BY <1>2, <3>1, MenorConjunto
  <2>2. CASE J = {}
    <3>1. De(A, J) = {} /\ De(B, J) = {}  BY <2>2 DEF De
    <3>2. ~(Cardinality(De(A, J)) <= Cardinality(De(B, J)))  BY <2>1
    <3> QED BY <3>1, <3>2, FS_EmptySet
  <2>3. ASSUME NEW l \in J PROVE FALSE
    <3> DEFINE I == J \ {l}
    <3>0. J \in SUBSET K /\ I \in SUBSET K /\ l \in K /\ l \in Linea  BY <2>3
    <3>1. Cardinality(De(A, I)) <= Cardinality(De(B, I))  BY <2>1, <2>3, <3>0
    <3>2. De(A, J) = De(A, I) \cup A[l] /\ De(B, J) = De(B, I) \cup B[l]
      BY <2>3 DEF De
    <3>3. De(B, I) \cap B[l] = {}  BY <3>0 DEF De
    <3> HIDE DEF I
    <3>4. /\ De(A, I) \in SUBSET Unidades /\ De(B, I) \in SUBSET Unidades
          /\ A[l] \in SUBSET Unidades /\ B[l] \in SUBSET Unidades
      BY <1>1, <3>0
    <3>5. /\ Cardinality(De(A, I)) \in Nat /\ Cardinality(A[l]) \in Nat
          /\ Cardinality(De(A, J)) \in Nat
          /\ Cardinality(De(A, J)) <= Cardinality(De(A, I)) + Cardinality(A[l])
      BY <3>2, <3>4, ContarUnion
    <3>6. /\ Cardinality(De(B, I)) \in Nat /\ Cardinality(B[l]) \in Nat
          /\ Cardinality(De(B, J)) = Cardinality(De(B, I)) + Cardinality(B[l])
      BY <3>2, <3>3, <3>4, ContarUnion
    <3>7. Cardinality(A[l]) <= Cardinality(B[l])  BY <3>0
    <3>8. Cardinality(De(A, J)) <= Cardinality(De(B, J))
      BY <3>1, <3>5, <3>6, <3>7
    <3> QED BY <2>1, <3>8
  <2> QED BY <2>2, <2>3
<1>3. K \notin Mal  BY <1>2
<1> QED BY <1>3

\* Delivery lists as Bodega does.
LEMMA ListadoIgual ==
    \A d, s, n : E!Stock(d, s) = Stock(d, s) /\ E!Listado(d, s, n) = Listado(d, s, n)
BY Contar DEF E!Stock, Stock, E!Listado, Listado

\* A listing with a limit is no longer than it, and as long when there is enough.
LEMMA ListadoCuenta ==
    ASSUME NEW d, NEW s, NEW n \in Nat \ {0}, NEW L \in Listado(d, s, n)
    PROVE  /\ L \in SUBSET Unidades /\ Cardinality(L) \in Nat /\ Cardinality(L) <= n
           /\ Cardinality(Stock(d, s)) >= n => Cardinality(L) = n
           /\ \A u \in L : loc[u] = d /\ SkuDe[u] = s
<1>1. Stock(d, s) \in SUBSET Unidades /\ L \in SUBSET Stock(d, s)
  BY DEF Listado, Stock
<1>2. Cardinality(L) \in Nat /\ Cardinality(Stock(d, s)) \in Nat
  BY <1>1, ContarMenos
<1>3. \/ L = Stock(d, s) /\ Cardinality(L) <= n
      \/ Cardinality(L) = n
  BY DEF Listado
<1>4. \A u \in L : loc[u] = d /\ SkuDe[u] = s  BY <1>1 DEF Stock
<1> QED BY <1>1, <1>2, <1>3, <1>4

-----------------------------------------------------------------------------
(* The units prepared for a line that has still to come are waiting *)

\* A unit prepared for a line of the product waits, or left for another line of
\* it; each of those lines got no more than was prepared for it.
LEMMA Alcanza ==
    ASSUME TypeOK, Turnos, Cota, Intactas, te.mano = {},
           NEW l \in Linea, Pendiente(l), Debida(l), Cubierta(SkuLinea[l])
    PROVE  /\ Cardinality(Stock("espera", SkuLinea[l])) >= CantLinea[l]
           /\ entregadas[l] = {}
<1> DEFINE s == SkuLinea[l]
           K == Rivales(s) \ {l}
           Q == Stock("espera", s)
<1>0. /\ prep \in [Linea -> SUBSET Unidades] /\ entregadas \in [Linea -> SUBSET Unidades]
      /\ CantLinea \in [Linea -> Nat \ {0}]
  BY Supuestos DEF TypeOK, P!TypeOK, E!TypeOK
<1>1. l \in Rivales(s) /\ K \in SUBSET Linea /\ K \in SUBSET Rivales(s) /\ l \notin K
  BY DEF Rivales
<1>2. \A k \in Rivales(s) : /\ k \in Linea /\ SkuLinea[k] = s /\ DeHoy(k)
                            /\ Cardinality(prep[k]) >= CantLinea[k]
  BY DEF Cubierta, Rivales, Completa
<1>3. entregadas[l] = {}  BY <1>1, <1>2 DEF Cota
<1>4. \A k \in K : Cardinality(entregadas[k]) <= Cardinality(prep[k])
  <2> SUFFICES ASSUME NEW k \in K
               PROVE  Cardinality(entregadas[k]) <= Cardinality(prep[k])
    OBVIOUS
  <2>1. k \in Linea /\ DeHoy(k) /\ Cardinality(prep[k]) >= CantLinea[k]
    BY <1>1, <1>2
  <2>2. Cardinality(entregadas[k]) <= CantLinea[k]  BY <2>1 DEF Cota
  <2>3. prep[k] \in SUBSET Unidades /\ entregadas[k] \in SUBSET Unidades
    BY <1>0, <2>1
  <2>4. Cardinality(prep[k]) \in Nat /\ Cardinality(entregadas[k]) \in Nat
        /\ CantLinea[k] \in Nat
    BY <1>0, <2>1, <2>3, ContarMenos
  <2> QED BY <2>1, <2>2, <2>4
<1>5. \A k, m \in Linea : k # m => prep[k] \cap prep[m] = {}  BY DEF Intactas
<1>6. Cardinality(De(entregadas, K)) <= Cardinality(De(prep, K))
  <2> HIDE DEF K
  <2> QED BY <1>0, <1>1, <1>4, <1>5, ContarFamilias
<1>7. prep[l] \cup De(prep, K) \subseteq Q \cup De(entregadas, K)
  <2> SUFFICES ASSUME NEW k \in Rivales(s), NEW u \in prep[k]
               PROVE  u \in Q \cup De(entregadas, K)
    BY <1>1 DEF De
  <2>1. u \in Unidades /\ SkuDe[u] = s /\ loc[u] \in {"espera", "despacho", "cliente"}
    BY <1>0, <1>2 DEF Intactas
  <2>2. loc[u] # "despacho"  BY <2>1 DEF Intactas
  <2>3. CASE loc[u] = "espera"  BY <2>1, <2>3 DEF Stock
  <2>4. CASE loc[u] = "cliente"
    <3>1. PICK m \in Linea : u \in entregadas[m]  BY <2>1, <2>4 DEF Turnos
    <3>2. SkuLinea[m] = s /\ Debida(m)  BY <2>1, <3>1 DEF Turnos
    <3>3. m \in K  BY <1>3, <3>1, <3>2 DEF Rivales
    <3> QED BY <3>1, <3>3 DEF De
  <2> QED BY <2>1, <2>2, <2>3, <2>4
<1>8. prep[l] \cap De(prep, K) = {}  BY <1>1, <1>5 DEF De
<1>9. /\ prep[l] \in SUBSET Unidades /\ De(prep, K) \in SUBSET Unidades
      /\ Q \in SUBSET Unidades /\ De(entregadas, K) \in SUBSET Unidades
  BY <1>0, <1>1 DEF De, Stock
<1>10. /\ Cardinality(prep[l]) >= CantLinea[l]
       /\ CantLinea[l] \in Nat
  BY <1>0, <1>1, <1>2
<1> HIDE DEF K, Q
<1>11. /\ Cardinality(prep[l] \cup De(prep, K))
              = Cardinality(prep[l]) + Cardinality(De(prep, K))
       /\ Cardinality(prep[l]) \in Nat /\ Cardinality(De(prep, K)) \in Nat
  BY <1>8, <1>9, ContarUnion
<1>12. /\ Cardinality(Q \cup De(entregadas, K)) \in Nat
       /\ Cardinality(Q \cup De(entregadas, K)) <= Cardinality(Q) + Cardinality(De(entregadas, K))
       /\ Cardinality(Q) \in Nat /\ Cardinality(De(entregadas, K)) \in Nat
  BY <1>9, ContarUnion
<1>13. Cardinality(prep[l] \cup De(prep, K)) <= Cardinality(Q \cup De(entregadas, K))
  <2>1. Q \cup De(entregadas, K) \in SUBSET Unidades  BY <1>9
  <2> QED BY <1>7, <2>1, ContarMenos
<1>14. Cardinality(Q) >= CantLinea[l]
  BY <1>6, <1>10, <1>11, <1>12, <1>13
<1> QED BY <1>3, <1>14 DEF Q

-----------------------------------------------------------------------------
(* No more than the quantity of a line is on its way *)

\* What is on its way only shrinks, once it is listed; and undisturbed it stays
\* the same.
LEMMA DeliveryEnCamino ==
    ASSUME te \in E!Tareas, entregadas \in [Linea -> SUBSET Unidades], EnCurso,
           E!Tarea \/ E!Fallar, te'.pc = "unidad"
    PROVE  \/ /\ te.pc = "unidad" /\ te'.linea = te.linea
              /\ Suyas' \subseteq Suyas
              /\ ~Rehusado => Suyas' = Suyas
           \/ \E l \in te.todo : \E L \in Listado("espera", SkuLinea[l], CantLinea[l]) :
                  /\ te.pc = "despachar" /\ l \in Linea /\ SkuLinea[l] \in te.foto
                  /\ te'.linea = l /\ te'.pend = L /\ te'.mano = {} /\ te'.todo = te.todo
                  /\ te'.prods = te.prods /\ te'.foto = te.foto /\ te.mano = {}
                  /\ entregadas' = entregadas /\ loc' = loc
<1>0. te.linea \in Linea  BY DEF E!Tareas
<1>1. ASSUME NEW u \in Unidades, E!Sacar(u)
      PROVE  te.pc = "unidad" /\ te'.linea = te.linea /\ Suyas' = Suyas
  <2>1. /\ te.pc = "unidad" /\ u \in te.pend /\ te.mano = {} /\ entregadas' = entregadas
        /\ te' = [te EXCEPT !.mano = {u}, !.pend = @ \ {u}]
    BY <1>1, Zenon DEF E!Sacar
  <2>2. te'.linea = te.linea /\ te'.pend = te.pend \ {u} /\ te'.mano = {u}
    BY <2>1 DEF E!Tareas
  <2> QED BY <2>1, <2>2 DEF Suyas
<1>2. ASSUME NEW u \in Unidades, E!Despachar(u)
      PROVE  /\ te.pc = "unidad" /\ te'.linea = te.linea
             /\ Suyas' \subseteq Suyas
             /\ ~Rehusado => Suyas' = Suyas
  <2>1. /\ u \in te.mano /\ te'.linea = te.linea /\ te'.pend = te.pend /\ te'.mano = {}
    BY <1>2 DEF E!Despachar, E!Tareas
  <2>2. te.mano = {u} /\ te.pc = "unidad"  BY <2>1 DEF EnCurso
  <2>3. CASE entregadas' = [entregadas EXCEPT ![te.linea] = @ \cup {u}]
    <3>1. entregadas'[te.linea] = entregadas[te.linea] \cup {u}  BY <1>0, <2>3
    <3>2. Suyas' = Suyas  BY <2>1, <2>2, <3>1 DEF Suyas
    <3> QED BY <2>1, <2>2, <3>2
  <2>4. CASE loc' = loc /\ entregadas' = entregadas
    <3>1. Rehusado  BY <2>1, <2>2, <2>4 DEF Rehusado
    <3>2. Suyas' \subseteq Suyas  BY <2>1, <2>4 DEF Suyas
    <3> QED BY <2>1, <2>2, <3>1, <3>2
  <2>5. \/ entregadas' = [entregadas EXCEPT ![te.linea] = @ \cup {u}]
        \/ loc' = loc /\ entregadas' = entregadas
    BY <1>2, Zenon DEF E!Despachar
  <2> QED BY <2>3, <2>4, <2>5
<1>3. ASSUME NEW l \in Linea, E!ListarEspera(l)
      PROVE  \E L \in Listado("espera", SkuLinea[l], CantLinea[l]) :
                 /\ te.pc = "despachar" /\ l \in te.todo /\ SkuLinea[l] \in te.foto
                 /\ te'.linea = l /\ te'.pend = L /\ te'.mano = {} /\ te'.todo = te.todo
                 /\ te'.prods = te.prods /\ te'.foto = te.foto /\ te.mano = {}
                 /\ entregadas' = entregadas /\ loc' = loc
  <2>1. PICK L \in E!Listado("espera", SkuLinea[l], E!Limite(l)) :
            te' = [te EXCEPT !.pc = "unidad", !.linea = l, !.pend = L]
    BY <1>3, Zenon DEF E!ListarEspera
  <2>2. /\ te.pc = "despachar" /\ l \in te.todo /\ SkuLinea[l] \in te.foto
        /\ entregadas' = entregadas /\ loc' = loc
    BY <1>3, Zenon DEF E!ListarEspera
  <2>3. /\ te'.linea = l /\ te'.pend = L /\ te'.mano = te.mano /\ te'.todo = te.todo
        /\ te'.prods = te.prods /\ te'.foto = te.foto
    BY <2>1 DEF E!Tareas
  <2>4. te.mano = {}  BY <2>2 DEF EnCurso
  <2>5. L \in Listado("espera", SkuLinea[l], CantLinea[l])
    BY ListadoIgual DEF E!Limite
  <2> QED BY <2>2, <2>3, <2>4, <2>5
<1>4. ASSUME E!Iniciar \/ E!Terminar \/ E!Fallar \/ E!ArchivoListo PROVE FALSE
  <2>1. te'.pc \in {"archivo", "libre"}
    <3>1. CASE E!Iniciar \/ E!ArchivoListo
      BY <3>1, Zenon DEF E!Iniciar, E!ArchivoListo, E!Ocioso
    <3>2. CASE E!Terminar \/ E!Fallar  BY <3>2 DEF E!Terminar, E!Fallar, E!Ocioso
    <3> QED BY <1>4, <3>1, <3>2
  <2> QED BY <2>1
<1>5. ASSUME NEW g \in Archivo, E!Abrir(g) PROVE FALSE
  BY <1>5 DEF E!Abrir, E!Tareas
<1>6. ASSUME NEW l \in Linea, E!NoEnEspera(l) \/ E!CerrarLinea(l) PROVE FALSE
  BY <1>6 DEF E!NoEnEspera, E!CerrarLinea, E!Tareas
<1>7. ASSUME NEW u \in Unidades, E!Reponer(u) PROVE FALSE
  BY <1>7 DEF E!Reponer, E!Tareas
<1>8. ASSUME \/ E!EmpezarDespacho \/ E!LineaDespachada \/ E!DespacharListo \/ E!Anotar
             \/ E!Reportar \/ E!Repuesta
      PROVE  FALSE
  BY <1>8 DEF E!EmpezarDespacho, E!LineaDespachada, E!DespacharListo, E!Anotar,
     E!Reportar, E!Repuesta, E!Tareas
<1> QED
  BY <1>1, <1>2, <1>3, <1>4, <1>5, <1>6, <1>7, <1>8 DEF E!Tarea

LEMMA DeliveryCota ==
    ASSUME te \in E!Tareas, te' \in E!Tareas, entregadas \in [Linea -> SUBSET Unidades],
           entregadas' \in [Linea -> SUBSET Unidades],
           EnCurso, Cota, E!Tarea \/ E!Fallar, base' = base
    PROVE  Cota'
<1>0. /\ te.linea \in Linea /\ te'.linea \in Linea
      /\ te.pend \in SUBSET Unidades /\ te.mano \in SUBSET Unidades
      /\ \A l \in Linea : CantLinea[l] \in Nat \ {0}
  BY Supuestos DEF E!Tareas
<1>1. \A l \in Linea : DeHoy(l)' <=> DeHoy(l)  BY DeliveryMarco DEF DeHoy
<1>2. \A l \in Linea : Pendiente(l)' => Pendiente(l)  BY DeliveryEnCurso
\* The line at hand is behind the task.
<1>3. te.pc = "unidad" => ~Pendiente(te.linea)
  <2> SUFFICES ASSUME te.pc = "unidad" PROVE ~Pendiente(te.linea)  OBVIOUS
  <2>1. corrio /\ ArchivoDe[te.linea] = te.f  BY DEF EnCurso
  <2> QED BY <2>1 DEF Pendiente, EnVuelo
<1>4. Suyas \in SUBSET Unidades  BY <1>0 DEF Suyas
<1>5. ASSUME NEW l \in Linea, DeHoy(l)
      PROVE  /\ Pendiente(l)' => entregadas'[l] = {}
             /\ Cardinality(entregadas'[l]) <= CantLinea[l]
  <2>1. CASE entregadas'[l] = entregadas[l]  BY <1>2, <1>5, <2>1 DEF Cota
  <2>2. CASE entregadas'[l] # entregadas[l]
    <3>1. PICK u \in te.mano : /\ te.pc = "unidad"
                               /\ entregadas' = [entregadas EXCEPT ![te.linea] = @ \cup {u}]
      BY <2>2, DeliveryMueve
    <3>2. l = te.linea /\ entregadas'[l] = entregadas[l] \cup {u}
      BY <1>0, <2>2, <3>1
    <3>3. entregadas'[l] \in SUBSET Suyas  BY <3>2 DEF Suyas
    <3>4. Cardinality(Suyas) <= CantLinea[l]  BY <1>5, <3>1, <3>2 DEF Cota
    <3>5. /\ Cardinality(Suyas) \in Nat /\ Cardinality(entregadas'[l]) \in Nat
          /\ Cardinality(entregadas'[l]) <= Cardinality(Suyas)
      BY <1>4, <3>3, ContarMenos
    <3>6. ~Pendiente(l)'  BY <1>2, <1>3, <3>1, <3>2
    <3> QED BY <1>0, <3>4, <3>5, <3>6
  <2> QED BY <2>1, <2>2
<1>6. ASSUME te'.pc = "unidad", DeHoy(te'.linea)
      PROVE  Cardinality(Suyas') <= CantLinea[te'.linea]
  <2>1. CASE te.pc = "unidad" /\ te'.linea = te.linea /\ Suyas' \subseteq Suyas
    <3>1. Cardinality(Suyas) <= CantLinea[te'.linea]  BY <1>6, <2>1 DEF Cota
    <3>2. /\ Cardinality(Suyas) \in Nat /\ Cardinality(Suyas') \in Nat
          /\ Cardinality(Suyas') <= Cardinality(Suyas)
      BY <1>4, <2>1, ContarMenos
    <3> QED BY <1>0, <3>1, <3>2
  <2>2. ASSUME NEW l \in te.todo, NEW L \in Listado("espera", SkuLinea[l], CantLinea[l]),
               te.pc = "despachar", l \in Linea, te'.linea = l, te'.pend = L,
               te'.mano = {}, entregadas' = entregadas
        PROVE  Cardinality(Suyas') <= CantLinea[te'.linea]
    <3>1. entregadas[l] = {}  BY <1>6, <2>2 DEF Cota, Pendiente
    <3>2. Suyas' = L  BY <2>2, <3>1 DEF Suyas
    <3>3. Cardinality(L) <= CantLinea[l]  BY <1>0, <2>2, ListadoCuenta
    <3> QED BY <2>2, <3>2, <3>3
  <2> QED BY <1>6, <2>1, <2>2, DeliveryEnCamino
<1> QED BY <1>0, <1>1, <1>5, <1>6 DEF Cota

-----------------------------------------------------------------------------
(* Undisturbed, delivery finds the units where main left them *)

\* The unit of a line is moved from the waiting depot to the dispatch depot and
\* leaves, one at a time; those that fill up the waiting depot come from the
\* main one, where none that was prepared is.
LEMMA DeliveryIntactas ==
    ASSUME te \in E!Tareas, LocOK, prep \in [Linea -> SUBSET Unidades],
           tp.pc = "libre", tp' = tp, prep' = prep, EnCurso, Intactas, E!Tarea, ~Rehusado
    PROVE  Intactas'
<1>0. /\ te.pend \in SUBSET Unidades /\ te.mano \in SUBSET Unidades
      /\ loc \in [Unidades -> Lugares]
      /\ \A l \in Linea : prep[l] \in SUBSET Unidades
  BY DEF E!Tareas, LocOK
<1>1. ASSUME loc' = loc, te.mano = {}, te'.mano = {},
             te'.pc = "unidad" => \A u \in te'.pend : loc[u] = "espera",
             te'.pc = "reponer" => \A u \in te'.pend : loc[u] = "principal"
      PROVE  Intactas'
  BY <1>1 DEF Intactas
<1>2. ASSUME NEW u \in te.pend, E!MoveStock(u, "despacho"), te.pc = "unidad", te.mano = {},
             te'.pc = te.pc, te'.mano = {u}, te'.pend = te.pend \ {u}
      PROVE  Intactas'
  <2>1. loc' = [loc EXCEPT ![u] = "despacho"] /\ u \in Unidades
    BY <1>0, <1>2 DEF E!MoveStock
  <2>2. loc'[u] = "despacho" /\ \A v \in Unidades : v # u => loc'[v] = loc[v]
    BY <1>0, <2>1
  <2>3. \A l \in Linea : \A v \in prep[l] : loc'[v] \in {"espera", "despacho", "cliente"}
    BY <1>0, <2>2 DEF Intactas
  <2>4. \A v \in Unidades : loc'[v] = "despacho" => v = u
    BY <1>2, <2>2 DEF Intactas
  <2>5. \A v \in te'.pend : loc'[v] = "espera"
    BY <1>0, <1>2, <2>2 DEF Intactas
  <2> QED BY <1>2, <2>2, <2>3, <2>4, <2>5 DEF Intactas
<1>3. ASSUME NEW u \in te.mano, E!DeleteStock(u), te.pc = "unidad",
             te'.pc = te.pc, te'.mano = {}, te'.pend = te.pend
      PROVE  Intactas'
  <2>1. loc' = [loc EXCEPT ![u] = "cliente"] /\ u \in Unidades /\ loc[u] = "despacho"
    BY <1>0, <1>3 DEF E!DeleteStock
  <2>2. loc'[u] = "cliente" /\ \A v \in Unidades : v # u => loc'[v] = loc[v]
    BY <1>0, <2>1
  <2>3. \A l \in Linea : \A v \in prep[l] : loc'[v] \in {"espera", "despacho", "cliente"}
    BY <1>0, <2>2 DEF Intactas
  <2>4. \A v \in te.mano : v = u  BY DEF EnCurso
  <2>5. \A v \in Unidades : loc'[v] # "despacho"
    BY <2>2, <2>4 DEF Intactas
  <2>6. \A v \in te.pend : loc'[v] = "espera"
    BY <1>0, <1>3, <2>1, <2>2 DEF Intactas
  <2> QED BY <1>3, <2>3, <2>5, <2>6 DEF Intactas
<1>4. ASSUME NEW u \in te.pend, E!MoveStock(u, "espera"), te.pc = "reponer", te.mano = {},
             te'.pc = te.pc, te'.mano = {}, te'.pend = te.pend \ {u}
      PROVE  Intactas'
  <2>1. loc' = [loc EXCEPT ![u] = "espera"] /\ u \in Unidades
    BY <1>0, <1>4 DEF E!MoveStock
  <2>2. loc'[u] = "espera" /\ \A v \in Unidades : v # u => loc'[v] = loc[v]
    BY <1>0, <2>1
  <2>3. \A l \in Linea : \A v \in prep[l] : loc'[v] \in {"espera", "despacho", "cliente"}
    BY <1>0, <2>2 DEF Intactas
  <2>4. \A v \in Unidades : loc'[v] # "despacho"
    BY <1>4, <2>2 DEF Intactas
  <2>5. \A v \in te'.pend : loc'[v] = "principal"
    BY <1>0, <1>4, <2>2 DEF Intactas
  <2> QED BY <1>4, <2>3, <2>4, <2>5 DEF Intactas
<1>5. ASSUME te'.mano = {}, te'.pc \notin {"unidad", "reponer"}, loc' = loc, te.mano = {}
      PROVE  Intactas'
  BY <1>1, <1>5
<1>a. E!Ocioso.mano = {} /\ E!Ocioso \in E!Tareas /\ E!Ocioso.pc = "libre"
  BY DeliveryOcioso, Zenon DEF E!Ocioso
<1>6. CASE E!Iniciar \/ E!Terminar \/ E!ArchivoListo
  <2>1. /\ te.pc \in {"libre", "archivo", "cerrar"} /\ loc' = loc
        /\ \/ te' = E!Ocioso
           \/ \E c : te' = [E!Ocioso EXCEPT !.pc = "archivo", !.cola = c]
    BY <1>6, Zenon DEF E!Iniciar, E!Terminar, E!ArchivoListo
  <2>2. te'.mano = {} /\ te'.pc \in {"libre", "archivo"}
    BY <1>a, <2>1 DEF E!Tareas
  <2> QED BY <1>5, <2>1, <2>2 DEF EnCurso
<1>7. ASSUME NEW g \in Archivo, E!Abrir(g) PROVE Intactas'
  <2>1. te.pc = "archivo" /\ loc' = loc /\ te'.mano = te.mano /\ te'.pc \in {"archivo", "crm"}
    BY <1>7 DEF E!Abrir, E!Tareas
  <2> QED BY <1>5, <2>1 DEF EnCurso
<1>8. CASE E!EmpezarDespacho \/ E!DespacharListo \/ E!Anotar \/ E!Reportar \/ E!Repuesta
  <2>1. /\ te.pc \in {"crm", "despachar", "anotar", "reportar", "reponer"}
        /\ loc' = loc /\ te'.mano = te.mano /\ te'.pc \in {"despachar", "cerrar", "reportar"}
    <3>1. CASE E!EmpezarDespacho  BY <3>1 DEF E!EmpezarDespacho, E!Tareas
    <3>2. CASE E!DespacharListo \/ E!Anotar
      BY <3>2 DEF E!DespacharListo, E!Anotar, E!Tareas
    <3>3. CASE E!Reportar \/ E!Repuesta  BY <3>3 DEF E!Reportar, E!Repuesta, E!Tareas
    <3> QED BY <1>8, <3>1, <3>2, <3>3
  <2> QED BY <1>5, <2>1 DEF EnCurso
<1>9. CASE E!LineaDespachada
  <2>1. loc' = loc /\ te.mano = {} /\ te'.mano = te.mano /\ te'.pc = "despachar"
    BY <1>9 DEF E!LineaDespachada, E!Tareas
  <2> QED BY <1>5, <2>1
<1>10. ASSUME NEW l \in Linea, E!NoEnEspera(l) PROVE Intactas'
  <2>1. loc' = loc /\ te.pc = "despachar" /\ te'.mano = te.mano /\ te'.pc = "despachar"
    BY <1>10 DEF E!NoEnEspera, E!Tareas
  <2> QED BY <1>5, <2>1 DEF EnCurso
<1>11. ASSUME NEW l \in Linea, E!ListarEspera(l) PROVE Intactas'
  <2>1. PICK L \in E!Listado("espera", SkuLinea[l], E!Limite(l)) :
            te' = [te EXCEPT !.pc = "unidad", !.linea = l, !.pend = L]
    BY <1>11, Zenon DEF E!ListarEspera
  <2>2. \A u \in L : loc[u] = "espera"  BY DEF E!Listado, E!Stock
  <2>3. te'.pc = "unidad" /\ te'.pend = L /\ te'.mano = te.mano
    BY <2>1 DEF E!Tareas
  <2>4. loc' = loc /\ te.pc = "despachar"  BY <1>11, Zenon DEF E!ListarEspera
  <2> QED BY <1>1, <2>2, <2>3, <2>4 DEF EnCurso
<1>12. ASSUME NEW l \in Linea, E!CerrarLinea(l) PROVE Intactas'
  <2>1. loc' = loc /\ te.pc = "cerrar"  BY <1>12, Zenon DEF E!CerrarLinea
  <2>2. te.mano = {}  BY <2>1 DEF EnCurso
  <2>3. CASE te' = [te EXCEPT !.pc = "anotar", !.linea = l]
    <3>1. te'.pc = "anotar" /\ te'.mano = te.mano  BY <2>3 DEF E!Tareas
    <3> QED BY <1>5, <2>1, <2>2, <3>1
  <2>4. ASSUME NEW L \in E!Listado("principal", SkuLinea[l], CantLinea[l]),
               te' = [te EXCEPT !.pc = "reponer", !.linea = l, !.pend = L]
        PROVE  Intactas'
    <3>1. \A u \in L : loc[u] = "principal"  BY DEF E!Listado, E!Stock
    <3>2. te'.pc = "reponer" /\ te'.pend = L /\ te'.mano = te.mano
      BY <2>4 DEF E!Tareas
    <3> QED BY <1>1, <2>1, <2>2, <3>1, <3>2
  <2> QED BY <1>12, <2>3, <2>4, Zenon DEF E!CerrarLinea
<1>13. ASSUME NEW u \in Unidades, E!Sacar(u) PROVE Intactas'
  <2>1. /\ te.pc = "unidad" /\ te.mano = {} /\ u \in te.pend
        /\ E!MoveStock(u, "despacho") \/ loc' = loc
        /\ te' = [te EXCEPT !.mano = {u}, !.pend = @ \ {u}]
    BY <1>13, Zenon DEF E!Sacar
  <2>2. te'.pc = te.pc /\ te'.mano = {u} /\ te'.pend = te.pend \ {u}
    BY <2>1 DEF E!Tareas
  <2>3. loc' # loc  BY <2>1, <2>2 DEF Rehusado
  <2> QED BY <1>2, <2>1, <2>2, <2>3
<1>14. ASSUME NEW u \in Unidades, E!Despachar(u) PROVE Intactas'
  <2>1. /\ u \in te.mano /\ (E!DeleteStock(u) \/ loc' = loc)
        /\ te'.pc = te.pc /\ te'.mano = {} /\ te'.pend = te.pend
    BY <1>14 DEF E!Despachar, E!Tareas
  <2>2. loc' # loc  BY <2>1 DEF Rehusado
  <2> QED BY <1>3, <2>1, <2>2 DEF EnCurso
<1>15. ASSUME NEW u \in Unidades, E!Reponer(u) PROVE Intactas'
  <2>1. /\ te.pc = "reponer" /\ u \in te.pend
        /\ \/ E!MoveStock(u, "espera") /\ te' = [te EXCEPT !.pend = @ \ {u}]
           \/ loc' = loc /\ te' = [te EXCEPT !.pend = {}]
    BY <1>15, Zenon DEF E!Reponer
  <2>2. te.mano = {}  BY <2>1 DEF EnCurso
  <2>3. CASE E!MoveStock(u, "espera") /\ te' = [te EXCEPT !.pend = @ \ {u}]
    <3>1. te'.pc = te.pc /\ te'.mano = te.mano /\ te'.pend = te.pend \ {u}
      BY <2>3 DEF E!Tareas
    <3> QED BY <1>4, <2>1, <2>2, <2>3, <3>1
  <2>4. CASE loc' = loc /\ te' = [te EXCEPT !.pend = {}]
    <3>1. te'.pend = {}  BY <2>4 DEF E!Tareas
    <3> QED BY <2>1, <2>4, <3>1 DEF Rehusado
  <2> QED BY <2>1, <2>3, <2>4
<1> QED
  BY <1>6, <1>7, <1>8, <1>9, <1>10, <1>11, <1>12, <1>13, <1>14, <1>15 DEF E!Tarea

-----------------------------------------------------------------------------
(* Undisturbed, a covered line gets its quantity *)

LEMMA DeliveryEntera ==
    ASSUME TypeOK, Turnos, EnCurso, Cota, Intactas, Entera,
           E!Tarea, ~Rehusado, base' = base, prep' = prep
    PROVE  Entera'
<1>0. /\ te \in E!Tareas /\ entregadas \in [Linea -> SUBSET Unidades]
      /\ te.linea \in Linea /\ te.prods \subseteq Linea
      /\ \A l \in Linea : SkuLinea[l] \in Skus /\ CantLinea[l] \in Nat \ {0}
  BY Supuestos DEF TypeOK, E!TypeOK, E!Tareas
<1>1. \A s : Cubierta(s)' <=> Cubierta(s)
  <2>1. hoy' = hoy  BY DeliveryMarco
  <2> QED BY <2>1 DEF Cubierta, Rivales, Debida, DeHoy, Completa
<1>a. E!Ocioso \in E!Tareas /\ E!Ocioso.pc = "libre"
  BY DeliveryOcioso, Zenon DEF E!Ocioso
\* Away from the lines there is nothing to show.
<1>2. ASSUME te'.pc \in {"libre", "archivo", "crm"} PROVE Entera'
  BY <1>2 DEF Entera, EnVuelo
<1>3. CASE E!Iniciar \/ E!Terminar \/ E!ArchivoListo
  <2>1. \/ te' = E!Ocioso
        \/ \E c : te' = [E!Ocioso EXCEPT !.pc = "archivo", !.cola = c]
    BY <1>3, Zenon DEF E!Iniciar, E!Terminar, E!ArchivoListo
  <2>2. te'.pc \in {"libre", "archivo"}  BY <1>a, <2>1 DEF E!Tareas
  <2> QED BY <1>2, <2>2
<1>4. ASSUME NEW g \in Archivo, E!Abrir(g) PROVE Entera'
  <2>1. te'.pc \in {"archivo", "crm"}  BY <1>0, <1>4 DEF E!Abrir, E!Tareas
  <2> QED BY <1>2, <2>1
<1>5. CASE E!EmpezarDespacho
  <2>1. /\ te.pc = "crm" /\ te'.pc = "despachar"
        /\ te'.todo = te.prods /\ te'.prods = te.prods
        /\ te'.foto = {s \in Skus : Stock("espera", s) # {}}
    BY <1>0, <1>5, ListadoIgual DEF E!EmpezarDespacho, E!Tareas
  <2>2. ASSUME NEW l \in te'.todo, Cubierta(SkuLinea[l]) PROVE SkuLinea[l] \in te'.foto
    <3>1. l \in Linea /\ Debida(l) /\ Pendiente(l) /\ te.mano = {}
      BY <1>0, <2>1 DEF EnCurso, Pendiente
    <3>2. Cardinality(Stock("espera", SkuLinea[l])) >= CantLinea[l]
      BY <2>2, <3>1, Alcanza
    <3>3. Stock("espera", SkuLinea[l]) # {}
      <4>1. CantLinea[l] \in Nat \ {0}  BY <1>0, <3>1
      <4>2. CantLinea[l] > 0  BY <4>1
      <4> QED BY <3>2, <4>1, <4>2, FS_EmptySet
    <3> QED BY <1>0, <2>1, <3>1, <3>3
  <2>3. Hechas' = {}  BY <2>1 DEF Hechas
  <2> QED BY <1>1, <2>1, <2>2, <2>3 DEF Entera
<1>6. ASSUME NEW l \in Linea, E!NoEnEspera(l) PROVE Entera'
  <2>1. /\ te.pc = "despachar" /\ te'.pc = "despachar" /\ l \in te.todo
        /\ SkuLinea[l] \notin te.foto /\ te'.todo = te.todo \ {l} /\ te'.prods = te.prods
        /\ te'.foto = te.foto /\ entregadas' = entregadas
    BY <1>0, <1>6 DEF E!NoEnEspera, E!Tareas
  <2>2. ~Cubierta(SkuLinea[l])  BY <2>1 DEF Entera
  <2>3. Hechas' \subseteq Hechas \cup {l}  BY <2>1 DEF Hechas
  <2> QED BY <1>1, <2>1, <2>2, <2>3 DEF Entera, EnVuelo
<1>7. ASSUME te'.pc = "unidad" PROVE Entera'
  <2>1. CASE te.pc = "unidad" /\ te'.linea = te.linea
    <3>1. Suyas' = Suyas
      BY <1>0, <1>7, <2>1, DeliveryEnCamino
    <3>2. /\ te'.todo = te.todo /\ te'.prods = te.prods /\ te'.foto = te.foto
          /\ \A k \in Linea : k # te.linea => entregadas'[k] = entregadas[k]
      <4>1. PICK u \in Unidades : E!Sacar(u) \/ E!Despachar(u)
        <5>1. ~E!LineaDespachada  BY <1>0, <1>7 DEF E!LineaDespachada, E!Tareas
        <5>2. \E u \in Unidades : E!Sacar(u) \/ E!Despachar(u)
          BY <1>3, <2>1, <5>1
          DEF E!Tarea, E!Iniciar, E!Terminar, E!ArchivoListo, E!Abrir, E!EmpezarDespacho,
              E!ListarEspera, E!NoEnEspera, E!CerrarLinea, E!Reponer, E!DespacharListo,
              E!Anotar, E!Reportar, E!Repuesta
        <5> QED BY <5>2
      <4>2. CASE E!Sacar(u)
        <5>1. /\ te' = [te EXCEPT !.mano = {u}, !.pend = @ \ {u}]
              /\ entregadas' = entregadas
          BY <4>2, Zenon DEF E!Sacar
        <5> QED BY <1>0, <5>1 DEF E!Tareas
      <4>3. CASE E!Despachar(u)  BY <1>0, <4>3 DEF E!Despachar, E!Tareas
      <4> QED BY <4>1, <4>2, <4>3
    <3>3. Hechas' = Hechas /\ te.linea \notin Hechas
      BY <1>7, <2>1, <3>2 DEF Hechas, EnCurso
    <3>4. Hechas \subseteq Linea  BY <1>0 DEF Hechas
    <3> QED BY <1>1, <1>7, <2>1, <3>1, <3>2, <3>3, <3>4 DEF Entera, EnVuelo
  <2>2. ASSUME NEW l \in te.todo, NEW L \in Listado("espera", SkuLinea[l], CantLinea[l]),
               te.pc = "despachar", l \in Linea, te'.linea = l, te'.pend = L,
               te'.mano = {}, te'.todo = te.todo, te'.prods = te.prods,
               te'.foto = te.foto, te.mano = {}, entregadas' = entregadas
        PROVE  Entera'
    <3>1. ASSUME Cubierta(SkuLinea[l]) PROVE Cardinality(Suyas') = CantLinea[l]
      <4>1. Debida(l) /\ Pendiente(l)  BY <2>2 DEF EnCurso, Pendiente
      <4>2. /\ Cardinality(Stock("espera", SkuLinea[l])) >= CantLinea[l]
            /\ entregadas[l] = {}
        BY <2>2, <3>1, <4>1, Alcanza
      <4>3. Suyas' = L  BY <2>2, <4>2 DEF Suyas
      <4>4. Cardinality(L) = CantLinea[l]  BY <1>0, <2>2, <4>2, ListadoCuenta
      <4> QED BY <4>3, <4>4
    <3>2. Hechas' = Hechas  BY <1>7, <2>2 DEF Hechas
    <3> QED BY <1>1, <1>7, <2>2, <3>1, <3>2 DEF Entera, EnVuelo
  <2> QED BY <1>0, <1>7, <2>1, <2>2, DeliveryEnCamino
<1>8. CASE E!LineaDespachada
  <2>1. /\ te.pc = "unidad" /\ te'.pc = "despachar" /\ te.mano = {} /\ te.pend = {}
        /\ te'.todo = te.todo \ {te.linea} /\ te'.prods = te.prods
        /\ te'.foto = te.foto /\ entregadas' = entregadas
    BY <1>0, <1>8 DEF E!LineaDespachada, E!Tareas
  <2>2. Suyas = entregadas[te.linea]  BY <2>1 DEF Suyas
  <2>3. Hechas' \subseteq Hechas \cup {te.linea}  BY <2>1 DEF Hechas
  <2> QED BY <1>1, <2>1, <2>2, <2>3 DEF Entera, EnVuelo
\* The lines are done.
<1>9. ASSUME te.pc \in EnVuelo, te'.pc \in EnVuelo \ {"despachar", "unidad"},
             Hechas = te.prods, te'.prods = te.prods, entregadas' = entregadas
      PROVE  Entera'
  <2>1. Hechas' = te.prods  BY <1>9 DEF Hechas
  <2> QED BY <1>1, <1>9, <2>1 DEF Entera
<1>10. CASE E!DespacharListo
  <2>1. /\ te.pc = "despachar" /\ te.todo = {} /\ te'.pc = "cerrar"
        /\ te'.prods = te.prods /\ entregadas' = entregadas
    BY <1>0, <1>10 DEF E!DespacharListo, E!Tareas
  <2> QED BY <1>9, <2>1 DEF Hechas, EnVuelo
<1>11. CASE E!Anotar \/ E!Reportar \/ E!Repuesta
  <2>1. /\ te.pc \in {"anotar", "reportar", "reponer"} /\ te'.pc \in {"cerrar", "reportar"}
        /\ te'.prods = te.prods /\ entregadas' = entregadas
    BY <1>0, <1>11 DEF E!Anotar, E!Reportar, E!Repuesta, E!Tareas
  <2> QED BY <1>9, <2>1 DEF Hechas, EnVuelo
<1>12. ASSUME NEW l \in Linea, E!CerrarLinea(l) PROVE Entera'
  <2>1. /\ te.pc = "cerrar" /\ te'.pc \in {"anotar", "reponer"}
        /\ te'.prods = te.prods /\ entregadas' = entregadas
    BY <1>0, <1>12 DEF E!CerrarLinea, E!Tareas
  <2> QED BY <1>9, <2>1 DEF Hechas, EnVuelo
<1>13. ASSUME NEW u \in Unidades, E!Reponer(u) PROVE Entera'
  <2>1. /\ te.pc = "reponer" /\ te'.pc = "reponer"
        /\ te'.prods = te.prods /\ entregadas' = entregadas
    BY <1>0, <1>13 DEF E!Reponer, E!Tareas
  <2> QED BY <1>9, <2>1 DEF Hechas, EnVuelo
<1>14. ASSUME NEW l \in Linea, E!ListarEspera(l) PROVE te'.pc = "unidad"
  BY <1>0, <1>14 DEF E!ListarEspera, E!Tareas
<1>15. ASSUME NEW u \in Unidades, E!Sacar(u) PROVE te'.pc = "unidad"
  <2>1. te.pc = "unidad" /\ te' = [te EXCEPT !.mano = {u}, !.pend = @ \ {u}]
    BY <1>15, Zenon DEF E!Sacar
  <2> QED BY <1>0, <2>1 DEF E!Tareas
<1>16. ASSUME NEW u \in Unidades, E!Despachar(u) PROVE te'.pc = "unidad"
  <2>1. u \in te.mano /\ te'.pc = te.pc  BY <1>0, <1>16 DEF E!Despachar, E!Tareas
  <2> QED BY <2>1 DEF EnCurso
<1> QED
  BY <1>3, <1>4, <1>5, <1>6, <1>7, <1>8, <1>10, <1>11, <1>12, <1>13, <1>14, <1>15, <1>16
  DEF E!Tarea

-----------------------------------------------------------------------------
(* Undisturbed, main leaves a unit that it prepared where it is *)

\* Main takes units from other groups, from the reception depot and, listed for
\* the line at hand, from the main depot; one it prepared is in none of these.
LEMMA MainIntactas ==
    ASSUME tp \in P!Tareas, LocOK, prep \in [Linea -> SUBSET Unidades],
           te.pc = "libre", te' = te, Intactas, P!Tarea, ~Rehusado
    PROVE  Intactas'
<1>0. /\ tp.pend \in SUBSET Unidades /\ tp.linea \in Linea
      /\ loc \in [Unidades -> Lugares]
      /\ \A l \in Linea : prep[l] \in SUBSET Unidades
  BY DEF P!Tareas, LocOK
<1>1. ASSUME loc' = loc, prep' = prep,
             tp'.pc = "recibir" => \A u \in tp'.pend : loc[u] = "recepcion",
             tp'.pc = "mover" => \A u \in tp'.pend :
                                     loc[u] = "principal" /\ SkuDe[u] = SkuLinea[tp'.linea]
      PROVE  Intactas'
  BY <1>1 DEF Intactas
<1>2. ASSUME tp'.pc \notin {"recibir", "mover"}, loc' = loc, prep' = prep PROVE Intactas'
  BY <1>1, <1>2
<1>a. P!Ocioso \in P!Tareas /\ P!Ocioso.pc = "libre"
  BY MainSinTarea, Zenon DEF P!Ocioso
<1>3. CASE P!Iniciar \/ P!Terminar \/ P!Resumir
  <2>1. /\ loc' = loc /\ prep' = prep
        /\ \/ tp' = P!Ocioso
           \/ \E c : tp' = [P!Ocioso EXCEPT !.pc = "archivo", !.cola = c]
    BY <1>3, Zenon DEF P!Iniciar, P!Terminar, P!Resumir
  <2>2. tp'.pc \in {"libre", "archivo"}  BY <1>a, <2>1 DEF P!Tareas
  <2> QED BY <1>2, <2>1, <2>2
<1>4. ASSUME NEW g \in Archivo, P!Abrir(g) PROVE Intactas'
  <2>1. tp'.pc = "revisar" /\ loc' = loc /\ prep' = prep  BY <1>4 DEF P!Abrir, P!Tareas
  <2> QED BY <1>2, <2>1
<1>5. ASSUME NEW l \in Linea, P!RevisarReservas(l) \/ P!RevisarFalta(l) PROVE Intactas'
  <2>1. tp'.pc \in {"revisar", "socios"} /\ loc' = loc /\ prep' = prep
    BY <1>5 DEF P!RevisarReservas, P!RevisarFalta, P!Tareas
  <2> QED BY <1>2, <2>1
<1>6. CASE P!PedirASocio
  <2>1. PICK D \in SUBSET P!Stock("ajeno", SkuLinea[tp.linea]), d \in {"recepcion", "pulmon"} :
            loc' = [u \in Unidades |-> IF u \in D THEN d ELSE loc[u]]
    BY <1>6, Zenon DEF P!PedirASocio
  <2>2. tp'.pc = "socios" /\ prep' = prep  BY <1>6 DEF P!PedirASocio, P!Tareas
  <2>a. \A u \in D : loc[u] = "ajeno"  BY DEF P!Stock
  <2>3. \A u \in Unidades :
            loc'[u] # loc[u] => loc[u] = "ajeno" /\ loc'[u] \in {"recepcion", "pulmon"}
    BY <2>1, <2>a
  <2>4. \A l \in Linea : \A u \in prep[l] : loc'[u] = loc[u]
    BY <1>0, <2>3 DEF Intactas
  <2>5. \A u \in Unidades : loc'[u] = "despacho" => loc[u] = "despacho"
    BY <2>3
  <2> QED BY <2>2, <2>4, <2>5 DEF Intactas
<1>7. CASE P!ListarRecepcion
  <2>1. PICK L \in P!Listado("recepcion", SkuLinea[tp.linea], P!cantRecibida) :
            tp' = [tp EXCEPT !.pc = "recibir", !.pend = L]
    BY <1>7, Zenon DEF P!ListarRecepcion
  <2>2. \A u \in L : loc[u] = "recepcion"  BY DEF P!Listado, P!Stock
  <2>3. tp'.pc = "recibir" /\ tp'.pend = L  BY <2>1 DEF P!Tareas
  <2>4. loc' = loc /\ prep' = prep  BY <1>7, Zenon DEF P!ListarRecepcion
  <2> QED BY <1>1, <2>2, <2>3, <2>4
<1>8. ASSUME NEW l \in Linea, P!ListarPrincipal(l) PROVE Intactas'
  <2>1. PICK L \in P!Listado("principal", SkuLinea[l], P!cantProdPrincipal(l)) :
            tp' = [tp EXCEPT !.pc = "mover", !.linea = l, !.pend = L]
    BY <1>8, Zenon DEF P!ListarPrincipal
  <2>2. \A u \in L : loc[u] = "principal" /\ SkuDe[u] = SkuLinea[l]
    BY DEF P!Listado, P!Stock
  <2>3. tp'.pc = "mover" /\ tp'.pend = L /\ tp'.linea = l  BY <2>1 DEF P!Tareas
  <2>4. loc' = loc /\ prep' = prep  BY <1>8, Zenon DEF P!ListarPrincipal
  <2> QED BY <1>1, <2>2, <2>3, <2>4
<1>9. ASSUME NEW u \in Unidades, P!Recibir(u) PROVE Intactas'
  <2>1. /\ tp.pc = "recibir" /\ u \in tp.pend /\ prep' = prep
        /\ \/ P!MoveStock(u, "principal") /\ tp' = [tp EXCEPT !.pend = @ \ {u}]
           \/ loc' = loc /\ tp' = [tp EXCEPT !.pend = {}]
    BY <1>9, Zenon DEF P!Recibir
  <2>2. CASE P!MoveStock(u, "principal") /\ tp' = [tp EXCEPT !.pend = @ \ {u}]
    <3>1. tp'.pc = "recibir" /\ tp'.pend = tp.pend \ {u}  BY <2>1, <2>2 DEF P!Tareas
    <3>2. loc' = [loc EXCEPT ![u] = "principal"]  BY <2>2 DEF P!MoveStock
    <3>3. loc'[u] = "principal" /\ \A v \in Unidades : v # u => loc'[v] = loc[v]
      BY <1>0, <3>2
    <3>4. loc[u] = "recepcion"  BY <2>1 DEF Intactas
    <3>5. \A l \in Linea : \A v \in prep[l] : loc'[v] = loc[v]
      BY <1>0, <3>3, <3>4 DEF Intactas
    <3>6. \A v \in Unidades : loc'[v] = "despacho" => loc[v] = "despacho"
      BY <3>3
    <3>7. \A v \in tp'.pend : loc'[v] = "recepcion"
      BY <1>0, <2>1, <3>1, <3>3 DEF Intactas
    <3> QED BY <2>1, <3>1, <3>5, <3>6, <3>7 DEF Intactas
  <2>3. CASE loc' = loc /\ tp' = [tp EXCEPT !.pend = {}]
    <3>1. tp'.pend = {}  BY <2>3 DEF P!Tareas
    <3> QED BY <2>1, <2>3, <3>1 DEF Rehusado
  <2> QED BY <2>1, <2>2, <2>3
<1>10. ASSUME NEW u \in Unidades, P!Mover(u) PROVE Intactas'
  <2>1. /\ tp.pc = "mover" /\ u \in tp.pend
        /\ tp' = [tp EXCEPT !.pend = @ \ {u}]
        /\ loc' = [loc EXCEPT ![u] = "espera"]
        /\ prep' = [prep EXCEPT ![tp.linea] = @ \cup {u}]
    BY <1>10, Zenon DEF P!Mover, P!MoveStock
  <2>2. tp'.pc = "mover" /\ tp'.pend = tp.pend \ {u} /\ tp'.linea = tp.linea
    BY <2>1 DEF P!Tareas
  <2>3. loc'[u] = "espera" /\ \A v \in Unidades : v # u => loc'[v] = loc[v]
    BY <1>0, <2>1
  <2>4. loc[u] = "principal" /\ SkuDe[u] = SkuLinea[tp.linea]  BY <2>1 DEF Intactas
  <2>5. /\ prep'[tp.linea] = prep[tp.linea] \cup {u}
        /\ \A l \in Linea : l # tp.linea => prep'[l] = prep[l]
    BY <1>0, <2>1
  <2>6. \A l \in Linea : u \notin prep[l]  BY <2>4 DEF Intactas
  <2>7. \A l, k \in Linea : l # k => prep'[l] \cap prep'[k] = {}
    BY <2>5, <2>6 DEF Intactas
  <2>8. \A l \in Linea : \A v \in prep'[l] :
            SkuDe[v] = SkuLinea[l] /\ loc'[v] \in {"espera", "despacho", "cliente"}
    <3> SUFFICES ASSUME NEW l \in Linea, NEW v \in prep'[l]
                 PROVE  SkuDe[v] = SkuLinea[l] /\ loc'[v] \in {"espera", "despacho", "cliente"}
      OBVIOUS
    <3>1. v \in prep[l] \/ (v = u /\ l = tp.linea)  BY <2>5
    <3>2. CASE v \in prep[l]
      BY <1>0, <2>3, <2>6, <3>2 DEF Intactas
    <3>3. CASE v = u /\ l = tp.linea  BY <2>3, <2>4, <3>3
    <3> QED BY <3>1, <3>2, <3>3
  <2>9. \A v \in Unidades : loc'[v] = "despacho" => loc[v] = "despacho"
    BY <2>3
  <2>10. \A v \in tp'.pend : loc'[v] = "principal" /\ SkuDe[v] = SkuLinea[tp'.linea]
    BY <1>0, <2>1, <2>2, <2>3 DEF Intactas
  <2> QED BY <2>2, <2>7, <2>8, <2>9, <2>10 DEF Intactas
<1>11. CASE P!CerrarFalta \/ P!GetStockListo \/ P!Marcar \/ P!Documentar
  <2>1. CASE P!CerrarFalta \/ P!GetStockListo
    <3>1. tp'.pc \in {"revisar", "crm"} /\ loc' = loc /\ prep' = prep
      BY <2>1 DEF P!CerrarFalta, P!GetStockListo, P!Tareas
    <3> QED BY <1>2, <3>1
  <2>2. CASE P!Marcar \/ P!Documentar
    <3>1. tp'.pc = "quebrar" /\ loc' = loc /\ prep' = prep
      BY <2>2 DEF P!Marcar, P!Documentar, P!Tareas
    <3> QED BY <1>2, <3>1
  <2> QED BY <1>11, <2>1, <2>2
<1>12. ASSUME NEW s \in Skus, P!Quebrar(s) PROVE Intactas'
  <2>1. tp'.pc = "documentar" /\ loc' = loc /\ prep' = prep
    BY <1>12 DEF P!Quebrar, P!Tareas
  <2> QED BY <1>2, <2>1
<1>13. CASE P!EmpezarPreparar \/ P!Reservar \/ P!PrepareStockListo
  <2>1. tp'.pc \in {"preparar", "resumen"} /\ loc' = loc /\ prep' = prep
    <3>1. CASE P!EmpezarPreparar  BY <3>1 DEF P!EmpezarPreparar, P!Tareas
    <3>2. CASE P!Reservar  BY <3>2 DEF P!Reservar, P!Tareas
    <3>3. CASE P!PrepareStockListo  BY <3>3 DEF P!PrepareStockListo, P!Tareas
    <3> QED BY <1>13, <3>1, <3>2, <3>3
  <2> QED BY <1>2, <2>1
<1>14. CASE P!Rechazar
  <2>1. /\ tp.pend # {} /\ loc' = loc
        /\ tp' = [tp EXCEPT !.pend = {}, !.err = TRUE]
    BY <1>14, Zenon DEF P!Rechazar
  <2>2. tp'.pend = {}  BY <2>1 DEF P!Tareas
  <2> QED BY <2>1, <2>2 DEF Rehusado
<1> QED
  BY <1>3, <1>4, <1>5, <1>6, <1>7, <1>8, <1>9, <1>10, <1>11, <1>12, <1>13, <1>14
  DEF P!Tarea

-----------------------------------------------------------------------------
(* What was prepared in full leaves in full *)

\* A request sends nothing to a client.
LEMMA PeticionCliente ==
    ASSUME LocOK, NEW r \in Pedido, R!Pedir(r) \/ R!Atender(r) \/ R!Excepcion(r),
           NEW u \in Unidades, loc'[u] = "cliente"
    PROVE  loc[u] = "cliente"
<1>1. ASSUME NEW v, R!Llamada(r, v) PROVE loc[u] = "cliente"
  BY <1>1 DEF R!Llamada, R!MoveStock, R!MoveStockBodega, LocOK
<1>2. \/ loc' = loc
      \/ \E v : R!Llamada(r, v)
  BY Zenon DEF R!Pedir, R!Atender, R!Excepcion, R!Consultar, R!Rechazar, R!Responder,
     R!Listar, R!Mover
<1> QED BY <1>1, <1>2

Completo == Turnos /\ EnCurso /\ Cota /\ Sereno

LEMMA InitCompleto == Init => Completo
<1> SUFFICES ASSUME Init PROVE Completo  OBVIOUS
<1>1. /\ te.pc = "libre" /\ te.mano = {} /\ tp.pc = "libre"
      /\ entregadas = [l \in Linea |-> {}] /\ prep = [l \in Linea |-> {}]
  BY Zenon DEF Init, P!Ocioso, E!Ocioso
<1>2. \A u \in Unidades : loc[u] \notin {"cliente", "despacho"}
  BY DEF Init, R!Init
<1>3. Turnos  BY <1>1, <1>2 DEF Turnos
<1>4. EnCurso  BY <1>1 DEF EnCurso
<1>5. Cota
  <2>1. \A l \in Linea : CantLinea[l] \in Nat  BY Supuestos
  <2> QED BY <1>1, <2>1, FS_EmptySet DEF Cota
<1>6. Sereno
  <2>1. Intactas  BY <1>1, <1>2 DEF Intactas
  <2>2. Entera  BY <1>1 DEF Entera, EnVuelo
  <2> QED BY <2>1, <2>2 DEF Sereno
<1> QED BY <1>3, <1>4, <1>5, <1>6 DEF Completo

LEMMA NextCompleto == TypeOK /\ TypeOK' /\ Completo /\ [Next]_vars => Completo'
<1> SUFFICES ASSUME TypeOK, TypeOK', Turnos, EnCurso, Cota, Sereno, [Next]_vars
             PROVE  Turnos' /\ EnCurso' /\ Cota' /\ Sereno'
  BY DEF Completo
<1>0. /\ tp \in P!Tareas /\ te \in E!Tareas /\ te' \in E!Tareas /\ LocOK
      /\ prep \in [Linea -> SUBSET Unidades]
      /\ entregadas \in [Linea -> SUBSET Unidades]
      /\ entregadas' \in [Linea -> SUBSET Unidades]
  BY Lugar DEF TypeOK, P!TypeOK, E!TypeOK
\* While delivery is idle it knows nothing that others could change.
<1>1. ASSUME UNCHANGED <<te, hoy, corrio, entregadas>>,
             te.pc = "libre" \/ base' = base
      PROVE  EnCurso' /\ Cota'
  <2>1. EnCurso'
    BY <1>1 DEF EnCurso, E!EnFecha, Debida
  <2>2. Cota'
    BY <1>1 DEF Cota, DeHoy, Pendiente, Suyas
  <2> QED BY <2>1, <2>2
<1>2. CASE Main
  <2>1. /\ te.pc = "libre" /\ P!Tarea /\ limpio' = (limpio /\ ~Rehusado)
        /\ UNCHANGED deEntrega
    BY <1>2, Zenon DEF Main, P!Tarea
  <2>2. UNCHANGED <<te, hoy, corrio, entregadas>>  BY <2>1 DEF deEntrega
  <2>3. Turnos'  BY <2>1, MainTurnos
  <2>4. ASSUME limpio' PROVE Intactas' /\ Entera'
    <3>1. limpio /\ ~Rehusado  BY <2>1, <2>4
    <3>2. Intactas'  BY <1>0, <2>1, <2>2, <3>1, MainIntactas DEF Sereno
    <3>3. Entera'  BY <2>1, <2>2 DEF Entera, EnVuelo
    <3> QED BY <3>2, <3>3
  <2> QED BY <1>1, <2>1, <2>2, <2>3, <2>4 DEF Sereno
<1>3. ASSUME E!Tarea \/ E!Fallar, base' = base, tp' = tp, tp.pc = "libre"
      PROVE  Turnos' /\ EnCurso' /\ Cota'
  BY <1>0, <1>3, DeliveryTurnos, DeliveryEnCurso, DeliveryCota
<1>4. CASE Delivery
  <2>1. /\ tp.pc = "libre" /\ UNCHANGED deProceso /\ E!Tarea
        /\ limpio' = (limpio /\ ~Rehusado)
    BY <1>4, Zenon DEF Delivery
  <2>2. base' = base /\ tp' = tp /\ prep' = prep  BY <2>1 DEF deProceso
  <2>3. ASSUME limpio' PROVE Intactas' /\ Entera'
    <3>1. limpio /\ ~Rehusado  BY <2>1, <2>3
    <3>2. Intactas /\ Entera  BY <3>1 DEF Sereno
    <3> QED BY <1>0, <2>1, <2>2, <3>1, <3>2, DeliveryIntactas, DeliveryEntera
  <2> QED BY <1>3, <2>1, <2>2, <2>3 DEF Sereno
<1>5. CASE Fallar
  <2>1. Sereno'
    <3>1. limpio' = FALSE  BY <1>5, Zenon DEF Fallar
    <3> QED BY <3>1 DEF Sereno
  <2>2. CASE P!Fallar /\ UNCHANGED deEntrega
    <3>1. tp.pc # "libre"  BY <2>2 DEF P!Fallar
    <3>2. te.pc = "libre" /\ UNCHANGED <<te, hoy, corrio, entregadas>>
      BY <2>2, <3>1 DEF Turnos, deEntrega
    <3> QED BY <1>1, <2>1, <2>2, <3>2, MainTurnos
  <2>3. CASE UNCHANGED deProceso /\ E!Fallar
    <3>1. te.pc # "libre"  BY <2>3 DEF E!Fallar
    <3>2. base' = base /\ tp' = tp /\ tp.pc = "libre"
      BY <2>3, <3>1 DEF Turnos, deProceso
    <3> QED BY <1>3, <2>1, <2>3, <3>2
  <2> QED BY <1>5, <2>2, <2>3, Zenon DEF Fallar
<1>6. CASE NuevoDia
  <2>1. /\ tp.pc = "libre" /\ te.pc = "libre" /\ loc' = loc /\ te' = te
        /\ hoy' = hoy + 1 /\ entregadas' = entregadas /\ limpio' = limpio
        /\ UNCHANGED deProceso /\ hoy < MaxDia
    BY <1>6, Zenon DEF NuevoDia, E!NuevoDia
  <2>2. base' = base /\ tp' = tp /\ prep' = prep  BY <2>1 DEF deProceso
  <2>3. /\ hoy \in Nat
        /\ \A l \in Linea : Fecha[ArchivoDe[l]] \in Nat /\ CantLinea[l] \in Nat
    <3>1. hoy \in Nat  BY Supuestos DEF TypeOK, E!TypeOK
    <3>2. \A l \in Linea : ArchivoDe[l] \in Archivo  BY Supuestos
    <3> QED BY <3>1, <3>2, Supuestos
  <2>4. \A l \in Linea : Debida(l) => Debida(l)'
    BY <2>1, <2>2, <2>3 DEF Debida
  <2>5. Turnos'  BY <2>1, <2>2, <2>4 DEF Turnos
  <2>6. EnCurso'  BY <2>1 DEF EnCurso
\* nothing left for a line that is due from the next day on
  <2>7. Cota'
    <3>1. ASSUME NEW l \in Linea, DeHoy(l)' PROVE entregadas[l] = {}
      <4>1. ~Debida(l)  BY <2>1, <2>3, <3>1 DEF DeHoy, Debida
      <4> QED BY <4>1 DEF Turnos
    <3>2. Cardinality({}) = 0  BY FS_EmptySet
    <3>3. \A l \in Linea : DeHoy(l)' =>
              entregadas'[l] = {} /\ Cardinality(entregadas'[l]) <= CantLinea[l]
      BY <2>1, <2>3, <3>1, <3>2
    <3>4. te'.pc # "unidad"  BY <2>1
    <3> QED BY <3>3, <3>4 DEF Cota
  <2>8. Intactas' <=> Intactas  BY <2>1, <2>2 DEF Intactas
  <2>9. Entera'  BY <2>1 DEF Entera, EnVuelo
  <2> QED BY <2>1, <2>5, <2>6, <2>7, <2>8, <2>9 DEF Sereno
<1>7. ASSUME UNCHANGED <<tp, te, base, prep, hoy, corrio, entregadas>>,
             \A u \in Unidades : loc'[u] = "cliente" => loc[u] = "cliente",
             limpio' => limpio /\ loc' = loc
      PROVE  Turnos' /\ EnCurso' /\ Cota' /\ Sereno'
  <2>1. Turnos'  BY <1>7 DEF Turnos, Debida
  <2>2. ASSUME limpio' PROVE Intactas' /\ Entera'
    <3>1. Intactas'  BY <1>7, <2>2 DEF Sereno, Intactas
    <3>2. Entera'
      BY <1>7, <2>2 DEF Sereno, Entera, Suyas, Hechas, Cubierta, Rivales, Debida, DeHoy, Completa
    <3> QED BY <3>1, <3>2
  <2> QED BY <1>1, <1>7, <2>1, <2>2 DEF Sereno
<1>8. ASSUME NEW r \in Pedido, Peticion(r) PROVE Turnos' /\ EnCurso' /\ Cota' /\ Sereno'
  <2>1. /\ R!Pedir(r) \/ R!Atender(r) \/ R!Excepcion(r)
        /\ UNCHANGED deProceso /\ UNCHANGED deEntrega
        /\ limpio' = (limpio /\ loc' = loc)
    BY <1>8, Zenon DEF Peticion
  <2>2. UNCHANGED <<tp, te, base, prep, hoy, corrio, entregadas>>
    BY <2>1 DEF deProceso, deEntrega
  <2>3. \A u \in Unidades : loc'[u] = "cliente" => loc[u] = "cliente"
    BY <1>0, <2>1, PeticionCliente
  <2> QED BY <1>7, <2>1, <2>2, <2>3
<1>9. CASE UNCHANGED vars
  <2>1. /\ UNCHANGED <<tp, te, base, prep, hoy, corrio, entregadas>>
        /\ loc' = loc /\ limpio' = limpio
    BY <1>9 DEF vars, deProceso, deEntrega
  <2> QED BY <1>7, <2>1
<1> QED BY <1>2, <1>4, <1>5, <1>6, <1>8, <1>9, Zenon DEF Next

\* Undisturbed, an order that main prepared in full leaves in full on the day it
\* is due, when every line of its products that is due was prepared in full and
\* is due that day.
THEOREM EntregaSiempre == Spec => []EntregaCompleta
<1>1. TypeOK /\ Completo => EntregaCompleta
  <2> SUFFICES ASSUME TypeOK, EnCurso, Entera, te.pc = "cerrar", NEW l \in te.prods,
                      \A k \in Linea :
                          SkuLinea[k] = SkuLinea[l] /\ E!EnFecha(ArchivoDe[k]) /\ ~base.broked[k]
                              => Fecha[ArchivoDe[k]] = hoy /\ Completa(k)
               PROVE  Cardinality(entregadas[l]) = CantLinea[l]
    BY DEF Completo, Sereno, EntregaCompleta
  <2>1. Cubierta(SkuLinea[l])
    BY DEF Cubierta, Rivales, Debida, DeHoy, E!EnFecha
  <2>2. l \in Hechas  BY DEF Hechas
  <2> QED BY <2>1, <2>2 DEF Entera, EnVuelo
<1> QED BY <1>1, InitTypeOK, NextTypeOK, InitCompleto, NextCompleto, PTL DEF Spec

-----------------------------------------------------------------------------
(* The requests keep the promise of Envios beside the task *)

\* Nothing is sent for a request before its second loop.
SinEnviar ==
    \A r \in Pedido : pc[r] \in {"libre", "consultar", "aceptado", "sacar"}
                          => mov[r]["enviar"] = {}

\* The units another group got by a call whose answer was lost.
Perdido == {u \in Unidades : /\ loc[u] = "socio"
                             /\ \A r \in Pedido : u \notin mov[r]["enviar"]}

Promesa == TypeOK /\ UnSoloReceptor /\ SinEnviar

LEMMA InitPromesa == Init => R!Abstracto!Init /\ SinEnviar
<1> SUFFICES ASSUME Init PROVE R!Abstracto!Init /\ SinEnviar  OBVIOUS
<1> USE DEF Init, R!Init
<1>1. [r \in Pedido |-> R!Estado(r)] = [r \in Pedido |-> "abierto"]  BY DEF R!Estado
<1>2. [r \in Pedido |-> mov[r]["enviar"]] = [r \in Pedido |-> {}]  BY DEF R!Etapas
<1>3. Perdido = {}  BY DEF Perdido
<1>4. [r \in Pedido |-> resp[r].amountSent] = [r \in Pedido |-> 0]
  BY DEF R!SinRespuesta
<1>5. SinEnviar  BY DEF SinEnviar, R!Etapas
<1> HIDE DEF Init, R!Init
<1> QED BY <1>1, <1>2, <1>3, <1>4, <1>5 DEF R!Abstracto!Init, Perdido

\* A step that sends nothing and ends no request.
LEMMA IgualEnvios ==
    ASSUME \A r \in Pedido : R!Estado(r)' = R!Estado(r),
           \A r \in Pedido : mov'[r]["enviar"] = mov[r]["enviar"],
           \A u \in Unidades : loc'[u] = "socio" <=> loc[u] = "socio",
           resp' = resp
    PROVE  UNCHANGED R!Abstracto!vars
<1>1. [r \in Pedido |-> R!Estado(r)]' = [r \in Pedido |-> R!Estado(r)]  OBVIOUS
<1>2. [r \in Pedido |-> mov[r]["enviar"]]' = [r \in Pedido |-> mov[r]["enviar"]]
  OBVIOUS
<1>3. Perdido' = Perdido  BY DEF Perdido
<1>4. [r \in Pedido |-> resp[r].amountSent]' = [r \in Pedido |-> resp[r].amountSent]
  OBVIOUS
<1> QED BY <1>1, <1>2, <1>3, <1>4 DEF R!Abstracto!vars, Perdido

\* The tasks send nothing to other groups.
LEMMA MainNoEnvia ==
    ASSUME LocOK, P!Tarea \/ P!Fallar
    PROVE  \A u \in Unidades : loc'[u] = "socio" <=> loc[u] = "socio"
<1>1. CASE P!PedirASocio
  <2>1. PICK D \in SUBSET P!Stock("ajeno", SkuLinea[tp.linea]), d \in {"recepcion", "pulmon"} :
            loc' = [u \in Unidades |-> IF u \in D THEN d ELSE loc[u]]
    BY <1>1, Zenon DEF P!PedirASocio
  <2>2. \A u \in D : loc[u] = "ajeno"  BY DEF P!Stock
  <2> QED BY <2>1, <2>2
<1>2. ASSUME NEW u, NEW d \in {"principal", "espera"}, P!MoveStock(u, d)
      PROVE  \A v \in Unidades : loc'[v] = "socio" <=> loc[v] = "socio"
  BY <1>2 DEF P!MoveStock, P!Depositos, LocOK
<1>3. \/ P!PedirASocio \/ loc' = loc
      \/ \E u : P!MoveStock(u, "principal") \/ P!MoveStock(u, "espera")
  BY Zenon DEF P!Tarea, P!Fallar, P!Iniciar, P!Terminar, P!Abrir, P!RevisarReservas,
     P!RevisarFalta, P!ListarPrincipal, P!ListarRecepcion, P!CerrarFalta,
     P!GetStockListo, P!Recibir, P!Mover, P!Marcar, P!Documentar, P!EmpezarPreparar,
     P!Rechazar, P!Reservar, P!Quebrar, P!PrepareStockListo, P!Resumir
<1> QED BY <1>1, <1>2, <1>3

LEMMA DeliveryNoEnvia ==
    ASSUME LocOK, E!Tarea \/ E!Fallar
    PROVE  \A u \in Unidades : loc'[u] = "socio" <=> loc[u] = "socio"
<1>1. ASSUME NEW u, NEW d \in {"despacho", "espera", "cliente"},
             loc[u] \in Depositos, loc' = [loc EXCEPT ![u] = d]
      PROVE  \A v \in Unidades : loc'[v] = "socio" <=> loc[v] = "socio"
  BY <1>1 DEF Depositos, LocOK
<1>2. \/ loc' = loc
      \/ \E u : \/ E!MoveStock(u, "despacho") \/ E!MoveStock(u, "espera")
                \/ E!DeleteStock(u)
  BY Zenon DEF E!Tarea, E!Fallar, E!Iniciar, E!Abrir, E!Terminar, E!EmpezarDespacho,
     E!ListarEspera, E!NoEnEspera, E!CerrarLinea, E!Sacar, E!Despachar, E!Reponer,
     E!LineaDespachada, E!DespacharListo, E!Anotar, E!Reportar, E!Repuesta,
     E!ArchivoListo
<1>3. ASSUME NEW u, \/ E!MoveStock(u, "despacho") \/ E!MoveStock(u, "espera")
                    \/ E!DeleteStock(u)
      PROVE  \A v \in Unidades : loc'[v] = "socio" <=> loc[v] = "socio"
  BY <1>1, <1>3 DEF E!MoveStock, E!DeleteStock, E!Depositos, Depositos
<1> QED BY <1>2, <1>3

\* A unit a request moves was not at another group.
LEMMA LlamadaFuera ==
    ASSUME R!TypeOK, UnSoloReceptor, NEW r \in Pedido, NEW u \in Unidades,
           R!Llamada(r, u)
    PROVE  /\ loc[u] # "socio"
           /\ \A q \in Pedido : u \notin mov[q]["enviar"]
           /\ u \notin R!Abstracto!Fuera
           /\ \A v \in Unidades \ {u} : loc'[v] = loc[v]
           /\ pc[r] = "enviar" => loc'[u] = "socio"
           /\ pc[r] # "enviar" => loc'[u] # "socio"
<1>1. loc[u] # "socio"
  BY DEF R!Llamada, R!MoveStock, R!MoveStockBodega, R!Depositos
<1>2. \A q \in Pedido : u \notin mov[q]["enviar"]  BY <1>1 DEF UnSoloReceptor
<1>3. u \notin R!Abstracto!Fuera  BY <1>1, <1>2 DEF R!Abstracto!Fuera
<1>4. /\ \A v \in Unidades \ {u} : loc'[v] = loc[v]
      /\ pc[r] = "enviar" => loc'[u] = "socio"
      /\ pc[r] # "enviar" => loc'[u] # "socio"
  BY DEF R!Llamada, R!MoveStock, R!MoveStockBodega, R!TypeOK, R!LocOK
<1> QED BY <1>1, <1>2, <1>3, <1>4

\* A step that answers a request the number of units sent for it.
LEMMA Contesta ==
    ASSUME R!TypeOK, NEW r \in Pedido, pc[r] \notin {"fin", "caido"},
           pc' = [pc EXCEPT ![r] = "fin"], loc' = loc, mov' = mov,
           \A q \in Pedido \ {r} : resp'[q] = resp[q],
           resp'[r].amountSent = Cardinality(mov[r]["enviar"])
    PROVE  R!Abstracto!Contestar(r)
<1>1. /\ R!Estado(r) = "abierto" /\ R!Estado(r)' = "contestado"
      /\ \A q \in Pedido \ {r} : R!Estado(q)' = R!Estado(q)
  BY DEF R!Estado, R!TypeOK
<1>2. [q \in Pedido |-> R!Estado(q)]'
        = [[q \in Pedido |-> R!Estado(q)] EXCEPT ![r] = "contestado"]
  BY <1>1
<1>3. [q \in Pedido |-> resp[q].amountSent]'
        = [[q \in Pedido |-> resp[q].amountSent]
              EXCEPT ![r] = Cardinality([q \in Pedido |-> mov[q]["enviar"]][r])]
  OBVIOUS
<1>4. Perdido' = Perdido  BY DEF Perdido
<1>5. [q \in Pedido |-> mov[q]["enviar"]]' = [q \in Pedido |-> mov[q]["enviar"]]
  OBVIOUS
<1>6. \A S : R!Abstracto!Cardinality(S) = Cardinality(S)
  BY DEF R!Abstracto!Cardinality, Cardinality
<1> QED BY <1>1, <1>2, <1>3, <1>4, <1>5, <1>6 DEF R!Abstracto!Contestar, Perdido

\* A request takes a step of its promise, or one that does not show in it.
LEMMA PeticionCumple ==
    ASSUME R!TypeOK, UnSoloReceptor, SinEnviar, NEW r \in Pedido,
           R!Pedir(r) \/ R!Atender(r) \/ R!Excepcion(r)
    PROVE  R!Abstracto!Next \/ UNCHANGED R!Abstracto!vars
<1>1. CASE R!Pedir(r)  BY <1>1, IgualEnvios DEF R!Pedir, R!TypeOK, R!Estado
<1>2. ASSUME NEW e \in R!Etapas, R!Listar(r, e) PROVE UNCHANGED R!Abstracto!vars
  <2>1. pc[r] \notin {"fin", "caido"} /\ e \notin {"fin", "caido"}
    BY <1>2 DEF R!Listar, R!Empieza, R!Etapas
  <2> QED BY <1>2, <2>1, IgualEnvios DEF R!Listar, R!TypeOK, R!Estado
<1>3. CASE R!Rechazar(r)  BY <1>3, IgualEnvios DEF R!Rechazar, R!Estado
<1>4. CASE R!Consultar(r)
  <2>1. CASE pc' = [pc EXCEPT ![r] = "aceptado"] /\ resp' = resp
    BY <1>4, <2>1, IgualEnvios DEF R!Consultar, R!TypeOK, R!Estado
  <2>2. CASE /\ pc' = [pc EXCEPT ![r] = "fin"]
             /\ resp' = [resp EXCEPT ![r] = R!SinRespuesta]
    <3>1. mov[r]["enviar"] = {}  BY <1>4 DEF R!Consultar, SinEnviar
    <3>2. resp'[r].amountSent = Cardinality(mov[r]["enviar"])
      BY <2>2, <3>1, FS_EmptySet DEF R!SinRespuesta, R!TypeOK
    <3>3. R!Abstracto!Contestar(r)
      BY <1>4, <2>2, <3>2, Contesta DEF R!Consultar, R!TypeOK
    <3> QED BY <3>3 DEF R!Abstracto!Next
  <2> QED BY <1>4, <2>1, <2>2 DEF R!Consultar
<1>5. CASE R!Responder(r)
  <2>1. \A S : R!Cardinality(S) = Cardinality(S)  BY DEF R!Cardinality, Cardinality
  <2>2. resp'[r].amountSent = Cardinality(mov[r]["enviar"])
    BY <1>5, <2>1 DEF R!Responder, R!Respuesta, R!Cantidad, R!TypeOK
  <2>3. pc[r] \notin {"fin", "caido"}  BY <1>5 DEF R!Responder
  <2>4. R!Abstracto!Contestar(r)
    BY <1>5, <2>2, <2>3, Contesta DEF R!Responder, R!TypeOK
  <2> QED BY <2>4 DEF R!Abstracto!Next
<1>6. ASSUME NEW u \in Unidades, R!Mover(r, u)
      PROVE  R!Abstracto!Enviar(r) \/ UNCHANGED R!Abstracto!vars
  <2>1. R!Llamada(r, u) /\ pc' = pc /\ resp' = resp
        /\ mov' = [mov EXCEPT ![r][pc[r]] = @ \cup {u}]
    BY <1>6 DEF R!Mover
  <2>2. CASE pc[r] # "enviar"
    <3>1. \A q \in Pedido : mov'[q]["enviar"] = mov[q]["enviar"]
      BY <2>1, <2>2 DEF R!TypeOK, R!Etapas
    <3>2. \A v \in Unidades : loc'[v] = "socio" <=> loc[v] = "socio"
      BY <2>1, <2>2, LlamadaFuera
    <3> QED BY <2>1, <3>1, <3>2, IgualEnvios DEF R!Estado
  <2>3. CASE pc[r] = "enviar"
    <3>1. mov'[r]["enviar"] = mov[r]["enviar"] \cup {u}
      BY <2>1, <2>3 DEF R!TypeOK, R!Etapas
    <3>2. \A q \in Pedido \ {r} : mov'[q]["enviar"] = mov[q]["enviar"]
      BY <2>1 DEF R!TypeOK
    <3>3. [q \in Pedido |-> mov[q]["enviar"]]'
            = [[q \in Pedido |-> mov[q]["enviar"]] EXCEPT ![r] = @ \cup {u}]
      BY <3>1, <3>2
    <3>4. Perdido' = Perdido
      BY <2>1, <2>3, <3>1, <3>2, LlamadaFuera DEF Perdido
    <3>5. R!Estado(r) = "abierto"  BY <2>3 DEF R!Estado
    <3>6. [q \in Pedido |-> R!Estado(q)]' = [q \in Pedido |-> R!Estado(q)]
      BY <2>1 DEF R!Estado
    <3>7. u \notin R!Abstracto!Fuera  BY <2>1, LlamadaFuera
    <3> QED
      BY <2>1, <3>3, <3>4, <3>5, <3>6, <3>7 DEF R!Abstracto!Enviar, Perdido
  <2> QED BY <2>2, <2>3
<1>7. CASE R!Excepcion(r)
  <2>1. /\ pc[r] \notin {"fin", "caido"} /\ pc' = [pc EXCEPT ![r] = "caido"]
        /\ mov' = mov /\ resp' = resp
    BY <1>7 DEF R!Excepcion, R!Etapas
  <2>2. /\ R!Estado(r) = "abierto" /\ R!Estado(r)' = "caido"
        /\ \A q \in Pedido \ {r} : R!Estado(q)' = R!Estado(q)
    BY <2>1 DEF R!Estado, R!TypeOK
  <2>3. [q \in Pedido |-> R!Estado(q)]'
          = [[q \in Pedido |-> R!Estado(q)] EXCEPT ![r] = "caido"]
    BY <2>2
  <2>4. Perdido' = Perdido \/ \E u \in Unidades \ R!Abstracto!Fuera :
                                   Perdido' = Perdido \cup {u}
    <3>1. CASE loc' = loc  BY <2>1, <3>1 DEF Perdido
    <3>2. ASSUME NEW u \in pend[r], R!Llamada(r, u)
          PROVE  Perdido' = Perdido \/ \E v \in Unidades \ R!Abstracto!Fuera :
                                            Perdido' = Perdido \cup {v}
      <4>1. u \in Unidades  BY DEF R!TypeOK
      <4>2. /\ loc[u] # "socio" /\ u \notin R!Abstracto!Fuera
            /\ \A q \in Pedido : u \notin mov[q]["enviar"]
            /\ \A v \in Unidades \ {u} : loc'[v] = loc[v]
        BY <3>2, <4>1, LlamadaFuera
      <4>3. CASE loc'[u] = "socio"
        <5>1. Perdido' = Perdido \cup {u}
          BY <2>1, <4>1, <4>2, <4>3 DEF Perdido
        <5> QED BY <4>1, <4>2, <5>1
      <4>4. CASE loc'[u] # "socio"
        BY <2>1, <4>1, <4>2, <4>4 DEF Perdido
      <4> QED BY <4>3, <4>4
    <3> QED BY <1>7, <3>1, <3>2 DEF R!Excepcion
  <2>5. R!Abstracto!Caer(r)
    BY <2>1, <2>2, <2>3, <2>4 DEF R!Abstracto!Caer, Perdido
  <2> QED BY <2>5 DEF R!Abstracto!Next
<1> QED
  BY <1>1, <1>2, <1>3, <1>4, <1>5, <1>6, <1>7 DEF R!Atender, R!Abstracto!Next

LEMMA NextSinEnviar == TypeOK /\ SinEnviar /\ [Next]_vars => SinEnviar'
<1> SUFFICES ASSUME TypeOK, SinEnviar, [Next]_vars PROVE SinEnviar'  OBVIOUS
<1>1. CASE pc' = pc /\ mov' = mov  BY <1>1 DEF SinEnviar
<1>2. ASSUME NEW r \in Pedido, R!Pedir(r) \/ R!Atender(r) \/ R!Excepcion(r)
      PROVE  SinEnviar'
  <2>1. R!TypeOK  BY DEF TypeOK
  <2>2. ASSUME mov' = mov, NEW c, pc' = [pc EXCEPT ![r] = c],
               c \in {"libre", "consultar", "aceptado", "sacar"} =>
                   pc[r] \in {"libre", "consultar", "aceptado", "sacar"}
        PROVE  SinEnviar'
    BY <2>1, <2>2 DEF SinEnviar, R!TypeOK
  <2>3. CASE R!Pedir(r)  BY <2>2, <2>3 DEF R!Pedir
  <2>4. CASE R!Consultar(r)  BY <2>2, <2>4 DEF R!Consultar
  <2>5. ASSUME NEW e \in R!Etapas, R!Listar(r, e) PROVE SinEnviar'
    BY <2>2, <2>5 DEF R!Listar, R!Empieza, R!Etapas
  <2>6. ASSUME NEW u \in Unidades, R!Mover(r, u) PROVE SinEnviar'
    <3>1. pc[r] # "enviar" => mov'[r]["enviar"] = mov[r]["enviar"]
      BY <2>1, <2>6 DEF R!Mover, R!TypeOK, R!Etapas
    <3>2. pc' = pc /\ \A q \in Pedido \ {r} : mov'[q] = mov[q]
      BY <2>1, <2>6 DEF R!Mover, R!TypeOK
    <3> QED BY <3>1, <3>2 DEF SinEnviar
  <2>7. CASE R!Rechazar(r)  BY <1>1, <2>7 DEF R!Rechazar
  <2>8. CASE R!Responder(r)  BY <2>2, <2>8 DEF R!Responder
  <2>9. CASE R!Excepcion(r)  BY <2>2, <2>9 DEF R!Excepcion
  <2> QED
    BY <1>2, <2>3, <2>4, <2>5, <2>6, <2>7, <2>8, <2>9 DEF R!Atender
<1>3. CASE Main \/ Delivery \/ Fallar \/ NuevoDia \/ UNCHANGED vars
  BY <1>1, <1>3, Zenon DEF Main, Delivery, Fallar, NuevoDia, vars, dePedidos
<1>4. CASE \E r \in Pedido : Peticion(r)  BY <1>2, <1>4 DEF Peticion
<1> QED BY <1>3, <1>4, Zenon DEF Next

LEMMA NextPromesa ==
    Promesa /\ [Next]_vars => [R!Abstracto!Next]_(R!Abstracto!vars)
<1> SUFFICES ASSUME TypeOK, UnSoloReceptor, SinEnviar, [Next]_vars
             PROVE  R!Abstracto!Next \/ UNCHANGED R!Abstracto!vars
  BY DEF Promesa
<1>0. LocOK /\ R!TypeOK  BY DEF TypeOK, P!TypeOK, P!LocOK, LocOK, P!Lugares, Lugares,
                              P!Depositos, Depositos
<1>1. ASSUME UNCHANGED <<pc, mov, resp>>,
             \A u \in Unidades : loc'[u] = "socio" <=> loc[u] = "socio"
      PROVE  UNCHANGED R!Abstracto!vars
  BY <1>1, IgualEnvios DEF R!Estado
<1>2. CASE Main
  <2>1. P!Tarea /\ UNCHANGED <<pc, mov, resp>>
    BY <1>2, Zenon DEF Main, P!Tarea, dePedidos
  <2> QED BY <1>0, <1>1, <2>1, MainNoEnvia
<1>3. CASE Delivery
  <2>1. E!Tarea /\ UNCHANGED <<pc, mov, resp>>
    BY <1>3, Zenon DEF Delivery, dePedidos
  <2> QED BY <1>0, <1>1, <2>1, DeliveryNoEnvia
<1>4. CASE Fallar
  <2>1. (P!Fallar \/ E!Fallar) /\ UNCHANGED <<pc, mov, resp>>
    BY <1>4, Zenon DEF Fallar, dePedidos
  <2> QED BY <1>0, <1>1, <2>1, MainNoEnvia, DeliveryNoEnvia
<1>5. CASE NuevoDia \/ UNCHANGED vars
  <2>1. loc' = loc /\ UNCHANGED <<pc, mov, resp>>
    BY <1>5, Zenon DEF NuevoDia, E!NuevoDia, vars, dePedidos
  <2> QED BY <1>1, <2>1
<1>6. ASSUME NEW r \in Pedido, Peticion(r)
      PROVE  R!Abstracto!Next \/ UNCHANGED R!Abstracto!vars
  <2>1. R!Pedir(r) \/ R!Atender(r) \/ R!Excepcion(r)  BY <1>6, Zenon DEF Peticion
  <2> QED BY <1>0, <2>1, PeticionCumple
<1> QED BY <1>2, <1>3, <1>4, <1>5, <1>6, Zenon DEF Next

\* The requests keep the promise of Envios beside the daily task, whatever it
\* takes out of the depots they work in or puts there (schedule.rb:72-92,
\* request.rb:28-40).
THEOREM EnviosSiempre == Spec => CumpleEnvios
<1>1. Spec => []SinEnviar
  BY InitPromesa, TypeCorrect, NextSinEnviar, PTL DEF Spec
<1>2. Spec => []Promesa
  BY <1>1, TypeCorrect, ReceptorSiempre, PTL DEF Promesa
<1> QED
  BY <1>2, InitPromesa, NextPromesa, PTL
  DEF Spec, CumpleEnvios, R!CumpleEnvios, R!Abstracto!Spec

-----------------------------------------------------------------------------
(* Delivery, as Entrega describes it on its own *)

Decidiendo == {"revisar", "socios", "recibir", "crm"}
Quebrando == {"quebrar", "documentar"}
Preparando == {"preparar", "mover", "resumen"}

\* Main marks the orders it took up one by one, and only lines of marked orders
\* are broken.
EnOrden ==
    /\ tp.pc \in {"archivo"} \cup Decidiendo => \A g \in tp.cola : ~base.processed[g]
    /\ tp.pc \in Quebrando \cup Preparando =>
           base.processed[tp.f] /\ \A g \in tp.cola \ {tp.f} : ~base.processed[g]
    /\ \A l \in Linea : base.broked[l] => base.processed[ArchivoDe[l]]

\* What delivery may see of the database.
Procesados == [g \in Archivo |-> Resuelto(g)]
Quebradas == [l \in Linea |-> base.broked[l] /\ Resuelto(ArchivoDe[l])]

\* A step that changes nothing of it, and one that ends the breaking of an order.
Igual == Procesados' = Procesados /\ Quebradas' = Quebradas
Cierra ==
    /\ loc' = loc
    /\ \E g \in Archivo : \E Q \in SUBSET V!LineasDe(g) :
           /\ ~Procesados[g]
           /\ Procesados' = [Procesados EXCEPT ![g] = TRUE]
           /\ Quebradas' = [l \in Linea |-> Quebradas[l] \/ l \in Q]

\* It sees the orders resolved and the broken lines of these only, and nothing else.
LEMMA VistaIgual ==
    ASSUME \A g \in Archivo : Resuelto(g)' = Resuelto(g),
           \A l \in Linea : Resuelto(ArchivoDe[l]) => base'.broked[l] = base.broked[l]
    PROVE  Igual
<1>1. \A l \in Linea : ArchivoDe[l] \in Archivo  BY Supuestos
<1> QED BY <1>1 DEF Igual, Procesados, Quebradas

LEMMA SinMarca ==
    ASSUME tp \in P!Tareas, base \in P!Base, EnOrden,
           base'.processed = base.processed, base'.broked = base.broked,
           tp'.f = tp.f, tp'.cola = tp.cola,
           \/ tp.pc \in Decidiendo /\ tp'.pc \in Decidiendo
           \/ tp.pc \in Quebrando /\ tp'.pc \in Quebrando
           \/ tp.pc \in Preparando /\ tp'.pc \in Preparando
    PROVE  EnOrden' /\ Igual
<1>1. EnOrden'  BY DEF EnOrden, Decidiendo, Quebrando, Preparando
<1>2. \A g \in Archivo : Resuelto(g)' = Resuelto(g)
  BY DEF Resuelto, Decidiendo, Quebrando, Preparando
<1> QED BY <1>1, <1>2, VistaIgual

\* The run goes from one order to another, or ends, without one half broken.
LEMMA EntreOrdenes ==
    ASSUME base' = base, EnOrden, tp.pc \notin Quebrando, tp'.pc \notin Quebrando,
           \/ tp'.pc = "libre"
           \/ tp'.pc \in {"archivo", "revisar"} /\ \A g \in tp'.cola : ~base.processed[g]
    PROVE  EnOrden' /\ Igual
<1>1. EnOrden'  BY DEF EnOrden, Decidiendo, Quebrando, Preparando
<1>2. \A g \in Archivo : Resuelto(g)' = Resuelto(g)  BY DEF Resuelto, Quebrando
<1> QED BY <1>1, <1>2, VistaIgual

\* The breaking of an order ends, with its lines broken as they are.
LEMMA CierraOrden ==
    ASSUME tp \in P!Tareas, base \in P!Base, EnOrden, base' = base, loc' = loc,
           tp.pc \in Quebrando, tp'.pc \notin Quebrando
    PROVE  Cierra
<1> SUFFICES ASSUME NEW f \in Archivo, f = tp.f PROVE Cierra
  BY DEF P!Tareas
<1> DEFINE Q == {l \in Linea : ArchivoDe[l] = f /\ base.broked[l]}
<1>1. \A l \in Linea : ArchivoDe[l] \in Archivo  BY Supuestos
<1>2. /\ ~Resuelto(f) /\ Resuelto(f)'
      /\ \A g \in Archivo \ {f} : Resuelto(g)' = Resuelto(g)
  BY DEF EnOrden, Resuelto, Quebrando
<1>3. Procesados' = [Procesados EXCEPT ![f] = TRUE]
  BY <1>2 DEF Procesados
<1>4. \A l \in Linea : (base.broked[l] /\ Resuelto(ArchivoDe[l]))'
                           = ((base.broked[l] /\ Resuelto(ArchivoDe[l])) \/ l \in Q)
  BY <1>1, <1>2 DEF P!Base
<1>5. Quebradas' = [l \in Linea |-> Quebradas[l] \/ l \in Q]
  BY <1>4 DEF Quebradas
<1>6. Q \in SUBSET V!LineasDe(f)  BY DEF V!LineasDe
<1>7. ~Procesados[f]  BY <1>2 DEF Procesados
<1> HIDE DEF Q
<1> QED BY <1>3, <1>5, <1>6, <1>7 DEF Cierra

LEMMA MainPaso ==
    ASSUME tp \in P!Tareas, base \in P!Base, Turnos, EnOrden, P!Tarea \/ P!Fallar
    PROVE  EnOrden' /\ (Igual \/ Cierra)
<1> DEFINE Bien == EnOrden' /\ (Igual \/ Cierra)
<1>0. P!Ocioso \in P!Tareas /\ P!Ocioso.pc = "libre"
  BY MainSinTarea, Zenon DEF P!Ocioso
<1>1. CASE P!Iniciar
  <2>1. /\ tp.pc = "libre" /\ base' = base /\ tp'.pc = "archivo"
        /\ \A g \in tp'.cola : ~base.processed[g]
    BY <1>1 DEF P!Iniciar, P!Ocioso
  <2> QED BY <2>1, EntreOrdenes DEF Quebrando
<1>2. CASE P!Terminar
  <2>1. tp.pc = "archivo" /\ base' = base /\ tp'.pc = "libre"
    BY <1>0, <1>2 DEF P!Terminar
  <2> QED BY <2>1, EntreOrdenes DEF Quebrando
<1>3. CASE P!Resumir
  <2>1. /\ tp.pc = "resumen" /\ base' = base
        /\ \/ tp' = P!Ocioso
           \/ tp' = [P!Ocioso EXCEPT !.pc = "archivo", !.cola = tp.cola \ {tp.f}]
    BY <1>3, Zenon DEF P!Resumir
  <2>2. \/ tp'.pc = "libre"
        \/ tp'.pc = "archivo" /\ tp'.cola = tp.cola \ {tp.f}
    BY <1>0, <2>1 DEF P!Tareas
  <2>3. \A g \in tp.cola \ {tp.f} : ~base.processed[g]
    BY <2>1 DEF EnOrden, Preparando
  <2> QED BY <2>1, <2>2, <2>3, EntreOrdenes DEF Quebrando
<1>4. ASSUME NEW g \in Archivo, P!Abrir(g) PROVE Bien
  <2>1. /\ tp.pc = "archivo" /\ base' = base
        /\ tp'.pc = "revisar" /\ tp'.cola = tp.cola
    BY <1>4 DEF P!Abrir, P!Tareas
  <2>2. \A h \in tp.cola : ~base.processed[h]  BY <2>1 DEF EnOrden
  <2> QED BY <2>1, <2>2, EntreOrdenes DEF Quebrando
<1>5. ASSUME NEW l \in Linea, P!RevisarReservas(l) \/ P!RevisarFalta(l) PROVE Bien
  BY <1>5, SinMarca DEF P!RevisarReservas, P!RevisarFalta, P!Tareas, Decidiendo
<1>6. ASSUME NEW l \in Linea, P!ListarPrincipal(l) PROVE Bien
  BY <1>6, SinMarca DEF P!ListarPrincipal, P!Tareas, Preparando
<1>7. CASE P!PedirASocio
  BY <1>7, SinMarca DEF P!PedirASocio, P!Tareas, Decidiendo
<1>8. CASE P!ListarRecepcion
  BY <1>8, SinMarca DEF P!ListarRecepcion, P!Tareas, Decidiendo
<1>9. CASE P!CerrarFalta \/ P!GetStockListo
  BY <1>9, SinMarca DEF P!CerrarFalta, P!GetStockListo, P!Tareas, Decidiendo
<1>10. ASSUME NEW u \in Unidades, P!Recibir(u) PROVE Bien
  BY <1>10, SinMarca DEF P!Recibir, P!Tareas, Decidiendo
<1>11. ASSUME NEW u \in Unidades, P!Mover(u) PROVE Bien
  BY <1>11, SinMarca DEF P!Mover, P!Tareas, Preparando
<1>12. CASE P!Rechazar \/ P!PrepareStockListo
  BY <1>12, SinMarca DEF P!Rechazar, P!PrepareStockListo, P!Tareas, Preparando
<1>13. CASE P!Documentar
  BY <1>13, SinMarca DEF P!Documentar, P!Tareas, Quebrando
<1>14. CASE P!Reservar
  <2>1. base'.processed = base.processed /\ base'.broked = base.broked
    BY <1>14 DEF P!Reservar, P!Base
  <2>2. /\ tp.pc = "mover" /\ tp'.pc = "preparar"
        /\ tp'.f = tp.f /\ tp'.cola = tp.cola
    BY <1>14 DEF P!Reservar, P!Tareas
  <2> QED BY <2>1, <2>2, SinMarca DEF Preparando
<1>15. CASE P!Marcar
  <2>1. /\ tp.pc = "crm" /\ tp'.pc = "quebrar" /\ tp'.f = tp.f /\ tp'.cola = tp.cola
    BY <1>15 DEF P!Marcar, P!Tareas
  <2>2. /\ base'.broked = base.broked
        /\ base'.processed = [base.processed EXCEPT ![tp.f] = TRUE]
        /\ base.processed \in [Archivo -> BOOLEAN] /\ tp.f \in Archivo
        /\ tp.cola \subseteq Archivo
    BY <1>15 DEF P!Marcar, P!Base, P!Tareas
  <2>3. tp.f \in tp.cola /\ \A g \in tp.cola : ~base.processed[g]
    BY <2>1 DEF Turnos, EnOrden, Decidiendo
  <2>4. EnOrden'
    <3>1. \A l \in Linea : ArchivoDe[l] \in Archivo  BY Supuestos
    <3> QED BY <2>1, <2>2, <2>3, <3>1 DEF EnOrden, Decidiendo, Quebrando, Preparando
  <2>5. \A g \in Archivo : Resuelto(g)' = Resuelto(g)
    BY <2>1, <2>2, <2>3 DEF Resuelto
  <2> QED BY <2>2, <2>4, <2>5, VistaIgual
<1>16. ASSUME NEW s \in Skus, P!Quebrar(s) PROVE Bien
  <2>1. /\ tp.pc = "quebrar" /\ tp'.pc = "documentar"
        /\ tp'.f = tp.f /\ tp'.cola = tp.cola
    BY <1>16 DEF P!Quebrar, P!Tareas
  <2>2. /\ base'.processed = base.processed
        /\ base'.broked = [k \in Linea |-> base.broked[k]
                               \/ (k \in P!LineasDe(tp.f) /\ SkuLinea[k] = s)]
    BY <1>16 DEF P!Quebrar, P!Base
  <2>3. EnOrden'
    BY <2>1, <2>2 DEF EnOrden, P!LineasDe, Decidiendo, Quebrando, Preparando
  <2>4. \A g \in Archivo : Resuelto(g)' = Resuelto(g)  BY <2>1, <2>2 DEF Resuelto
  <2>5. \A l \in Linea : Resuelto(ArchivoDe[l]) => base'.broked[l] = base.broked[l]
    BY <2>1, <2>2 DEF Resuelto, P!LineasDe, P!Base
  <2> QED BY <2>3, <2>4, <2>5, VistaIgual
<1>17. CASE P!EmpezarPreparar
  <2>1. /\ tp.pc = "quebrar" /\ tp'.pc = "preparar" /\ tp'.f = tp.f
        /\ tp'.cola = tp.cola /\ base' = base /\ loc' = loc
    BY <1>17 DEF P!EmpezarPreparar, P!Tareas
  <2>2. EnOrden'  BY <2>1 DEF EnOrden, Decidiendo, Quebrando, Preparando
  <2> QED BY <2>1, <2>2, CierraOrden DEF Quebrando
<1>18. CASE P!Fallar
  <2>1. tp'.pc = "libre" /\ base' = base  BY <1>0, <1>18 DEF P!Fallar
  <2>2. CASE tp.pc \notin Quebrando  BY <2>1, <2>2, EntreOrdenes DEF Quebrando
  <2>3. CASE tp.pc \in Quebrando
    <3>1. loc' = loc  BY <1>18, <2>3 DEF P!Fallar, Quebrando
    <3>2. EnOrden'  BY <2>1 DEF EnOrden, Decidiendo, Quebrando, Preparando
    <3> QED BY <2>1, <2>3, <3>1, <3>2, CierraOrden DEF Quebrando
  <2> QED BY <2>2, <2>3
<1> QED
  BY <1>1, <1>2, <1>3, <1>4, <1>5, <1>6, <1>7, <1>8, <1>9, <1>10, <1>11, <1>12, <1>13,
     <1>14, <1>15, <1>16, <1>17, <1>18
  DEF P!Tarea

\* The two views of the warehouse are one.
LEMMA MismaBodega ==
    /\ \A d, s, n : V!Listado(d, s, n) = E!Listado(d, s, n)
    /\ \A d, s : V!Stock(d, s) = E!Stock(d, s)
    /\ \A u, d : V!MoveStock(u, d) <=> E!MoveStock(u, d)
    /\ \A u : V!DeleteStock(u) <=> E!DeleteStock(u)
    /\ \A u : V!PedidoMueve(u) <=> PedidoMueve(u)
    /\ V!Ocioso = E!Ocioso
    /\ \A g : V!LineasDe(g) = E!LineasDe(g)
<1>1. \A S : V!Cardinality(S) = E!Cardinality(S)
  BY Zenon DEF V!Cardinality, E!Cardinality
<1>2. \A d, s : V!Stock(d, s) = E!Stock(d, s)  BY Zenon DEF V!Stock, E!Stock
<1>3. \A d, s, n : V!Listado(d, s, n) = E!Listado(d, s, n)
  BY <1>1, <1>2 DEF V!Listado, E!Listado
<1>4. \A u, d : V!MoveStock(u, d) <=> E!MoveStock(u, d)
  BY Zenon DEF V!MoveStock, E!MoveStock, V!Depositos, E!Depositos
<1>5. \A u : V!DeleteStock(u) <=> E!DeleteStock(u)
  BY Zenon DEF V!DeleteStock, E!DeleteStock
<1>6. \A u : V!PedidoMueve(u) <=> PedidoMueve(u)
  BY DEF V!PedidoMueve, PedidoMueve, V!MoveStock, MoveStock, V!MoveStockBodega,
     MoveStockBodega, V!Depositos, Depositos
<1>7. V!Ocioso = E!Ocioso  BY Zenon DEF V!Ocioso, E!Ocioso
<1>8. \A g : V!LineasDe(g) = E!LineasDe(g)  BY Zenon DEF V!LineasDe, E!LineasDe
<1> QED BY <1>2, <1>3, <1>4, <1>5, <1>6, <1>7, <1>8

\* While main is not running, delivery sees the database as it is.
LEMMA VistaEntera ==
    ASSUME base \in P!Base, EnOrden, tp.pc = "libre"
    PROVE  Procesados = base.processed /\ Quebradas = base.broked
<1>1. \A g \in Archivo : Resuelto(g) = base.processed[g]
  BY DEF Resuelto, P!Base
<1>2. \A l \in Linea : ArchivoDe[l] \in Archivo  BY Supuestos
<1>3. \A l \in Linea : (base.broked[l] /\ Resuelto(ArchivoDe[l])) = base.broked[l]
  BY <1>1, <1>2 DEF EnOrden, P!Base
<1> QED BY <1>1, <1>3 DEF Procesados, Quebradas, P!Base

LEMMA DeliveryVista ==
    ASSUME base \in P!Base, EnOrden, tp.pc = "libre", tp' = tp, base' = base
    PROVE  /\ E!Tarea => V!Tarea
           /\ E!Fallar => V!Fallar
           /\ E!NuevoDia => V!NuevoDia
<1>1. /\ [g \in Archivo |-> Resuelto(g)] = base.processed
      /\ [l \in Linea |-> base.broked[l] /\ Resuelto(ArchivoDe[l])] = base.broked
  BY VistaEntera DEF Procesados, Quebradas
<1>2. /\ [g \in Archivo |-> Resuelto(g)]' = [g \in Archivo |-> Resuelto(g)]
      /\ [l \in Linea |-> base.broked[l] /\ Resuelto(ArchivoDe[l])]'
            = [l \in Linea |-> base.broked[l] /\ Resuelto(ArchivoDe[l])]
  BY DEF Resuelto
<1>3. /\ \A g \in Archivo : V!EnFecha(g) <=> E!EnFecha(g)
      /\ \A g : V!PorEntregar(g) = E!PorEntregar(g)
  BY <1>1, MismaBodega DEF V!EnFecha, E!EnFecha, V!PorEntregar, E!PorEntregar
<1>4. E!Iniciar => V!Iniciar
  BY <1>2, <1>3, MismaBodega DEF V!Iniciar, E!Iniciar
<1>5. \A g : E!Abrir(g) => V!Abrir(g)
  BY <1>2, <1>3 DEF V!Abrir, E!Abrir, V!Primero, E!Primero
<1>6. E!Terminar => V!Terminar
  BY <1>2, MismaBodega DEF V!Terminar, E!Terminar
<1>7. E!EmpezarDespacho => V!EmpezarDespacho
  BY <1>2, MismaBodega DEF V!EmpezarDespacho, E!EmpezarDespacho
<1>8. \A l : E!ListarEspera(l) => V!ListarEspera(l)
  BY <1>2, MismaBodega DEF V!ListarEspera, E!ListarEspera, V!Limite, E!Limite
<1>9. \A l : E!NoEnEspera(l) => V!NoEnEspera(l)
  BY <1>2 DEF V!NoEnEspera, E!NoEnEspera
<1>10. \A l : E!CerrarLinea(l) => V!CerrarLinea(l)
  BY <1>2, MismaBodega DEF V!CerrarLinea, E!CerrarLinea, V!SinClave, E!SinClave
<1>11. \A u : E!Sacar(u) => V!Sacar(u)
  BY <1>2, MismaBodega DEF V!Sacar, E!Sacar
<1>12. \A u : E!Despachar(u) => V!Despachar(u)
  BY <1>2, MismaBodega DEF V!Despachar, E!Despachar, V!Cuenta, E!Cuenta
<1>13. \A u : E!Reponer(u) => V!Reponer(u)
  BY <1>2, MismaBodega DEF V!Reponer, E!Reponer
<1>14. /\ E!LineaDespachada => V!LineaDespachada
       /\ E!DespacharListo => V!DespacharListo
       /\ E!Anotar => V!Anotar
       /\ E!Reportar => V!Reportar
       /\ E!Repuesta => V!Repuesta
  BY <1>2 DEF V!LineaDespachada, E!LineaDespachada, V!DespacharListo, E!DespacharListo,
     V!Anotar, E!Anotar, V!Reportar, E!Reportar, V!Repuesta, E!Repuesta
<1>15. E!ArchivoListo => V!ArchivoListo
  BY <1>2, MismaBodega DEF V!ArchivoListo, E!ArchivoListo
<1>16. E!Fallar => V!Fallar
  BY <1>2, MismaBodega DEF V!Fallar, E!Fallar
<1>17. E!NuevoDia => V!NuevoDia
  BY <1>2 DEF V!NuevoDia, E!NuevoDia
<1>18. E!Tarea => V!Tarea
  BY <1>4, <1>5, <1>6, <1>7, <1>8, <1>9, <1>10, <1>11, <1>12, <1>13, <1>14, <1>15, Zenon
  DEF V!Tarea, E!Tarea
<1> QED BY <1>16, <1>17, <1>18

\* What a step of main does to the units, seen by delivery.
LEMMA MainLugares ==
    ASSUME P!TypeOK, P!Tarea \/ P!Fallar
    PROVE  \/ loc' = loc
           \/ \E u \in Unidades : V!MoveStock(u, "principal") \/ V!MoveStock(u, "espera")
           \/ \E D \in SUBSET {u \in Unidades : loc[u] = "ajeno"},
                 d \in {"recepcion", "pulmon"} :
                     loc' = [u \in Unidades |-> IF u \in D THEN d ELSE loc[u]]
<1>0. tp.pend \subseteq Unidades  BY DEF P!TypeOK, P!Tareas
<1>1. CASE P!PedirASocio
  <2>1. PICK D \in SUBSET P!Stock("ajeno", SkuLinea[tp.linea]), d \in {"recepcion", "pulmon"} :
            loc' = [u \in Unidades |-> IF u \in D THEN d ELSE loc[u]]
    BY <1>1, Zenon DEF P!PedirASocio
  <2>2. D \in SUBSET {u \in Unidades : loc[u] = "ajeno"}  BY DEF P!Stock
  <2> QED BY <2>1, <2>2
<1>2. \A u, d : P!MoveStock(u, d) <=> V!MoveStock(u, d)
  BY Zenon DEF V!MoveStock, P!MoveStock, V!Depositos, P!Depositos
<1>3. ASSUME NEW u \in Unidades, P!Recibir(u) \/ P!Mover(u)
      PROVE  loc' = loc \/ V!MoveStock(u, "principal") \/ V!MoveStock(u, "espera")
  BY <1>2, <1>3, Zenon DEF P!Recibir, P!Mover
<1>4. CASE P!Fallar  BY <1>0, <1>2, <1>4 DEF P!Fallar
<1>5. \/ P!PedirASocio \/ P!Fallar \/ loc' = loc
      \/ \E u \in Unidades : P!Recibir(u) \/ P!Mover(u)
  BY Zenon DEF P!Tarea, P!Iniciar, P!Terminar, P!Abrir, P!RevisarReservas,
     P!RevisarFalta, P!ListarPrincipal, P!ListarRecepcion, P!CerrarFalta,
     P!GetStockListo, P!Marcar, P!Documentar, P!EmpezarPreparar,
     P!Rechazar, P!Reservar, P!Quebrar, P!PrepareStockListo, P!Resumir
<1> QED BY <1>1, <1>3, <1>4, <1>5

\* A step of main is one that Entrega allows beside delivery, or does not show.
LEMMA MainVista ==
    ASSUME P!TypeOK, te.pc = "libre", P!Tarea \/ P!Fallar, UNCHANGED deEntrega,
           Igual \/ Cierra
    PROVE  V!Next \/ UNCHANGED V!vars
<1>0. UNCHANGED <<reportes, docs, hoy, corrio, te, entregadas>>  BY DEF deEntrega
<1>1. CASE Igual
  <2>1. /\ [g \in Archivo |-> Resuelto(g)]' = [g \in Archivo |-> Resuelto(g)]
        /\ [l \in Linea |-> base.broked[l] /\ Resuelto(ArchivoDe[l])]'
              = [l \in Linea |-> base.broked[l] /\ Resuelto(ArchivoDe[l])]
    BY <1>1 DEF Igual, Procesados, Quebradas
  <2>2. CASE loc' = loc  BY <1>0, <2>1, <2>2 DEF V!vars
  <2>3. CASE loc' # loc
    <3>1. V!Preparar  BY <1>0, <2>1, <2>3, MainLugares DEF V!Preparar
    <3> QED BY <3>1 DEF V!Next
  <2> QED BY <2>2, <2>3
<1>2. CASE Cierra
  <2>1. PICK g \in Archivo : \E Q \in SUBSET V!LineasDe(g) :
            /\ ~Procesados[g]
            /\ Procesados' = [Procesados EXCEPT ![g] = TRUE]
            /\ Quebradas' = [l \in Linea |-> Quebradas[l] \/ l \in Q]
    BY <1>2 DEF Cierra
  <2>2. PICK Q \in SUBSET V!LineasDe(g) :
            /\ ~Procesados[g]
            /\ Procesados' = [Procesados EXCEPT ![g] = TRUE]
            /\ Quebradas' = [l \in Linea |-> Quebradas[l] \/ l \in Q]
    BY <2>1
  <2>3. loc' = loc  BY <1>2 DEF Cierra
  <2>4. V!Procesar(g)
    BY <1>0, <2>2, <2>3 DEF V!Procesar, Procesados, Quebradas
  <2> QED BY <2>4 DEF V!Next
<1> QED BY <1>1, <1>2

\* So is a step of a request.
LEMMA PeticionVista ==
    ASSUME Listadas, NEW r \in Pedido, R!Pedir(r) \/ R!Atender(r) \/ R!Excepcion(r),
           UNCHANGED deEntrega, base' = base, tp' = tp
    PROVE  V!Next \/ UNCHANGED V!vars
<1>1. /\ [g \in Archivo |-> Resuelto(g)]' = [g \in Archivo |-> Resuelto(g)]
      /\ [l \in Linea |-> base.broked[l] /\ Resuelto(ArchivoDe[l])]'
            = [l \in Linea |-> base.broked[l] /\ Resuelto(ArchivoDe[l])]
  BY DEF Resuelto
<1>2. CASE loc' = loc  BY <1>1, <1>2 DEF V!vars, deEntrega
<1>3. CASE loc' # loc
  <2>1. PICK u \in Unidades : PedidoMueve(u)  BY <1>3, PeticionMueve
  <2>2. V!PedidoMueve(u)  BY <2>1, MismaBodega
  <2>3. V!Ajeno(u)  BY <1>1, <2>2 DEF V!Ajeno, deEntrega
  <2> QED BY <2>3 DEF V!Next
<1> QED BY <1>2, <1>3

LEMMA InitVista == Init => V!Init /\ EnOrden
<1> SUFFICES ASSUME Init PROVE V!Init /\ EnOrden  OBVIOUS
<1>1. /\ base.processed = [g \in Archivo |-> FALSE]
      /\ base.broked = [l \in Linea |-> FALSE]
      /\ tp = P!Ocioso
  BY DEF Init
<1>2. \A g \in Archivo : Resuelto(g) = FALSE  BY <1>1 DEF Resuelto
<1>3. /\ [g \in Archivo |-> Resuelto(g)] = [g \in Archivo |-> FALSE]
      /\ [l \in Linea |-> base.broked[l] /\ Resuelto(ArchivoDe[l])] = [l \in Linea |-> FALSE]
  BY <1>1, <1>2
<1>4. te = V!Ocioso  BY MismaBodega DEF Init
<1>5. loc \in [Unidades -> {"principal", "ajeno"}]  BY DEF Init, R!Init
<1>6. V!Init  BY <1>3, <1>4, <1>5 DEF V!Init, Init
<1>7. tp.pc = "libre"  BY <1>1, Zenon DEF P!Ocioso
<1>8. EnOrden  BY <1>1, <1>7 DEF EnOrden, Decidiendo, Quebrando, Preparando
<1> QED BY <1>6, <1>8

LEMMA NextEnOrden == TypeOK /\ Turnos /\ EnOrden /\ [Next]_vars => EnOrden'
<1> SUFFICES ASSUME TypeOK, Turnos, EnOrden, [Next]_vars PROVE EnOrden'  OBVIOUS
<1>0. tp \in P!Tareas /\ base \in P!Base  BY DEF TypeOK, P!TypeOK
<1>1. ASSUME P!Tarea \/ P!Fallar PROVE EnOrden'  BY <1>0, <1>1, MainPaso
<1>2. ASSUME tp' = tp, base' = base PROVE EnOrden'  BY <1>2 DEF EnOrden
<1>3. CASE Main
  <2>1. P!Tarea  BY <1>3, Zenon DEF Main, P!Tarea
  <2> QED BY <1>1, <2>1
<1>4. CASE Delivery \/ NuevoDia \/ UNCHANGED vars
  <2>1. tp' = tp /\ base' = base
    BY <1>4, Zenon DEF Delivery, NuevoDia, vars, deProceso
  <2> QED BY <1>2, <2>1
<1>5. CASE Fallar
  <2>1. P!Fallar \/ (tp' = tp /\ base' = base)  BY <1>5, Zenon DEF Fallar, deProceso
  <2> QED BY <1>1, <1>2, <2>1
<1>6. ASSUME NEW r \in Pedido, Peticion(r) PROVE EnOrden'
  <2>1. tp' = tp /\ base' = base  BY <1>6, Zenon DEF Peticion, deProceso
  <2> QED BY <1>2, <2>1
<1> QED BY <1>3, <1>4, <1>5, <1>6, Zenon DEF Next

LEMMA NextVista ==
    TypeOK /\ Turnos /\ EnOrden /\ Listadas /\ [Next]_vars => [V!Next]_(V!vars)
<1> SUFFICES ASSUME TypeOK, Turnos, EnOrden, Listadas, [Next]_vars
             PROVE  V!Next \/ UNCHANGED V!vars
  OBVIOUS
<1>0. P!TypeOK /\ tp \in P!Tareas /\ base \in P!Base  BY DEF TypeOK, P!TypeOK
<1>1. ASSUME P!Tarea \/ P!Fallar, te.pc = "libre", UNCHANGED deEntrega
      PROVE  V!Next \/ UNCHANGED V!vars
  <2>1. Igual \/ Cierra  BY <1>0, <1>1, MainPaso
  <2> QED BY <1>0, <1>1, <2>1, MainVista
<1>2. ASSUME E!Tarea \/ E!Fallar \/ E!NuevoDia, tp.pc = "libre", UNCHANGED deProceso
      PROVE  V!Next
  <2>1. tp' = tp /\ base' = base  BY <1>2, Zenon DEF deProceso
  <2>2. V!Tarea \/ V!Fallar \/ V!NuevoDia  BY <1>0, <1>2, <2>1, DeliveryVista
  <2> QED BY <2>2, Zenon DEF V!Next
<1>3. CASE Main
  <2>1. P!Tarea /\ te.pc = "libre" /\ UNCHANGED deEntrega
    BY <1>3, Zenon DEF Main, P!Tarea
  <2> QED BY <1>1, <2>1
<1>4. CASE Delivery
  <2>1. E!Tarea /\ tp.pc = "libre" /\ UNCHANGED deProceso  BY <1>4, Zenon DEF Delivery
  <2> QED BY <1>2, <2>1
<1>5. CASE Fallar
  <2>1. \/ P!Fallar /\ UNCHANGED deEntrega
        \/ UNCHANGED deProceso /\ E!Fallar
    BY <1>5, Zenon DEF Fallar
  <2>2. P!Fallar => te.pc = "libre"  BY Zenon DEF P!Fallar, Turnos
  <2>3. E!Fallar => tp.pc = "libre"  BY Zenon DEF E!Fallar, Turnos
  <2> QED BY <1>1, <1>2, <2>1, <2>2, <2>3, Zenon
<1>6. CASE NuevoDia
  <2>1. E!NuevoDia /\ tp.pc = "libre" /\ UNCHANGED deProceso  BY <1>6, Zenon DEF NuevoDia
  <2> QED BY <1>2, <2>1
<1>7. ASSUME NEW r \in Pedido, Peticion(r) PROVE V!Next \/ UNCHANGED V!vars
  <2>1. /\ R!Pedir(r) \/ R!Atender(r) \/ R!Excepcion(r)
        /\ UNCHANGED deEntrega /\ tp' = tp /\ base' = base
    BY <1>7, Zenon DEF Peticion, deProceso
  <2> QED BY <2>1, PeticionVista
<1>8. CASE UNCHANGED vars
  <2>1. loc' = loc /\ UNCHANGED deEntrega /\ base' = base /\ tp' = tp
    BY <1>8, Zenon DEF vars, deProceso
  <2> QED BY <2>1 DEF V!vars, Resuelto, deEntrega
<1> QED BY <1>3, <1>4, <1>5, <1>6, <1>7, <1>8, Zenon DEF Next

\* Delivery in the shop is the delivery Entrega describes, beside nothing that
\* Entrega leaves out: main, its stops half way and the requests show to it as
\* orders processed one at a time, each with its broken lines, and units moved.
THEOREM EntregaSola == Spec => CumpleEntrega
<1>1. Spec => []Turnos
  <2>1. Completo => Turnos  BY DEF Completo
  <2> QED BY <2>1, InitTypeOK, NextTypeOK, InitCompleto, NextCompleto, PTL DEF Spec
<1>2. Spec => []Listadas
  <2>1. Vecinos => Listadas  BY DEF Vecinos
  <2> QED BY <2>1, InitVecinos, NextVecinos, PTL DEF Spec
<1>3. Spec => []EnOrden
  BY <1>1, TypeCorrect, InitVista, NextEnOrden, PTL DEF Spec
<1> QED
  BY <1>1, <1>2, <1>3, TypeCorrect, InitVista, NextVista, PTL
  DEF Spec, CumpleEntrega, V!Spec
=============================================================================
