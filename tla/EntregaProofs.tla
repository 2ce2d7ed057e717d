--------------------------- MODULE EntregaProofs ----------------------------
(***************************************************************************)
(* Theorems about Entrega, for any orders, lines, units and days.          *)
(***************************************************************************)
EXTENDS Entrega, FiniteSetTheorems, TLAPS

-----------------------------------------------------------------------------
(* Type correctness *)

LEMMA OciosoTipo == Ocioso \in Tareas
<1>1. (CHOOSE g \in Archivo : TRUE) \in Archivo  BY EntregaAssumption
<1>2. (CHOOSE l \in Linea : TRUE) \in Linea  BY EntregaAssumption
<1> QED BY <1>1, <1>2 DEF Ocioso, Tareas, Pasos

\* What a listing names was in the listed depot.
LEMMA ListadoSubset ==
    ASSUME NEW d, NEW s, NEW n, NEW L \in Listado(d, s, n)
    PROVE  L \subseteq Unidades /\ \A u \in L : SkuDe[u] = s
BY DEF Listado, Stock

\* A step of the task leaves its local state well typed.
LEMMA TareaTipo ==
    ASSUME t \in Tareas, Tarea \/ Fallar
    PROVE  t' \in Tareas
<1> USE DEF Tareas, Pasos
<1>1. CASE Iniciar
  <2>1. {g \in Archivo : EnFecha(g)} \in SUBSET Archivo  OBVIOUS
  <2> QED BY <1>1, <2>1, OciosoTipo DEF Iniciar
<1>2. ASSUME NEW g \in Archivo, Abrir(g) PROVE t' \in Tareas
  <2>1. PorEntregar(g) \in SUBSET Linea  BY DEF PorEntregar, LineasDe
  <2> QED BY <1>2, <2>1 DEF Abrir
<1>3. CASE Terminar \/ Fallar
  BY <1>3, OciosoTipo DEF Terminar, Fallar
<1>4. CASE EmpezarDespacho
  <2>1. {s \in Skus : Stock("espera", s) # {}} \in SUBSET Skus  OBVIOUS
  <2> QED BY <1>4, <2>1 DEF EmpezarDespacho
<1>5. ASSUME NEW l \in Linea, ListarEspera(l) PROVE t' \in Tareas
  <2>1. PICK L \in Listado("espera", SkuLinea[l], Limite(l)) :
            t' = [t EXCEPT !.pc = "unidad", !.linea = l, !.pend = L]
    BY <1>5 DEF ListarEspera
  <2>2. L \in SUBSET Unidades  BY ListadoSubset
  <2> QED BY <2>1, <2>2
<1>6. ASSUME NEW l \in Linea, NoEnEspera(l) PROVE t' \in Tareas
  BY <1>6 DEF NoEnEspera
<1>7. ASSUME NEW l \in Linea, CerrarLinea(l) PROVE t' \in Tareas
  <2>1. CASE t' = [t EXCEPT !.pc = "anotar", !.linea = l]  BY <2>1
  <2>2. ASSUME NEW L \in Listado("principal", SkuLinea[l], CantLinea[l]),
               t' = [t EXCEPT !.pc = "reponer", !.linea = l, !.pend = L]
        PROVE  t' \in Tareas
    <3>1. L \in SUBSET Unidades  BY ListadoSubset
    <3> QED BY <2>2, <3>1
  <2> QED BY <1>7, <2>1, <2>2 DEF CerrarLinea
<1>8. ASSUME NEW u \in Unidades, Sacar(u) PROVE t' \in Tareas
  BY <1>8 DEF Sacar
<1>9. ASSUME NEW u \in Unidades, Despachar(u) PROVE t' \in Tareas
  <2>1. Cuenta(TRUE) = 1 /\ Cuenta(FALSE) = 0  BY DEF Cuenta
  <2>2. t.total + 1 \in Nat /\ t.total + 0 \in Nat  OBVIOUS
  <2>3. \/ t' = [t EXCEPT !.mano = {}, !.total = t.total + 1]
        \/ t' = [t EXCEPT !.mano = {}, !.total = t.total + 0]
    BY <1>9, <2>1 DEF Despachar
  <2> QED BY <2>2, <2>3
<1>10. ASSUME NEW u \in Unidades, Reponer(u) PROVE t' \in Tareas
  BY <1>10 DEF Reponer
<1>11. CASE LineaDespachada
  <2>1. SkuLinea[t.linea] \in Skus  BY EntregaAssumption
  <2> QED BY <1>11, <2>1 DEF LineaDespachada
<1>12. CASE DespacharListo \/ Anotar \/ Reportar \/ Repuesta
  <2>1. CASE DespacharListo  BY <2>1 DEF DespacharListo
  <2>2. CASE Anotar  BY <2>2 DEF Anotar
  <2>3. CASE Reportar  BY <2>3 DEF Reportar
  <2>4. CASE Repuesta  BY <2>4 DEF Repuesta
  <2> QED BY <1>12, <2>1, <2>2, <2>3, <2>4
<1>13. CASE ArchivoListo
  BY <1>13, OciosoTipo DEF ArchivoListo
<1> QED
  BY <1>1, <1>2, <1>3, <1>4, <1>5, <1>6, <1>7, <1>8, <1>9, <1>10, <1>11, <1>12,
     <1>13 DEF Tarea

\* A call to the warehouse leaves every unit somewhere.
LEMMA LlamadaLocOK ==
    ASSUME LocOK, NEW u \in Unidades,
           \/ loc' = loc \/ MoveStock(u, "espera") \/ MoveStock(u, "despacho")
           \/ MoveStock(u, "principal") \/ DeleteStock(u) \/ PedidoMueve(u)
    PROVE  LocOK'
BY DEF LocOK, MoveStock, MoveStockBodega, DeleteStock, PedidoMueve, Lugares, Depositos

\* The unit that a step dispatches is recorded for the line at hand.
LEMMA EntregadasTipo ==
    ASSUME t \in Tareas, entregadas \in [Linea -> SUBSET Unidades],
           NEW u \in Unidades,
           \/ entregadas' = entregadas
           \/ entregadas' = [entregadas EXCEPT ![t.linea] = @ \cup {u}]
    PROVE  entregadas' \in [Linea -> SUBSET Unidades]
BY DEF Tareas

LEMMA InitTypeOK == Init => TypeOK
<1> SUFFICES ASSUME Init PROVE TypeOK  OBVIOUS
<1>1. LocOK  BY DEF Init, LocOK, Lugares, Depositos
<1>2. base \in Base  BY DEF Init, Base
<1>3. 0 \in 0..MaxDia  BY EntregaAssumption
<1>4. entregadas \in [Linea -> SUBSET Unidades]  BY DEF Init
<1>5. t \in Tareas  BY OciosoTipo DEF Init
<1> QED BY <1>1, <1>2, <1>3, <1>4, <1>5 DEF Init, TypeOK

LEMMA NextTypeOK == TypeOK /\ [Next]_vars => TypeOK'
<1> SUFFICES ASSUME TypeOK, [Next]_vars PROVE TypeOK'  OBVIOUS
<1>0. /\ LocOK /\ base \in Base /\ reportes \subseteq Linea
      /\ dw \subseteq Linea \X Nat /\ hoy \in 0..MaxDia /\ corrio \in BOOLEAN
      /\ t \in Tareas /\ entregadas \in [Linea -> SUBSET Unidades]
      /\ t.linea \in Linea /\ t.total \in Nat
      /\ t.mano \subseteq Unidades /\ t.pend \subseteq Unidades
  BY DEF TypeOK, Tareas
<1>1. CASE Tarea \/ Fallar
  <2>1. t' \in Tareas  BY <1>0, <1>1, TareaTipo
  <2>2. base' = base /\ hoy' = hoy
    BY <1>1
    DEF Tarea, Fallar, Iniciar, Abrir, Terminar, EmpezarDespacho, ListarEspera,
        NoEnEspera, CerrarLinea, Sacar, Despachar, Reponer, LineaDespachada,
        DespacharListo, Anotar, Reportar, Repuesta, ArchivoListo
  <2>3. corrio' \in BOOLEAN
    BY <1>0, <1>1
    DEF Tarea, Fallar, Iniciar, Abrir, Terminar, EmpezarDespacho, ListarEspera,
        NoEnEspera, CerrarLinea, Sacar, Despachar, Reponer, LineaDespachada,
        DespacharListo, Anotar, Reportar, Repuesta, ArchivoListo
  <2>4. reportes' \subseteq Linea /\ dw' \subseteq Linea \X Nat
    <3>1. CASE Anotar  BY <1>0, <3>1 DEF Anotar
    <3>2. CASE Reportar  BY <1>0, <3>2 DEF Reportar
    <3>3. CASE ~Anotar /\ ~Reportar
      BY <1>0, <1>1, <3>3
      DEF Tarea, Fallar, Iniciar, Abrir, Terminar, EmpezarDespacho, ListarEspera,
          NoEnEspera, CerrarLinea, Sacar, Despachar, Reponer, LineaDespachada,
          DespacharListo, Repuesta, ArchivoListo
    <3> QED BY <3>1, <3>2, <3>3
  <2>5. LocOK' /\ entregadas' \in [Linea -> SUBSET Unidades]
    <3>1. ASSUME NEW u \in Unidades, Sacar(u) \/ Despachar(u) \/ Reponer(u)
          PROVE  LocOK' /\ entregadas' \in [Linea -> SUBSET Unidades]
      BY <1>0, <3>1, LlamadaLocOK, EntregadasTipo DEF Sacar, Despachar, Reponer
    <3>2. CASE Fallar
      <4>1. CASE loc' = loc /\ UNCHANGED entregadas  BY <1>0, <4>1 DEF LocOK
      <4>2. ASSUME NEW u \in t.mano, DeleteStock(u),
                   entregadas' = [entregadas EXCEPT ![t.linea] = @ \cup {u}]
            PROVE  LocOK' /\ entregadas' \in [Linea -> SUBSET Unidades]
        BY <1>0, <4>2, LlamadaLocOK, EntregadasTipo
      <4>3. ASSUME NEW u \in t.pend, MoveStock(u, "despacho") \/ MoveStock(u, "espera"),
                   UNCHANGED entregadas
            PROVE  LocOK' /\ entregadas' \in [Linea -> SUBSET Unidades]
        BY <1>0, <4>3, LlamadaLocOK
      <4> QED BY <3>2, <4>1, <4>2, <4>3 DEF Fallar
    <3>3. CASE ~Fallar /\ ~\E u \in Unidades : Sacar(u) \/ Despachar(u) \/ Reponer(u)
      <4>1. loc' = loc /\ entregadas' = entregadas
        BY <1>1, <3>3
        DEF Tarea, Iniciar, Abrir, Terminar, EmpezarDespacho, ListarEspera,
            NoEnEspera, CerrarLinea, LineaDespachada, DespacharListo, Anotar,
            Reportar, Repuesta, ArchivoListo
      <4> QED BY <1>0, <4>1 DEF LocOK
    <3> QED BY <3>1, <3>2, <3>3
  <2> QED BY <1>0, <2>1, <2>2, <2>3, <2>4, <2>5 DEF TypeOK
<1>2. CASE NuevoDia
  <2>1. hoy' \in 0..MaxDia  BY <1>0, <1>2, EntregaAssumption DEF NuevoDia
  <2> QED BY <1>0, <1>2, <2>1 DEF NuevoDia, TypeOK, LocOK
<1>3. ASSUME NEW g \in Archivo, Procesar(g) PROVE TypeOK'
  <2>1. PICK Q \in SUBSET LineasDe(g) :
            base' = [processed |-> [base.processed EXCEPT ![g] = TRUE],
                     broked |-> [l \in Linea |-> base.broked[l] \/ l \in Q],
                     delivered |-> base.delivered]
    BY <1>3 DEF Procesar
  <2>2. base' \in Base  BY <1>0, <2>1 DEF Base
  <2> QED BY <1>0, <1>3, <2>2 DEF Procesar, TypeOK, LocOK
<1>4. ASSUME NEW u \in Unidades, Ajeno(u) PROVE TypeOK'
  BY <1>0, <1>4, LlamadaLocOK DEF Ajeno, TypeOK
<1>5. CASE Preparar
  <2>1. LocOK'
    <3>1. ASSUME NEW u \in Unidades, MoveStock(u, "principal") \/ MoveStock(u, "espera")
          PROVE  LocOK'
      BY <1>0, <3>1, LlamadaLocOK
    <3>2. ASSUME NEW D \in SUBSET Unidades, NEW d \in {"recepcion", "pulmon"},
                 loc' = [u \in Unidades |-> IF u \in D THEN d ELSE loc[u]]
          PROVE  LocOK'
      BY <1>0, <3>2 DEF LocOK, Lugares, Depositos
    <3> QED BY <1>5, <3>1, <3>2 DEF Preparar
  <2> QED BY <1>0, <1>5, <2>1 DEF Preparar, TypeOK
<1>6. CASE UNCHANGED vars  BY <1>0, <1>6 DEF vars, TypeOK, LocOK
<1> QED BY <1>1, <1>2, <1>3, <1>4, <1>5, <1>6 DEF Next

\* Every state of the dispatch is well typed; in particular the total recorded
\* never gets negative.
THEOREM TypeCorrect == Spec => []TypeOK
<1> QED BY InitTypeOK, NextTypeOK, PTL DEF Spec

-----------------------------------------------------------------------------
(* What leaves is due *)

\* A line that may be dispatched today.
Debida(l) ==
    /\ ~base.broked[l] /\ base.processed[ArchivoDe[l]]
    /\ Fecha[ArchivoDe[l]] <= hoy

\* What the running task knows stays true while it runs: the orders it has left
\* are due, the lines it dispatches are due and not broken, and the units in
\* its hands are of the product of the line at hand.
EnMarcha ==
    /\ t.pc # "libre" => \A g \in t.cola : EnFecha(g)
    /\ t.pc \notin {"libre", "archivo"} => \A l \in t.prods : Debida(l)
    /\ t.pc \notin {"libre", "archivo", "crm"} => t.todo \subseteq t.prods
    /\ t.pc = "unidad" => /\ t.linea \in t.prods
                          /\ \A u \in t.pend \cup t.mano : SkuDe[u] = SkuLinea[t.linea]
    /\ t.mano # {} => t.pc = "unidad"

\* While the task runs nobody else changes what it read: a step of the task
\* keeps EnMarcha.
LEMMA TareaEnMarcha ==
    ASSUME TypeOK, EnMarcha, Tarea \/ Fallar
    PROVE  EnMarcha'
<1> USE DEF EnMarcha
<1>0. t \in Tareas  BY DEF TypeOK
<1>a. base' = base /\ hoy' = hoy
  BY DEF Tarea, Fallar, Iniciar, Abrir, Terminar, EmpezarDespacho, ListarEspera,
         NoEnEspera, CerrarLinea, Sacar, Despachar, Reponer, LineaDespachada,
         DespacharListo, Anotar, Reportar, Repuesta, ArchivoListo
<1>b. /\ \A g \in Archivo : EnFecha(g)' <=> EnFecha(g)
      /\ \A l \in Linea : Debida(l)' <=> Debida(l)
  BY <1>a DEF EnFecha, Debida
<1>c. t.cola \subseteq Archivo /\ t.prods \subseteq Linea  BY <1>0 DEF Tareas
<1>1. CASE Iniciar
  BY <1>b, <1>1 DEF Iniciar, Ocioso
<1>2. ASSUME NEW g \in Archivo, Abrir(g) PROVE EnMarcha'
  <2>1. /\ t.pc = "archivo" /\ g \in t.cola /\ t.mano = {}
        /\ \/ t' = [t EXCEPT !.cola = @ \ {g}]
           \/ t' = [t EXCEPT !.pc = "crm", !.f = g, !.prods = PorEntregar(g)]
    BY <1>2 DEF Abrir, Primero
  <2>2. EnFecha(g)  BY <2>1
  <2>3. \A l \in PorEntregar(g) : l \in Linea /\ Debida(l)
    BY <2>2 DEF PorEntregar, LineasDe, EnFecha, Debida
  <2>4. CASE t' = [t EXCEPT !.cola = @ \ {g}]
    BY <1>0, <1>b, <1>c, <2>1, <2>4 DEF Tareas
  <2>5. CASE t' = [t EXCEPT !.pc = "crm", !.f = g, !.prods = PorEntregar(g)]
    BY <1>0, <1>b, <1>c, <2>1, <2>3, <2>5 DEF Tareas
  <2> QED BY <2>1, <2>4, <2>5
<1>3. CASE Terminar \/ Fallar
  BY <1>3 DEF Terminar, Fallar, Ocioso
<1>4. CASE EmpezarDespacho
  BY <1>0, <1>b, <1>c, <1>4 DEF EmpezarDespacho, Tareas
<1>5. ASSUME NEW l \in Linea, ListarEspera(l) PROVE EnMarcha'
  <2>1. PICK L \in Listado("espera", SkuLinea[l], Limite(l)) :
            t' = [t EXCEPT !.pc = "unidad", !.linea = l, !.pend = L]
    BY <1>5 DEF ListarEspera
  <2>2. \A u \in L : SkuDe[u] = SkuLinea[l]  BY ListadoSubset
  <2>3. t.pc = "despachar" /\ l \in t.todo /\ t.mano = {}
    BY <1>5 DEF ListarEspera
  <2> QED BY <1>0, <1>b, <1>c, <2>1, <2>2, <2>3 DEF Tareas
<1>6. ASSUME NEW l \in Linea, NoEnEspera(l) PROVE EnMarcha'
  BY <1>0, <1>b, <1>c, <1>6 DEF NoEnEspera, Tareas
<1>7. ASSUME NEW l \in Linea, CerrarLinea(l) PROVE EnMarcha'
  <2>1. t.pc = "cerrar" /\ t.mano = {}  BY <1>7 DEF CerrarLinea
  <2>2. /\ t'.pc \in {"anotar", "reponer"} /\ t'.cola = t.cola
        /\ t'.prods = t.prods /\ t'.todo = t.todo /\ t'.mano = t.mano
    BY <1>0, <1>7 DEF CerrarLinea, Tareas
  <2> QED BY <1>b, <1>c, <2>1, <2>2
<1>8. ASSUME NEW u \in Unidades, Sacar(u) PROVE EnMarcha'
  BY <1>0, <1>b, <1>c, <1>8 DEF Sacar, Tareas
<1>9. ASSUME NEW u \in Unidades, Despachar(u) PROVE EnMarcha'
  <2>1. /\ t'.pc = t.pc /\ t'.cola = t.cola /\ t'.prods = t.prods
        /\ t'.todo = t.todo /\ t'.linea = t.linea /\ t'.pend = t.pend /\ t'.mano = {}
    BY <1>0, <1>9 DEF Despachar, Tareas
  <2> QED BY <1>b, <1>c, <2>1
<1>10. ASSUME NEW u \in Unidades, Reponer(u) PROVE EnMarcha'
  <2>1. /\ t.pc = "reponer" /\ t'.pc = t.pc /\ t'.cola = t.cola
        /\ t'.prods = t.prods /\ t'.todo = t.todo /\ t'.mano = t.mano
    BY <1>0, <1>10 DEF Reponer, Tareas
  <2> QED BY <1>b, <1>c, <2>1
<1>11. CASE LineaDespachada \/ DespacharListo \/ Anotar \/ Reportar \/ Repuesta
  <2>1. /\ t.pc \in {"unidad", "despachar", "anotar", "reportar", "reponer"}
        /\ t'.pc \in {"despachar", "cerrar", "reportar"} /\ t.mano = {}
        /\ t'.cola = t.cola /\ t'.prods = t.prods /\ t'.mano = t.mano
        /\ t'.todo \subseteq t.todo \cup t.prods
    BY <1>0, <1>11
    DEF LineaDespachada, DespacharListo, Anotar, Reportar, Repuesta, Tareas
  <2> QED BY <1>b, <1>c, <2>1
<1>12. CASE ArchivoListo
  BY <1>b, <1>c, <1>12 DEF ArchivoListo, Ocioso
<1> QED
  BY <1>1, <1>2, <1>3, <1>4, <1>5, <1>6, <1>7, <1>8, <1>9, <1>10, <1>11, <1>12
  DEF Tarea

LEMMA NextEnMarcha == TypeOK /\ EnMarcha /\ [Next]_vars => EnMarcha'
<1> SUFFICES ASSUME TypeOK, EnMarcha, [Next]_vars PROVE EnMarcha'  OBVIOUS
<1>1. CASE Tarea \/ Fallar  BY <1>1, TareaEnMarcha
<1>2. CASE NuevoDia  BY <1>2 DEF NuevoDia, EnMarcha
<1>3. ASSUME NEW g \in Archivo, Procesar(g) PROVE EnMarcha'
  BY <1>3 DEF Procesar, EnMarcha
<1>4. ASSUME UNCHANGED vars \/ Preparar \/ \E u \in Unidades : Ajeno(u)
      PROVE  EnMarcha'
  BY <1>4 DEF Ajeno, Preparar, vars, EnMarcha, EnFecha, Debida
<1> QED BY <1>1, <1>2, <1>3, <1>4 DEF Next

\* A unit that left is never moved again; the one a step dispatches was in the
\* dispatch depot.
LEMMA NextSalida ==
    TypeOK /\ EnMarcha /\ SalidaJustificada /\ [Next]_vars => SalidaJustificada'
<1> SUFFICES ASSUME TypeOK, EnMarcha, SalidaJustificada, [Next]_vars
             PROVE  SalidaJustificada'
  OBVIOUS
<1>0. /\ t \in Tareas /\ entregadas \in [Linea -> SUBSET Unidades]
      /\ loc \in [Unidades -> Lugares] /\ t.linea \in Linea
      /\ t.mano \subseteq Unidades /\ t.pend \subseteq Unidades
      /\ \A l \in Linea : ArchivoDe[l] \in Archivo
  BY EntregaAssumption DEF TypeOK, LocOK, Tareas
<1>1. ASSUME NEW u \in Unidades,
             \/ MoveStock(u, "espera") \/ MoveStock(u, "despacho")
             \/ MoveStock(u, "principal") \/ PedidoMueve(u) \/ DeleteStock(u)
      PROVE  \A v \in Unidades : loc[v] = "cliente" => loc'[v] = "cliente"
  BY <1>0, <1>1
  DEF MoveStock, MoveStockBodega, DeleteStock, PedidoMueve, Depositos
<1>2. ASSUME \A v \in Unidades : loc[v] = "cliente" => loc'[v] = "cliente",
             entregadas' = entregadas, base' = base, hoy' = hoy
      PROVE  SalidaJustificada'
  BY <1>0, <1>2 DEF SalidaJustificada
<1>3. ASSUME NEW u \in t.mano, DeleteStock(u), base' = base, hoy' = hoy,
             entregadas' = [entregadas EXCEPT ![t.linea] = @ \cup {u}]
      PROVE  SalidaJustificada'
  <2>1. Debida(t.linea) /\ SkuDe[u] = SkuLinea[t.linea]  BY <1>3 DEF EnMarcha
  <2>2. u \in Unidades /\ loc[u] = "despacho" /\ loc'[u] = "cliente"
    BY <1>0, <1>3 DEF DeleteStock
  <2>3. \A l \in Linea : u \notin entregadas[l]  BY <2>2 DEF SalidaJustificada
  <2>4. \A v \in Unidades : loc[v] = "cliente" => loc'[v] = "cliente"
    BY <1>1, <1>3, <2>2
  <2>5. /\ entregadas'[t.linea] = entregadas[t.linea] \cup {u}
        /\ \A l \in Linea \ {t.linea} : entregadas'[l] = entregadas[l]
    BY <1>0, <1>3
  <2>6. ASSUME NEW l \in Linea, NEW v \in entregadas'[l]
        PROVE  /\ loc'[v] = "cliente" /\ SkuDe[v] = SkuLinea[l]
               /\ ~base'.broked[l] /\ base'.processed[ArchivoDe[l]]
               /\ Fecha[ArchivoDe[l]] <= hoy'
    <3>1. CASE v \in entregadas[l]
      BY <1>0, <1>3, <2>4, <3>1 DEF SalidaJustificada
    <3>2. CASE v = u /\ l = t.linea
      BY <1>3, <2>1, <2>2, <3>2 DEF Debida
    <3> QED BY <2>5, <2>6, <3>1, <3>2
  <2>7. \A l, k \in Linea : l # k => entregadas'[l] \cap entregadas'[k] = {}
    BY <2>3, <2>5 DEF SalidaJustificada
  <2> QED BY <2>6, <2>7 DEF SalidaJustificada
<1>4. CASE Tarea \/ Fallar
  <2>1. base' = base /\ hoy' = hoy
    BY <1>4
    DEF Tarea, Fallar, Iniciar, Abrir, Terminar, EmpezarDespacho, ListarEspera,
        NoEnEspera, CerrarLinea, Sacar, Despachar, Reponer, LineaDespachada,
        DespacharListo, Anotar, Reportar, Repuesta, ArchivoListo
  <2>2. ASSUME NEW u \in Unidades, Sacar(u) \/ Reponer(u) PROVE SalidaJustificada'
    BY <1>1, <1>2, <2>1, <2>2 DEF Sacar, Reponer
  <2>3. ASSUME NEW u \in Unidades, Despachar(u) PROVE SalidaJustificada'
    BY <1>2, <1>3, <2>1, <2>3 DEF Despachar
  <2>4. CASE Fallar
    <3>1. ASSUME NEW u \in t.pend, MoveStock(u, "despacho") \/ MoveStock(u, "espera"),
                 UNCHANGED entregadas
          PROVE  SalidaJustificada'
      BY <1>0, <1>1, <1>2, <2>1, <3>1
    <3>2. CASE loc' = loc /\ UNCHANGED entregadas  BY <1>2, <2>1, <3>2
    <3> QED BY <1>3, <2>1, <2>4, <3>1, <3>2 DEF Fallar
  <2>5. CASE ~Fallar /\ ~\E u \in Unidades : Sacar(u) \/ Despachar(u) \/ Reponer(u)
    <3>1. loc' = loc /\ entregadas' = entregadas
      BY <1>4, <2>5
      DEF Tarea, Iniciar, Abrir, Terminar, EmpezarDespacho, ListarEspera,
          NoEnEspera, CerrarLinea, LineaDespachada, DespacharListo, Anotar,
          Reportar, Repuesta, ArchivoListo
    <3> QED BY <1>2, <2>1, <3>1
  <2> QED BY <1>4, <2>2, <2>3, <2>4, <2>5
<1>5. CASE NuevoDia
  <2>1. hoy \in Nat /\ Fecha \in [Archivo -> Nat]
    BY EntregaAssumption DEF TypeOK
  <2>2. /\ loc' = loc /\ base' = base /\ entregadas' = entregadas /\ hoy' = hoy + 1
    BY <1>5 DEF NuevoDia
  <2>3. \A g \in Archivo : Fecha[g] <= hoy => Fecha[g] <= hoy'  BY <2>1, <2>2
  <2> QED BY <1>0, <2>2, <2>3 DEF SalidaJustificada
<1>6. ASSUME NEW g \in Archivo, Procesar(g) PROVE SalidaJustificada'
  <2>1. PICK Q \in SUBSET LineasDe(g) :
            base' = [processed |-> [base.processed EXCEPT ![g] = TRUE],
                     broked |-> [l \in Linea |-> base.broked[l] \/ l \in Q],
                     delivered |-> base.delivered]
    BY <1>6 DEF Procesar
  <2>2. base \in Base /\ ~base.processed[g]  BY <1>6 DEF TypeOK, Procesar
  <2>3. /\ \A l \in Linea : base'.broked[l] = (base.broked[l] \/ l \in Q)
        /\ \A h \in Archivo : base.processed[h] => base'.processed[h]
    BY <2>1, <2>2 DEF Base
  <2>4. \A l \in Q : ~base.processed[ArchivoDe[l]]  BY <2>2 DEF LineasDe
  <2>5. loc' = loc /\ entregadas' = entregadas /\ hoy' = hoy  BY <1>6 DEF Procesar
  <2> QED BY <1>0, <2>3, <2>4, <2>5 DEF SalidaJustificada
<1>7. ASSUME NEW u \in Unidades, Ajeno(u) PROVE SalidaJustificada'
  BY <1>1, <1>2, <1>7 DEF Ajeno
<1>8. CASE Preparar
  <2>1. \A v \in Unidades : loc[v] = "cliente" => loc'[v] = "cliente"
    BY <1>1, <1>8 DEF Preparar
  <2> QED BY <1>2, <1>8, <2>1 DEF Preparar
<1>9. CASE UNCHANGED vars  BY <1>2, <1>9 DEF vars
<1> QED BY <1>4, <1>5, <1>6, <1>7, <1>8, <1>9 DEF Next

\* Whatever requests do to the units meanwhile and wherever the task is stopped,
\* a unit leaves only for a due, processed and unbroken line of its product, and
\* for one line.
THEOREM SalidaSiempre == Spec => []SalidaJustificada
<1>1. Init => EnMarcha /\ SalidaJustificada
  BY DEF Init, Ocioso, EnMarcha, SalidaJustificada
<1> QED BY <1>1, TypeCorrect, NextEnMarcha, NextSalida, PTL DEF Spec

-----------------------------------------------------------------------------
(* No line is dispatched more often than once a day *)

EnVuelo == {"despachar", "unidad", "cerrar", "anotar", "reportar", "reponer"}

\* A line that today's run has still to come to, or comes to now.
Pendiente(l) ==
    \/ ~corrio
    \/ t.pc \in {"archivo", "crm"} /\ ArchivoDe[l] \in t.cola
    \/ t.pc \in EnVuelo /\ ArchivoDe[l] \in t.cola \ {t.f}
    \/ t.pc = "despachar" /\ l \in t.todo
    \/ t.pc = "unidad" /\ l \in t.todo \ {t.linea}

\* What the days before today may have sent.
Antes(l) == CantLinea[l] * (hoy - Fecha[ArchivoDe[l]])

\* The task runs once a day, and the lines at hand are those of one order.
UnaPasada ==
    /\ t.pc # "libre" => corrio
    /\ t.pc \notin {"libre", "archivo"} => t.prods \subseteq LineasDe(t.f) /\ t.f \in t.cola

\* What left for a line, with what is on its way, is within the days.
DiaADia ==
    /\ \A l \in Linea : entregadas[l] # {} =>
           /\ Cardinality(entregadas[l]) <= Antes(l) + CantLinea[l]
           /\ Pendiente(l) => Cardinality(entregadas[l]) <= Antes(l)
    /\ t.pc = "unidad" =>
           Cardinality(entregadas[t.linea] \cup t.pend \cup t.mano)
               <= Antes(t.linea) + CantLinea[t.linea]

\* A listing with a limit is no longer than it.
LEMMA ListadoAcotado ==
    ASSUME NEW d, NEW s, NEW n \in Nat \ {0}, NEW L \in Listado(d, s, n)
    PROVE  IsFiniteSet(L) /\ Cardinality(L) \in Nat /\ Cardinality(L) <= n
<1>1. L \in SUBSET Unidades  BY ListadoSubset
<1>2. IsFiniteSet(L)  BY <1>1, FS_Subset, BodegaAssumption
<1>3. Cardinality(L) \in Nat  BY <1>2, FS_CardinalityType
<1>4. Cardinality(L) <= n  BY DEF Listado
<1> QED BY <1>2, <1>3, <1>4

\* Fewer units than some are no more of them.
LEMMA ContarMenos ==
    ASSUME NEW A \in SUBSET Unidades, NEW B \in SUBSET A
    PROVE  /\ IsFiniteSet(A) /\ IsFiniteSet(B)
           /\ Cardinality(A) \in Nat /\ Cardinality(B) \in Nat
           /\ Cardinality(B) <= Cardinality(A)
<1>1. IsFiniteSet(A)  BY FS_Subset, BodegaAssumption
<1>2. IsFiniteSet(B) /\ Cardinality(B) <= Cardinality(A)  BY <1>1, FS_Subset
<1> QED BY <1>1, <1>2, FS_CardinalityType

LEMMA ContarUnion ==
    ASSUME NEW A \in SUBSET Unidades, NEW B \in SUBSET Unidades
    PROVE  Cardinality(A \cup B) <= Cardinality(A) + Cardinality(B)
<1>1. /\ IsFiniteSet(A) /\ IsFiniteSet(B) /\ IsFiniteSet(A \cap B)
      /\ Cardinality(A) \in Nat /\ Cardinality(B) \in Nat
      /\ Cardinality(A \cap B) \in Nat
  BY ContarMenos
<1>2. Cardinality(A \cup B) = Cardinality(A) + Cardinality(B) - Cardinality(A \cap B)
  BY <1>1, FS_Union
<1> QED BY <1>1, <1>2

LEMMA AntesEntero ==
    ASSUME TypeOK, NEW l \in Linea
    PROVE  /\ Antes(l) \in Int /\ CantLinea[l] \in Nat \ {0}
           /\ Fecha[ArchivoDe[l]] <= hoy => Antes(l) >= 0
<1>1. /\ CantLinea[l] \in Nat \ {0} /\ Fecha[ArchivoDe[l]] \in Nat /\ hoy \in Nat
  <2>1. ArchivoDe[l] \in Archivo  BY EntregaAssumption
  <2>2. hoy \in Nat  BY EntregaAssumption DEF TypeOK
  <2> QED BY <2>1, <2>2, EntregaAssumption
<1>2. \A c, d \in Nat : c * d \in Nat  OBVIOUS
<1>3. \A c \in Nat, d \in Int : c * d \in Int  OBVIOUS
<1>4. Fecha[ArchivoDe[l]] <= hoy => hoy - Fecha[ArchivoDe[l]] \in Nat  BY <1>1
<1> QED BY <1>1, <1>2, <1>3, <1>4 DEF Antes

\* No step of the task makes a line due again, or opens another order.
LEMMA TareaUnaPasada ==
    ASSUME TypeOK, EnMarcha, UnaPasada, Tarea \/ Fallar
    PROVE  UnaPasada' /\ \A l \in Linea : Pendiente(l)' => Pendiente(l)
<1> DEFINE Bien == UnaPasada' /\ \A l \in Linea : Pendiente(l)' => Pendiente(l)
<1> USE DEF UnaPasada, Pendiente, EnVuelo
<1>0. t \in Tareas /\ EnMarcha  BY DEF TypeOK
<1>1. CASE Iniciar  BY <1>1 DEF Iniciar, Ocioso
<1>2. ASSUME NEW g \in Archivo, Abrir(g) PROVE Bien
  <2>1. /\ t.pc = "archivo" /\ g \in t.cola /\ corrio' = corrio
        /\ \/ t' = [t EXCEPT !.cola = @ \ {g}]
           \/ t' = [t EXCEPT !.pc = "crm", !.f = g, !.prods = PorEntregar(g)]
    BY <1>2 DEF Abrir, Primero
  <2>2. PorEntregar(g) \subseteq LineasDe(g)  BY DEF PorEntregar
  <2>3. CASE t' = [t EXCEPT !.cola = @ \ {g}]  BY <1>0, <2>1, <2>3 DEF Tareas
  <2>4. CASE t' = [t EXCEPT !.pc = "crm", !.f = g, !.prods = PorEntregar(g)]
    BY <1>0, <2>1, <2>2, <2>4 DEF Tareas
  <2> QED BY <2>1, <2>3, <2>4
<1>3. CASE Terminar \/ Fallar
  BY <1>3 DEF Terminar, Fallar, Ocioso
<1>4. CASE EmpezarDespacho
  <2>1. /\ t.pc = "crm" /\ t'.pc = "despachar" /\ t'.todo = t.prods /\ t'.cola = t.cola
        /\ t'.f = t.f /\ t'.prods = t.prods /\ corrio' = corrio
    BY <1>0, <1>4 DEF EmpezarDespacho, Tareas
  <2> QED BY <2>1 DEF LineasDe
<1>5. ASSUME NEW k \in Linea, ListarEspera(k) PROVE Bien
  <2>1. /\ t.pc = "despachar" /\ t'.pc = "unidad" /\ t'.todo = t.todo /\ t'.cola = t.cola
        /\ t'.f = t.f /\ t'.prods = t.prods /\ t'.linea = k /\ corrio' = corrio
    BY <1>0, <1>5 DEF ListarEspera, Tareas
  <2> QED BY <2>1
<1>6. ASSUME NEW k \in Linea, NoEnEspera(k) PROVE Bien
  BY <1>0, <1>6 DEF NoEnEspera, Tareas
<1>7. ASSUME NEW k \in Linea, CerrarLinea(k) PROVE Bien
  <2>1. /\ t.pc = "cerrar" /\ t'.pc \in {"anotar", "reponer"} /\ t'.cola = t.cola
        /\ t'.f = t.f /\ t'.prods = t.prods /\ corrio' = corrio
    BY <1>0, <1>7 DEF CerrarLinea, Tareas
  <2> QED BY <2>1
<1>8. ASSUME NEW u \in Unidades, Sacar(u) \/ Despachar(u) \/ Reponer(u) PROVE Bien
  <2>1. /\ t'.pc = t.pc /\ t'.cola = t.cola /\ t'.f = t.f /\ t'.prods = t.prods
        /\ t'.todo = t.todo /\ t'.linea = t.linea /\ corrio' = corrio
    BY <1>0, <1>8 DEF Sacar, Despachar, Reponer, Tareas
  <2> QED BY <2>1
<1>9. CASE LineaDespachada
  <2>1. /\ t.pc = "unidad" /\ t'.pc = "despachar" /\ t'.todo = t.todo \ {t.linea}
        /\ t'.cola = t.cola /\ t'.f = t.f /\ t'.prods = t.prods /\ corrio' = corrio
    BY <1>0, <1>9 DEF LineaDespachada, Tareas
  <2> QED BY <2>1
<1>10. CASE DespacharListo \/ Anotar \/ Reportar \/ Repuesta
  <2>1. /\ t.pc \in EnVuelo /\ t'.pc \in {"cerrar", "reportar"}
        /\ t'.cola = t.cola /\ t'.f = t.f /\ t'.prods = t.prods /\ corrio' = corrio
    BY <1>0, <1>10 DEF DespacharListo, Anotar, Reportar, Repuesta, Tareas
  <2> QED BY <2>1
<1>11. CASE ArchivoListo
  BY <1>11 DEF ArchivoListo, Ocioso
<1> QED
  BY <1>1, <1>2, <1>3, <1>4, <1>5, <1>6, <1>7, <1>8, <1>9, <1>10, <1>11 DEF Tarea

\* What a step of the task sends was on its way for the line at hand.
LEMMA TareaEnvia ==
    ASSUME TypeOK, EnMarcha, Tarea \/ Fallar
    PROVE  \/ entregadas' = entregadas
           \/ /\ t.pc = "unidad"
              /\ \E u \in t.mano :
                     entregadas' = [entregadas EXCEPT ![t.linea] = @ \cup {u}]
<1>1. ASSUME NEW u, u \in t.mano PROVE t.pc = "unidad"  BY <1>1 DEF EnMarcha
<1>2. CASE Fallar  BY <1>1, <1>2 DEF Fallar
<1>3. ASSUME NEW u \in Unidades, Despachar(u)
      PROVE  \/ entregadas' = entregadas
             \/ /\ t.pc = "unidad" /\ u \in t.mano
                /\ entregadas' = [entregadas EXCEPT ![t.linea] = @ \cup {u}]
  BY <1>1, <1>3 DEF Despachar
<1>4. CASE ~Fallar /\ ~\E u \in Unidades : Despachar(u)
  BY <1>4 DEF Tarea, Iniciar, Abrir, Terminar, EmpezarDespacho, ListarEspera, NoEnEspera,
     CerrarLinea, Sacar, Reponer, LineaDespachada, DespacharListo, Anotar, Reportar,
     Repuesta, ArchivoListo
<1> QED BY <1>2, <1>3, <1>4

\* What is on its way only shrinks, once it is listed.
LEMMA TareaEnCamino ==
    ASSUME TypeOK, EnMarcha, Tarea \/ Fallar, t'.pc = "unidad"
    PROVE  \/ /\ t.pc = "unidad" /\ t'.linea = t.linea
              /\ entregadas'[t.linea] \cup t'.pend \cup t'.mano
                    \subseteq entregadas[t.linea] \cup t.pend \cup t.mano
           \/ \E l \in t.todo : \E L \in Listado("espera", SkuLinea[l], CantLinea[l]) :
                  /\ t.pc = "despachar" /\ l \in Linea
                  /\ t'.linea = l /\ t'.pend = L /\ t'.mano = {}
                  /\ entregadas' = entregadas
<1>0. t \in Tareas /\ t.linea \in Linea /\ entregadas \in [Linea -> SUBSET Unidades]
  BY DEF TypeOK, Tareas
<1>1. ASSUME NEW u \in Unidades, Sacar(u)
      PROVE  /\ t.pc = "unidad" /\ t'.linea = t.linea
             /\ entregadas'[t.linea] \cup t'.pend \cup t'.mano
                   \subseteq entregadas[t.linea] \cup t.pend \cup t.mano
  BY <1>0, <1>1 DEF Sacar, Tareas
<1>2. ASSUME NEW u \in Unidades, Despachar(u)
      PROVE  /\ t.pc = "unidad" /\ t'.linea = t.linea
             /\ entregadas'[t.linea] \cup t'.pend \cup t'.mano
                   \subseteq entregadas[t.linea] \cup t.pend \cup t.mano
  <2>1. /\ u \in t.mano /\ t'.linea = t.linea /\ t'.pend = t.pend /\ t'.mano = {}
    BY <1>0, <1>2 DEF Despachar, Tareas
  <2>2. entregadas'[t.linea] \subseteq entregadas[t.linea] \cup {u}
    BY <1>0, <1>2 DEF Despachar
  <2>3. t.pc = "unidad"  BY <2>1 DEF EnMarcha
  <2> QED BY <2>1, <2>2, <2>3
<1>3. ASSUME NEW l \in Linea, ListarEspera(l)
      PROVE  \E L \in Listado("espera", SkuLinea[l], CantLinea[l]) :
                 /\ t.pc = "despachar" /\ l \in t.todo
                 /\ t'.linea = l /\ t'.pend = L /\ t'.mano = {}
                 /\ entregadas' = entregadas
  <2>1. PICK L \in Listado("espera", SkuLinea[l], Limite(l)) :
            t' = [t EXCEPT !.pc = "unidad", !.linea = l, !.pend = L]
    BY <1>3 DEF ListarEspera
  <2>2. t.pc = "despachar" /\ l \in t.todo /\ entregadas' = entregadas
    BY <1>3 DEF ListarEspera
  <2>3. t'.linea = l /\ t'.pend = L /\ t'.mano = {}
    BY <1>0, <2>1, <2>2 DEF Tareas, EnMarcha
  <2>4. L \in Listado("espera", SkuLinea[l], CantLinea[l])  BY DEF Limite
  <2> QED BY <2>2, <2>3, <2>4
<1>4. ASSUME Iniciar \/ Terminar \/ Fallar \/ ArchivoListo PROVE FALSE
  <2>1. t'.pc \in {"archivo", "libre"}
    <3>1. CASE Iniciar \/ ArchivoListo  BY <3>1, Zenon DEF Iniciar, ArchivoListo, Ocioso
    <3>2. CASE Terminar \/ Fallar  BY <3>2 DEF Terminar, Fallar, Ocioso
    <3> QED BY <1>4, <3>1, <3>2
  <2> QED BY <2>1
<1>5. ASSUME NEW g \in Archivo, Abrir(g) PROVE FALSE
  BY <1>0, <1>5 DEF Abrir, Tareas
<1>6. ASSUME NEW l \in Linea, NoEnEspera(l) \/ CerrarLinea(l) PROVE FALSE
  BY <1>0, <1>6 DEF NoEnEspera, CerrarLinea, Tareas
<1>7. ASSUME NEW u \in Unidades, Reponer(u) PROVE FALSE
  BY <1>0, <1>7 DEF Reponer, Tareas
<1>8. ASSUME \/ EmpezarDespacho \/ LineaDespachada \/ DespacharListo \/ Anotar
             \/ Reportar \/ Repuesta
      PROVE  FALSE
  BY <1>0, <1>8 DEF EmpezarDespacho, LineaDespachada, DespacharListo, Anotar,
     Reportar, Repuesta, Tareas
<1> QED
  BY <1>1, <1>2, <1>3, <1>4, <1>5, <1>6, <1>7, <1>8 DEF Tarea

LEMMA TareaDiaADia ==
    ASSUME TypeOK, EnMarcha, SalidaJustificada, UnaPasada, DiaADia, Tarea \/ Fallar,
           TypeOK'
    PROVE  DiaADia'
<1>0. /\ t \in Tareas /\ t.linea \in Linea /\ entregadas \in [Linea -> SUBSET Unidades]
      /\ t.pend \in SUBSET Unidades /\ t.mano \in SUBSET Unidades
      /\ entregadas' \in [Linea -> SUBSET Unidades]
  BY DEF TypeOK, Tareas
<1>1. \A l \in Linea : Antes(l)' = Antes(l)
  <2>1. hoy' = hoy
    BY DEF Tarea, Fallar, Iniciar, Abrir, Terminar, EmpezarDespacho, ListarEspera,
       NoEnEspera, CerrarLinea, Sacar, Despachar, Reponer, LineaDespachada,
       DespacharListo, Anotar, Reportar, Repuesta, ArchivoListo
  <2> QED BY <2>1 DEF Antes
<1>2. \A l \in Linea : Pendiente(l)' => Pendiente(l)  BY TareaUnaPasada
\* The line at hand is behind the task.
<1>3. t.pc = "unidad" => ~Pendiente(t.linea)
  <2> SUFFICES ASSUME t.pc = "unidad" PROVE ~Pendiente(t.linea)  OBVIOUS
  <2>1. corrio /\ t.linea \in LineasDe(t.f)  BY DEF UnaPasada, EnMarcha
  <2> QED BY <2>1 DEF Pendiente, EnVuelo, LineasDe
<1>4. ASSUME NEW l \in Linea, entregadas'[l] # {}
      PROVE  /\ Cardinality(entregadas'[l]) <= Antes(l) + CantLinea[l]
             /\ Pendiente(l)' => Cardinality(entregadas'[l]) <= Antes(l)
  <2>1. CASE entregadas'[l] = entregadas[l]
    BY <1>2, <1>4, <2>1 DEF DiaADia
  <2>2. CASE entregadas'[l] # entregadas[l]
    <3>1. PICK u \in t.mano : /\ t.pc = "unidad"
                              /\ entregadas' = [entregadas EXCEPT ![t.linea] = @ \cup {u}]
      BY <2>2, TareaEnvia
    <3>2. l = t.linea /\ entregadas'[l] = entregadas[l] \cup {u}
      BY <1>0, <2>2, <3>1
    <3> DEFINE A == entregadas[t.linea] \cup t.pend \cup t.mano
    <3>3. A \in SUBSET Unidades /\ entregadas'[l] \in SUBSET A  BY <1>0, <3>2
    <3>4. Cardinality(A) <= Antes(l) + CantLinea[l]  BY <3>1, <3>2 DEF DiaADia
    <3> HIDE DEF A
    <3>5. /\ Cardinality(A) \in Nat /\ Cardinality(entregadas'[l]) \in Nat
          /\ Cardinality(entregadas'[l]) <= Cardinality(A)
      BY <3>3, ContarMenos
    <3>6. ~Pendiente(l)'  BY <1>2, <1>3, <3>1, <3>2
    <3> QED BY <3>4, <3>5, <3>6, AntesEntero
  <2> QED BY <2>1, <2>2
<1>5. ASSUME t'.pc = "unidad"
      PROVE  Cardinality(entregadas'[t'.linea] \cup t'.pend \cup t'.mano)
                 <= Antes(t'.linea) + CantLinea[t'.linea]
  <2> DEFINE B == entregadas'[t'.linea] \cup t'.pend \cup t'.mano
  <2>1. CASE /\ t.pc = "unidad" /\ t'.linea = t.linea
             /\ entregadas'[t.linea] \cup t'.pend \cup t'.mano
                   \subseteq entregadas[t.linea] \cup t.pend \cup t.mano
    <3> DEFINE A == entregadas[t.linea] \cup t.pend \cup t.mano
    <3>1. A \in SUBSET Unidades /\ B \in SUBSET A  BY <1>0, <2>1
    <3>2. Cardinality(A) <= Antes(t.linea) + CantLinea[t.linea]  BY <2>1 DEF DiaADia
    <3> HIDE DEF A, B
    <3>3. /\ Cardinality(A) \in Nat /\ Cardinality(B) \in Nat
          /\ Cardinality(B) <= Cardinality(A)
      BY <3>1, ContarMenos
    <3>4. Cardinality(B) <= Antes(t'.linea) + CantLinea[t'.linea]
      BY <1>0, <2>1, <3>2, <3>3, AntesEntero
    <3> QED BY <3>4 DEF B
  <2>2. ASSUME NEW l \in t.todo, NEW L \in Listado("espera", SkuLinea[l], CantLinea[l]),
               t.pc = "despachar", l \in Linea, t'.linea = l, t'.pend = L, t'.mano = {},
               entregadas' = entregadas
        PROVE  Cardinality(B) <= Antes(t'.linea) + CantLinea[t'.linea]
    <3>1. CantLinea[l] \in Nat \ {0} /\ Antes(l) \in Int  BY <2>2, AntesEntero
    <3>2. L \in SUBSET Unidades  BY ListadoSubset
    <3>3. Cardinality(L) \in Nat /\ Cardinality(L) <= CantLinea[l]
      BY <3>1, ListadoAcotado
    <3>4. entregadas[l] \in SUBSET Unidades  BY <1>0, <2>2
    <3>5. Cardinality(entregadas[l]) \in Nat  BY <3>4, ContarMenos
    <3>6. Cardinality(entregadas[l]) <= Antes(l)
      <4>1. CASE entregadas[l] # {}
        BY <2>2, <4>1 DEF DiaADia, Pendiente
      <4>2. CASE entregadas[l] = {}
        <5>1. Fecha[ArchivoDe[l]] <= hoy
          BY <2>2 DEF EnMarcha, Debida
        <5> QED BY <2>2, <4>2, <5>1, FS_EmptySet, AntesEntero
      <4> QED BY <4>1, <4>2
    <3>7. Cardinality(entregadas[l] \cup L) <= Cardinality(entregadas[l]) + Cardinality(L)
      BY <3>2, <3>4, ContarUnion
    <3>8. Cardinality(entregadas[l] \cup L) \in Nat
      <4>1. entregadas[l] \cup L \in SUBSET Unidades  BY <3>2, <3>4
      <4> QED BY <4>1, ContarMenos
    <3>9. Cardinality(entregadas[l] \cup L) <= Antes(l) + CantLinea[l]
      BY <3>1, <3>3, <3>5, <3>6, <3>7, <3>8
    <3>10. B = entregadas[l] \cup L  BY <2>2
    <3> QED BY <2>2, <3>9, <3>10
  <2> QED BY <1>5, <2>1, <2>2, TareaEnCamino
<1>6. t'.linea \in Linea  BY DEF TypeOK, Tareas
<1> QED BY <1>1, <1>4, <1>5, <1>6 DEF DiaADia

LEMMA NextDiaADia ==
    TypeOK /\ TypeOK' /\ EnMarcha /\ SalidaJustificada /\ UnaPasada /\ DiaADia
        /\ [Next]_vars
    => UnaPasada' /\ DiaADia'
<1> SUFFICES ASSUME TypeOK, TypeOK', EnMarcha, SalidaJustificada, UnaPasada, DiaADia,
                    [Next]_vars
             PROVE  UnaPasada' /\ DiaADia'
  OBVIOUS
<1>1. CASE Tarea \/ Fallar  BY <1>1, TareaUnaPasada, TareaDiaADia
<1>2. CASE NuevoDia
  <2>1. /\ t.pc = "libre" /\ t' = t /\ entregadas' = entregadas /\ hoy' = hoy + 1
    BY <1>2 DEF NuevoDia
  <2>2. UnaPasada'  BY <2>1 DEF UnaPasada
  <2>3. \A l \in Linea : Antes(l)' = Antes(l) + CantLinea[l]
    <3>1. ASSUME NEW c \in Nat, NEW h \in Nat, NEW f \in Nat
          PROVE  c * ((h + 1) - f) = c * (h - f) + c
      OBVIOUS
    <3>2. hoy \in Nat  BY EntregaAssumption DEF TypeOK
    <3>3. \A l \in Linea : CantLinea[l] \in Nat /\ Fecha[ArchivoDe[l]] \in Nat
      BY EntregaAssumption
    <3> QED BY <2>1, <3>1, <3>2, <3>3 DEF Antes
  <2>4. ASSUME NEW l \in Linea, entregadas[l] # {}
        PROVE  /\ Cardinality(entregadas[l]) <= Antes(l)'
               /\ Cardinality(entregadas[l]) <= Antes(l)' + CantLinea[l]
    <3>1. Cardinality(entregadas[l]) <= Antes(l) + CantLinea[l]  BY <2>4 DEF DiaADia
    <3>2. Cardinality(entregadas[l]) \in Nat
      <4>1. entregadas[l] \in SUBSET Unidades  BY DEF TypeOK
      <4> QED BY <4>1, ContarMenos
    <3>3. CantLinea[l] \in Nat /\ Antes(l) \in Int  BY AntesEntero
    <3>4. Antes(l)' = Antes(l) + CantLinea[l]  BY <2>3
    <3> QED BY <3>1, <3>2, <3>3, <3>4
  <2> QED BY <2>1, <2>2, <2>4 DEF DiaADia
<1>3. ASSUME UNCHANGED <<hoy, corrio, t, entregadas>>
      PROVE  UnaPasada' /\ DiaADia'
  BY <1>3 DEF UnaPasada, DiaADia, Pendiente, Antes
<1>4. ASSUME \/ UNCHANGED vars \/ Preparar \/ \E g \in Archivo : Procesar(g)
             \/ \E u \in Unidades : Ajeno(u)
      PROVE  UnaPasada' /\ DiaADia'
  BY <1>3, <1>4 DEF vars, Preparar, Procesar, Ajeno
<1> QED BY <1>1, <1>2, <1>4 DEF Next

\* A run dispatches at most the quantity of a line.  As no row is ever flagged
\* as delivered, every later day may dispatch it again, once.
THEOREM UnaVezSiempre == Spec => []UnaVezPorDia
<1>1. Init => EnMarcha /\ SalidaJustificada /\ UnaPasada /\ DiaADia
  BY DEF Init, Ocioso, EnMarcha, SalidaJustificada, UnaPasada, DiaADia
<1>2. TypeOK /\ DiaADia => UnaVezPorDia
  <2> SUFFICES ASSUME TypeOK, DiaADia, NEW l \in Linea, entregadas[l] # {}
               PROVE  Cardinality(entregadas[l])
                          <= CantLinea[l] * (hoy - Fecha[ArchivoDe[l]] + 1)
    BY DEF UnaVezPorDia
  <2>1. Cardinality(entregadas[l]) <= Antes(l) + CantLinea[l]  BY DEF DiaADia
  <2>2. ASSUME NEW c \in Nat, NEW d \in Int PROVE c * (d + 1) = c * d + c  OBVIOUS
  <2>3. CantLinea[l] \in Nat /\ hoy - Fecha[ArchivoDe[l]] \in Int
    <3>1. hoy \in Nat  BY EntregaAssumption DEF TypeOK
    <3>2. CantLinea[l] \in Nat /\ Fecha[ArchivoDe[l]] \in Nat  BY EntregaAssumption
    <3> QED BY <3>1, <3>2
  <2> QED BY <2>1, <2>2, <2>3 DEF Antes
<1> QED
  BY <1>1, <1>2, TypeCorrect, NextEnMarcha, NextSalida, NextDiaADia, PTL DEF Spec
=============================================================================
