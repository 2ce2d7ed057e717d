------------------------------ MODULE Entrega -------------------------------
(***************************************************************************)
(* The daily dispatch of processed orders: Schedule.delivery with          *)
(* Stock.despachar.  It runs once a day, after Schedule.main, in the same  *)
(* task; each HTTP call and each statement is a step.  Meanwhile requests  *)
(* of other groups move units through the same dispatch depot.             *)
(***************************************************************************)
EXTENDS Bodega

CONSTANTS
    Archivo, Linea,                  \* the orders (FileOrder) and lines (Order)
    ArchivoDe, SkuLinea, CantLinea,  \* id_order, sku_order, quantity of a line
    Fecha,                           \* deliveryDate of each order
    MaxDia                           \* bound: the last day

ASSUME EntregaAssumption ==
    /\ Archivo \subseteq Nat /\ Archivo # {} /\ IsFiniteSet(Archivo)
    /\ IsFiniteSet(Linea) /\ Linea # {}
    /\ ArchivoDe \in [Linea -> Archivo]
    /\ SkuLinea \in [Linea -> Skus]
    /\ CantLinea \in [Linea -> Nat \ {0}]
    /\ Fecha \in [Archivo -> Nat] /\ MaxDia \in Nat

VARIABLES
    base,        \* the columns processed of FileOrder, broked and delivered of
                 \* Order
    reportes,    \* the lines that have a row of Report
    dw,          \* the DeliveredProduct documents: a line and its quantitySent
    hoy,         \* Date.current
    corrio,      \* whether the task ran today
    t,           \* the local state of the task
    entregadas   \* history: the units that left for each line

vars == <<loc, base, reportes, dw, hoy, corrio, t, entregadas>>

Base == [processed: [Archivo -> BOOLEAN], broked: [Linea -> BOOLEAN],
         delivered: [Linea -> BOOLEAN]]

Pasos == {"libre", "archivo", "crm", "despachar", "unidad", "cerrar", "anotar",
          "reportar", "reponer"}

Tareas ==
    [pc: Pasos,
     cola: SUBSET Archivo, f: Archivo,  \* the orders left, the one at hand
     prods: SUBSET Linea,               \* producto and @orders
     foto: SUBSET Skus,                 \* responseEspera: the products listed
     todo: SUBSET Linea, linea: Linea,  \* the lines left in a loop, the one at hand
     pend: SUBSET Unidades,             \* the units listed and not moved yet
     mano: SUBSET Unidades,             \* the unit moved and not dispatched yet
     claves: SUBSET Skus,               \* the keys of cantidadesMov
     total: Nat]                        \* cantidadesMov[:total]

TypeOK ==
    /\ LocOK
    /\ base \in Base /\ reportes \subseteq Linea
    /\ dw \subseteq Linea \X Nat
    /\ hoy \in 0..MaxDia /\ corrio \in BOOLEAN
    /\ t \in Tareas
    /\ entregadas \in [Linea -> SUBSET Unidades]

Ocioso == [pc |-> "libre", cola |-> {}, f |-> CHOOSE g \in Archivo : TRUE, prods |-> {},
           foto |-> {}, todo |-> {}, linea |-> CHOOSE l \in Linea : TRUE,
           pend |-> {}, mano |-> {}, claves |-> {}, total |-> 0]

Init ==
    /\ loc \in [Unidades -> {"principal", "ajeno"}]
    /\ base = [processed |-> [g \in Archivo |-> FALSE],
               broked |-> [l \in Linea |-> FALSE],
               delivered |-> [l \in Linea |-> FALSE]]
    /\ reportes = {} /\ dw = {} /\ hoy = 0 /\ corrio = FALSE /\ t = Ocioso
    /\ entregadas = [l \in Linea |-> {}]

-----------------------------------------------------------------------------
(* What runs before and beside the dispatch *)

LineasDe(g) == {l \in Linea : ArchivoDe[l] = g}

\* Schedule.main, earlier in the same task, processes an order: some lines are
\* broken, and units wait for others.
Procesar(g) ==
    /\ t.pc = "libre" /\ ~base.processed[g]
    /\ \E Q \in SUBSET LineasDe(g) :
           base' = [processed |-> [base.processed EXCEPT ![g] = TRUE],
                    broked |-> [l \in Linea |-> base.broked[l] \/ l \in Q],
                    delivered |-> base.delivered]
    /\ UNCHANGED <<loc, reportes, dw, hoy, corrio, t, entregadas>>

\* It also receives units from other groups and moves some to the main depot and
\* on to the waiting depot, from wherever its listings saw them.
Preparar ==
    /\ t.pc = "libre"
    /\ \/ \E u \in Unidades : MoveStock(u, "principal") \/ MoveStock(u, "espera")
       \/ \E D \in SUBSET {u \in Unidades : loc[u] = "ajeno"},
             d \in {"recepcion", "pulmon"} :
             loc' = [u \in Unidades |-> IF u \in D THEN d ELSE loc[u]]
    /\ UNCHANGED <<base, reportes, dw, hoy, corrio, t, entregadas>>

\* A request of another group moves a unit meanwhile.
Ajeno(u) ==
    /\ PedidoMueve(u)
    /\ UNCHANGED <<base, reportes, dw, hoy, corrio, t, entregadas>>

NuevoDia ==
    /\ t.pc = "libre" /\ hoy < MaxDia
    /\ hoy' = hoy + 1 /\ corrio' = FALSE
    /\ UNCHANGED <<loc, base, reportes, dw, t, entregadas>>

-----------------------------------------------------------------------------
(* Schedule.delivery: the orders that are due *)

EnFechaCualquiera(g) == base.processed[g]    \* (mutant) the date is not looked at

\* The orders processed, not delivered and due.  No row ever gets its delivered
\* flag: the branch that sets it is behind a condition that cannot fail
\* (schedule.rb:77).
EnFecha(g) == base.processed[g] /\ Fecha[g] <= hoy

Iniciar ==
    /\ t.pc = "libre" /\ ~corrio
    /\ corrio' = TRUE
    /\ t' = [Ocioso EXCEPT !.pc = "archivo", !.cola = {g \in Archivo : EnFecha(g)}]
    /\ UNCHANGED <<loc, base, reportes, dw, hoy, entregadas>>

\* The lines still to deliver: neither broken nor flagged as delivered.
PorEntregar(g) == {l \in LineasDe(g) : ~base.broked[l] /\ ~base.delivered[l]}

\* The orders come by id.
Primero(g) == g \in t.cola /\ \A h \in t.cola : g <= h

Abrir(g) ==
    /\ t.pc = "archivo" /\ Primero(g)
    /\ t' = IF PorEntregar(g) = {}
            THEN [t EXCEPT !.cola = @ \ {g}]
            ELSE [t EXCEPT !.pc = "crm", !.f = g, !.prods = PorEntregar(g)]
    /\ UNCHANGED <<loc, base, reportes, dw, hoy, corrio, entregadas>>

Terminar ==
    /\ t.pc = "archivo" /\ t.cola = {}
    /\ t' = Ocioso
    /\ UNCHANGED <<loc, base, reportes, dw, hoy, corrio, entregadas>>

-----------------------------------------------------------------------------
(* Stock.despachar *)

\* The address is found, and the products of the waiting depot are listed once.
EmpezarDespacho ==
    /\ t.pc = "crm"
    /\ t' = [t EXCEPT !.pc = "despachar", !.todo = t.prods,
                      !.foto = {s \in Skus : Stock("espera", s) # {}},
                      !.claves = {}, !.total = 0]
    /\ UNCHANGED <<loc, base, reportes, dw, hoy, corrio, entregadas>>

SinLimite(l) == 0    \* (mutant) the whole depot is listed

\* What the listing of the waiting depot asks for.
Limite(l) == CantLinea[l]

ListarEspera(l) ==
    /\ t.pc = "despachar" /\ l \in t.todo /\ SkuLinea[l] \in t.foto
    /\ \E L \in Listado("espera", SkuLinea[l], Limite(l)) :
           t' = [t EXCEPT !.pc = "unidad", !.linea = l, !.pend = L]
    /\ UNCHANGED <<loc, base, reportes, dw, hoy, corrio, entregadas>>

NoEnEspera(l) ==
    /\ t.pc = "despachar" /\ l \in t.todo /\ SkuLinea[l] \notin t.foto
    /\ t' = [t EXCEPT !.todo = @ \ {l}]
    /\ UNCHANGED <<loc, base, reportes, dw, hoy, corrio, entregadas>>

\* A unit goes to the dispatch depot; whether it was moved is not looked at.
Sacar(u) ==
    /\ t.pc = "unidad" /\ t.mano = {} /\ u \in t.pend
    /\ \/ MoveStock(u, "despacho")
       \/ loc' = loc
    /\ t' = [t EXCEPT !.mano = {u}, !.pend = @ \ {u}]
    /\ UNCHANGED <<base, reportes, dw, hoy, corrio, entregadas>>

CuentaResta(despachado) == IF despachado THEN -1 ELSE 0    \* (mutant)

\* DELETE /stock: a unit the service dispatched is counted, one it did not is
\* left where it is.
Cuenta(despachado) == IF despachado THEN 1 ELSE 0

Despachar(u) ==
    /\ u \in t.mano
    /\ \/ /\ DeleteStock(u)
          /\ t' = [t EXCEPT !.mano = {}, !.total = @ + Cuenta(TRUE)]
          /\ entregadas' = [entregadas EXCEPT ![t.linea] = @ \cup {u}]
       \/ /\ loc' = loc
          /\ t' = [t EXCEPT !.mano = {}, !.total = @ + Cuenta(FALSE)]
          /\ UNCHANGED entregadas
    /\ UNCHANGED <<base, reportes, dw, hoy, corrio>>

LineaDespachada ==
    /\ t.pc = "unidad" /\ t.mano = {} /\ t.pend = {}
    /\ t' = [t EXCEPT !.pc = "despachar", !.todo = @ \ {t.linea},
                      !.claves = @ \cup {SkuLinea[t.linea]}]
    /\ UNCHANGED <<loc, base, reportes, dw, hoy, corrio, entregadas>>

DespacharListo ==
    /\ t.pc = "despachar" /\ t.todo = {}
    /\ t' = [t EXCEPT !.pc = "cerrar", !.todo = t.prods]
    /\ UNCHANGED <<loc, base, reportes, dw, hoy, corrio, entregadas>>

-----------------------------------------------------------------------------
(* Schedule.delivery: the outcome of each line *)

\* A line whose product was not in the waiting depot is flagged as delivered,
\* in memory only (the row is not saved), and recorded; for any other the
\* waiting depot is filled up again.
SinClave(l) == SkuLinea[l] \notin t.claves

CerrarLinea(l) ==
    /\ t.pc = "cerrar" /\ l \in t.todo
    /\ \/ SinClave(l) /\ t' = [t EXCEPT !.pc = "anotar", !.linea = l]
       \/ /\ ~SinClave(l)
          /\ \E L \in Listado("principal", SkuLinea[l], CantLinea[l]) :
                 t' = [t EXCEPT !.pc = "reponer", !.linea = l, !.pend = L]
    /\ UNCHANGED <<loc, base, reportes, dw, hoy, corrio, entregadas>>

Anotar ==
    /\ t.pc = "anotar"
    /\ dw' = dw \cup {<<t.linea, t.total>>}
    /\ t' = [t EXCEPT !.pc = "reportar"]
    /\ UNCHANGED <<loc, base, reportes, hoy, corrio, entregadas>>

Reportar ==
    /\ t.pc = "reportar"
    /\ reportes' = reportes \cup {t.linea}
    /\ t' = [t EXCEPT !.pc = "cerrar", !.todo = @ \ {t.linea}]
    /\ UNCHANGED <<loc, base, dw, hoy, corrio, entregadas>>

Reponer(u) ==
    /\ t.pc = "reponer" /\ u \in t.pend
    /\ \/ MoveStock(u, "espera") /\ t' = [t EXCEPT !.pend = @ \ {u}]
       \/ loc' = loc /\ t' = [t EXCEPT !.pend = {}]     \* refused: it returns
    /\ UNCHANGED <<base, reportes, dw, hoy, corrio, entregadas>>

Repuesta ==
    /\ t.pc = "reponer" /\ t.pend = {}
    /\ t' = [t EXCEPT !.pc = "cerrar", !.todo = @ \ {t.linea}]
    /\ UNCHANGED <<loc, base, reportes, dw, hoy, corrio, entregadas>>

ArchivoListo ==
    /\ t.pc = "cerrar" /\ t.todo = {}
    /\ t' = [Ocioso EXCEPT !.pc = "archivo", !.cola = t.cola \ {t.f}]
    /\ UNCHANGED <<loc, base, reportes, dw, hoy, corrio, entregadas>>

\* A call raises and the rescue ends the run, or the process is killed; the
\* dispatch whose answer was lost may have happened.
Fallar ==
    /\ t.pc # "libre"
    /\ \/ loc' = loc /\ UNCHANGED entregadas
       \/ \E u \in t.mano :
              /\ DeleteStock(u)
              /\ entregadas' = [entregadas EXCEPT ![t.linea] = @ \cup {u}]
       \/ \E u \in t.pend :
              /\ \/ t.pc = "unidad" /\ t.mano = {} /\ MoveStock(u, "despacho")
                 \/ t.pc = "reponer" /\ MoveStock(u, "espera")
              /\ UNCHANGED entregadas
    /\ t' = Ocioso
    /\ UNCHANGED <<base, reportes, dw, hoy, corrio>>

Tarea ==
    \/ Iniciar \/ Terminar \/ EmpezarDespacho
    \/ \E g \in Archivo : Abrir(g)
    \/ \E l \in Linea : ListarEspera(l) \/ NoEnEspera(l) \/ CerrarLinea(l)
    \/ \E u \in Unidades : Sacar(u) \/ Despachar(u) \/ Reponer(u)
    \/ LineaDespachada \/ DespacharListo \/ Anotar \/ Reportar \/ Repuesta
    \/ ArchivoListo

Next ==
    \/ Tarea \/ Fallar \/ NuevoDia
    \/ Preparar
    \/ \E g \in Archivo : Procesar(g)
    \/ \E u \in Unidades : Ajeno(u)

Spec == Init /\ [][Next]_vars

-----------------------------------------------------------------------------
(* Properties *)

\* A unit leaves to a client only for a line of its product that is not broken,
\* of an order that was processed and is due, and never for two lines: stale
\* listings and units other requests move cannot change that
\* (schedule.rb:72-83, stock.rb:226-246).
SalidaJustificada ==
    /\ \A l \in Linea : \A u \in entregadas[l] :
           /\ loc[u] = "cliente" /\ SkuDe[u] = SkuLinea[l]
           /\ ~base.broked[l] /\ base.processed[ArchivoDe[l]]
           /\ Fecha[ArchivoDe[l]] <= hoy
    /\ \A l, k \in Linea : l # k => entregadas[l] \cap entregadas[k] = {}

\* A run dispatches at most the quantity of a line.  As no row is ever flagged
\* as delivered, every later day may dispatch it again, once.
UnaVezPorDia ==
    \A l \in Linea :
        entregadas[l] # {} =>
            Cardinality(entregadas[l])
                <= CantLinea[l] * (hoy - Fecha[ArchivoDe[l]] + 1)

\* The reports page lists the Report rows with their column "Despachado"
\* (views/reports/index.html.erb:9, 19), which delivery sets to true
\* (schedule.rb:86-88): of an order with such a row something was dispatched.
ReporteEfectivo ==
    \A l \in reportes : \E k \in Linea :
        ArchivoDe[k] = ArchivoDe[l] /\ entregadas[k] # {}
=============================================================================
