------------------------------- MODULE Tienda -------------------------------
(***************************************************************************)
(* The shop as a whole: the daily task (my_taskDia, which runs             *)
(* Schedule.main and then Schedule.delivery) beside the requests of other  *)
(* groups, over one warehouse and one database.  The three are the         *)
(* modules Proceso, Entrega and Pedidos; what those assume of each other   *)
(* (their actions Ajeno, Procesar and Preparar) is what the others do.     *)
(***************************************************************************)
EXTENDS Bodega, FiniteSetsExt

CONSTANTS
    Archivo, Linea, ArchivoDe, SkuLinea, CantLinea,   \* as in Proceso
    Cliente, ClienteDe, Reservado, NumSocios,
    Fecha, MaxDia,                                    \* as in Entrega
    Pedido, Cantidades,                               \* as in Pedidos
    MaxFallos        \* bound: how often the task is stopped half way

VARIABLES
    base, dw, tp, prep, fallos,                        \* of Proceso
    reportes, docs, hoy, corrio, te, entregadas,   \* of Entrega
    pc, sku, cant, pend, mov, error, resp,             \* of Pedidos
    hecho,     \* whether Schedule.main was started today
    limpio     \* history: no request moved a unit, no call to the warehouse was
               \* refused and the task was not stopped so far

deProceso == <<base, dw, tp, prep>>
deEntrega == <<reportes, docs, hoy, corrio, te, entregadas>>
dePedidos == <<pc, sku, cant, pend, mov, error, resp>>
vars == <<loc, deProceso, fallos, deEntrega, dePedidos, hecho, limpio>>

P == INSTANCE Proceso WITH t <- tp, ajenos <- 0, MaxAjenos <- 0

E == INSTANCE Entrega WITH
         base <- [processed |-> base.processed, broked |-> base.broked,
                  delivered |-> [l \in Linea |-> FALSE]],
         dw <- docs, t <- te

R == INSTANCE Pedidos

\* What each of the three assumes of the constants they share.
ASSUME TiendaAssumption ==
    P!ProcesoAssumption /\ E!EntregaAssumption /\ R!PedidosAssumption

TypeOK == P!TypeOK /\ E!TypeOK /\ R!TypeOK /\ hecho \in BOOLEAN /\ limpio \in BOOLEAN

\* The orders are imported and nothing has been done for them.
Init ==
    /\ R!Init
    /\ base = [archivos |-> Archivo, lineas |-> Linea,
               processed |-> [g \in Archivo |-> FALSE],
               success |-> [g \in Archivo |-> FALSE],
               broked |-> [l \in Linea |-> FALSE],
               used |-> [c \in Cliente |-> [s \in Skus |-> 0]]]
    /\ dw = [pedido |-> [g \in Archivo |-> 0], quiebre |-> {}]
    /\ tp = P!Ocioso /\ prep = [l \in Linea |-> {}] /\ fallos = 0
    /\ reportes = {} /\ docs = {} /\ hoy = 0 /\ corrio = FALSE /\ te = E!Ocioso
    /\ entregadas = [l \in Linea |-> {}]
    /\ hecho = FALSE /\ limpio = TRUE

-----------------------------------------------------------------------------
\* A step of a task that goes on without having moved the unit it was to move.
Rehusado == /\ loc' = loc
            /\ \/ tp.pend # {} /\ tp'.pend # tp.pend
               \/ te.mano # {} /\ te'.mano # te.mano
               \/ te.pend # {} /\ te'.pend # te.pend

\* Schedule.main, once a day (my_namespace.rake:62).
Main ==
    /\ te.pc = "libre"
    /\ UNCHANGED <<deEntrega, dePedidos, fallos>>
    /\ \/ ~hecho /\ P!Iniciar /\ hecho' = TRUE
       \/ tp.pc # "libre" /\ P!Tarea /\ hecho' = hecho
    /\ limpio' = (limpio /\ ~Rehusado)

\* (mutant) main and delivery run side by side
DeliverySinEsperar ==
    /\ hecho
    /\ UNCHANGED <<deProceso, dePedidos, fallos, hecho>>
    /\ E!Tarea
    /\ limpio' = (limpio /\ ~Rehusado)

\* Schedule.delivery, once main has returned (my_namespace.rake:64).
Delivery ==
    /\ hecho /\ tp.pc = "libre"
    /\ UNCHANGED <<deProceso, dePedidos, fallos, hecho>>
    /\ E!Tarea
    /\ limpio' = (limpio /\ ~Rehusado)

\* A call of the task raises, or its process is killed.
Fallar ==
    /\ fallos < MaxFallos
    /\ UNCHANGED <<dePedidos, hecho>>
    /\ \/ P!Fallar /\ UNCHANGED deEntrega
       \/ fallos' = fallos + 1 /\ UNCHANGED deProceso /\ E!Fallar
    /\ limpio' = FALSE

NuevoDia ==
    /\ tp.pc = "libre"
    /\ UNCHANGED <<deProceso, dePedidos, fallos>>
    /\ E!NuevoDia
    /\ hecho' = FALSE /\ limpio' = limpio

Peticion(r) ==
    /\ R!Pedir(r) \/ R!Atender(r) \/ R!Excepcion(r)
    /\ UNCHANGED <<deProceso, deEntrega, fallos, hecho>>
    /\ limpio' = (limpio /\ loc' = loc)

Next == Main \/ Delivery \/ Fallar \/ NuevoDia \/ \E r \in Pedido : Peticion(r)

Spec == Init /\ [][Next]_vars

-----------------------------------------------------------------------------
(* Properties *)

\* Every unit that left has one receiver: the line it was dispatched for or the
\* request that counts it, never two of them, however the listings of the
\* task and of the requests aged (stock.rb:226-246, request.rb:29-40).
UnSoloReceptor ==
    /\ \A l \in Linea, r \in Pedido : entregadas[l] \cap mov[r]["enviar"] = {}
    /\ \A l \in Linea : \A u \in entregadas[l] : loc[u] = "cliente"
    /\ \A r \in Pedido : \A u \in mov[r]["enviar"] : loc[u] = "socio"
    /\ \A l, k \in Linea : l # k => entregadas[l] \cap entregadas[k] = {}
    /\ \A r, q \in Pedido : r # q => mov[r]["enviar"] \cap mov[q]["enviar"] = {}

\* To the task, whatever step a request takes is one of Bodega!PedidoMueve:
\* what Proceso and Entrega assume of requests is what they do (request.rb:28-39).
PedidosComoAjenos ==
    [][UNCHANGED <<tp, te>> /\ loc' # loc => \E u \in Unidades : PedidoMueve(u)]_vars

\* Undisturbed, an order that main prepared in full leaves in full on the day
\* it is due, as long as every other order with that product that is due was
\* prepared in full and is due on this day too.  An order that was due earlier
\* is dispatched again and takes the units prepared for this one
\* (schedule.rb:72-92, stock.rb:141, 226).
Completa(l) == Cardinality(prep[l]) >= CantLinea[l]

EntregaCompleta ==
    te.pc = "cerrar" /\ limpio =>
        \A l \in te.prods :
            (\A k \in Linea :
                SkuLinea[k] = SkuLinea[l] /\ E!EnFecha(ArchivoDe[k]) /\ ~base.broked[k]
                    => Fecha[ArchivoDe[k]] = hoy /\ Completa(k))
            => Cardinality(entregadas[l]) = CantLinea[l]

\* To delivery an order is processed once main has flagged the last of its broken
\* lines: until then main runs, and delivery waits for it (my_namespace.rake:62-64).
Resuelto(g) ==
    base.processed[g] /\ ~(tp.pc \in {"quebrar", "documentar"} /\ tp.f = g)

V == INSTANCE Entrega WITH
         base <- [processed |-> [g \in Archivo |-> Resuelto(g)],
                  broked |-> [l \in Linea |-> base.broked[l] /\ Resuelto(ArchivoDe[l])],
                  delivered |-> [l \in Linea |-> FALSE]],
         dw <- docs, t <- te

\* All that main, its stops and the requests do is what Entrega allows beside
\* delivery: what holds of Entrega holds of delivery in the shop.
CumpleEntrega == V!Spec

\* The requests keep the promise of Envios beside the daily task, which takes
\* units out of and into the same depots (schedule.rb:72-92, request.rb:28-40).
CumpleEnvios == R!CumpleEnvios
=============================================================================
