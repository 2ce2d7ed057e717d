------------------------------ MODULE Proceso -------------------------------
(***************************************************************************)
(* The daily processing of imported orders: Schedule.main with             *)
(* Stock.getStock, Stock.pedirDespacho, Stock.prepareStock and the         *)
(* reservations of Gdoc it reads and uses.  One task of my_taskDia runs at *)
(* a time; each HTTP call and each database statement is a step, and the   *)
(* task may be stopped between any two of them: an exception is rescued    *)
(* only around the whole run (schedule.rb:45), a killed process by nothing.*)
(***************************************************************************)
EXTENDS Bodega, FiniteSetsExt

CONSTANTS
    Archivo,      \* the imported orders (FileOrder), by id
    Linea,        \* their lines (Order)
    ArchivoDe,    \* the order of each line (id_order)
    SkuLinea,     \* sku_order
    CantLinea,    \* quantity
    Cliente,      \* the clients (rut)
    ClienteDe,    \* the client of each order
    Reservado,    \* the amount each client reserved of each product
    NumSocios,    \* how many other groups pedirDespacho asks
    MaxFallos,    \* bound: how often the task is stopped half way
    MaxAjenos     \* bound: how often requests of other groups move a unit

ASSUME ProcesoAssumption ==
    /\ Archivo \subseteq Nat /\ Archivo # {} /\ IsFiniteSet(Archivo)
    /\ IsFiniteSet(Linea) /\ Linea # {}
    /\ ArchivoDe \in [Linea -> Archivo]
    /\ SkuLinea \in [Linea -> Skus]
    /\ CantLinea \in [Linea -> Nat]
    /\ IsFiniteSet(Cliente) /\ ClienteDe \in [Archivo -> Cliente]
    /\ Reservado \in [Cliente -> [Skus -> Nat]]
    /\ NumSocios \in Nat /\ MaxFallos \in Nat /\ MaxAjenos \in Nat

VARIABLES
    base,     \* the database: the rows of FileOrder and Order that exist, the
              \* columns processed and success of the first, broked of the
              \* second, and used of Reservation
    dw,       \* the data warehouse: how many FileOrder documents each order
              \* has, and the (order, product) of each BrokenProduct document
    t,        \* the local state of the task
    prep,     \* history: the units moved to the waiting depot for each line
    fallos,   \* history: how often the task was stopped half way
    ajenos    \* history: how often a request moved a unit

vars == <<loc, base, dw, t, prep, fallos, ajenos>>

Base == [archivos: SUBSET Archivo, lineas: SUBSET Linea,
         processed: [Archivo -> BOOLEAN], success: [Archivo -> BOOLEAN],
         broked: [Linea -> BOOLEAN], used: [Cliente -> [Skus -> Nat]]]

Pasos == {"libre", "archivo", "revisar", "socios", "recibir", "crm", "quebrar",
          "documentar", "preparar", "mover", "resumen"}

Tareas ==
    [pc: Pasos,
     cola: SUBSET Archivo, f: Archivo,      \* the orders left, the one at hand
     foto: [Skus -> Nat],                   \* responsePrincipal: the totals listed
     desde: 0..MaxAjenos,                   \* history: ajenos when they were listed
     prods: SUBSET Linea,                   \* the lines in producto,
     bp: [Linea -> Nat],                    \* and their :stockBP
     todo: SUBSET Linea, linea: Linea,      \* the lines left in a loop, the one at hand
     falta: Int, socios: 0..NumSocios,      \* cantidad_faltante, groups still to ask
     quiebre: SUBSET Skus, clave: Skus,     \* the keys of reason, the one at hand
     pend: SUBSET Unidades,                 \* the units of a movStockSku left to move
     err: BOOLEAN]                          \* response2.include?(:error)

TypeOK ==
    /\ LocOK
    /\ base \in Base
    /\ dw \in [pedido: [Archivo -> Nat], quiebre: SUBSET (Archivo \X Skus)]
    /\ t \in Tareas
    /\ prep \in [Linea -> SUBSET Unidades]
    /\ fallos \in 0..MaxFallos /\ ajenos \in 0..MaxAjenos

\* No task is running.
Ocioso ==
    [pc |-> "libre", cola |-> {}, f |-> CHOOSE g \in Archivo : TRUE,
     foto |-> [s \in Skus |-> 0], desde |-> 0, prods |-> {}, bp |-> [l \in Linea |-> 0],
     todo |-> {}, linea |-> CHOOSE l \in Linea : TRUE,
     falta |-> 0, socios |-> 0,
     quiebre |-> {}, clave |-> CHOOSE s \in Skus : TRUE, pend |-> {}, err |-> FALSE]

Init ==
    /\ loc \in [Unidades -> {"principal", "recepcion", "ajeno"}]
    /\ base = [archivos |-> {}, lineas |-> {},
               processed |-> [g \in Archivo |-> FALSE],
               success |-> [g \in Archivo |-> FALSE],
               broked |-> [l \in Linea |-> FALSE],
               used |-> [c \in Cliente |-> [s \in Skus |-> 0]]]
    /\ dw = [pedido |-> [g \in Archivo |-> 0], quiebre |-> {}]
    /\ t = Ocioso
    /\ prep = [l \in Linea |-> {}]
    /\ fallos = 0 /\ ajenos = 0

-----------------------------------------------------------------------------
(* The importer and the rest of the shop, as far as the task sees them *)

\* Sftp.orders creates the order first and then its lines, one by one.  It has
\* no transaction and may stop in between (module Ingreso): the lines that are
\* missing then never come (sftp.rb:23, 41-48).
CrearArchivo(g) ==
    /\ g \notin base.archivos
    /\ base' = [base EXCEPT !.archivos = @ \cup {g}]
    /\ UNCHANGED <<loc, dw, t, prep, fallos, ajenos>>

CrearLinea(l) ==
    /\ ArchivoDe[l] \in base.archivos /\ l \notin base.lineas
    /\ base' = [base EXCEPT !.lineas = @ \cup {l}]
    /\ UNCHANGED <<loc, dw, t, prep, fallos, ajenos>>

\* A request of another group moves a unit meanwhile.
Ajeno(u) ==
    /\ ajenos < MaxAjenos
    /\ PedidoMueve(u)
    /\ ajenos' = ajenos + 1
    /\ UNCHANGED <<base, dw, t, prep, fallos>>

-----------------------------------------------------------------------------
(* Schedule.main: the loop over the orders *)

IniciarConExito ==    \* (mutant) only orders with stock are taken
    /\ t.pc = "libre"
    /\ t' = [Ocioso EXCEPT !.pc = "archivo", !.cola = {g \in base.archivos :
                               ~base.processed[g] /\ base.success[g]}]
    /\ UNCHANGED <<loc, base, dw, prep, fallos, ajenos>>

Iniciar ==
    /\ t.pc = "libre"
    /\ t' = [Ocioso EXCEPT !.pc = "archivo",
                           !.cola = {g \in base.archivos : ~base.processed[g]}]
    /\ UNCHANGED <<loc, base, dw, prep, fallos, ajenos>>

LineasDe(g) == {l \in base.lineas : ArchivoDe[l] = g}

\* The orders come by id.
Primero(g) == g \in t.cola /\ \A h \in t.cola : g <= h

\* The next order is read, and Stock.getStock lists the main depot once for
\* all its lines.
Abrir(g) ==
    /\ t.pc = "archivo" /\ Primero(g) /\ LineasDe(g) # {}
    /\ t' = [t EXCEPT !.pc = "revisar", !.f = g,
                      !.prods = LineasDe(g), !.todo = LineasDe(g),
                      !.foto = [s \in Skus |-> Total("principal", s)],
                      !.desde = ajenos]
    /\ UNCHANGED <<loc, base, dw, prep, fallos, ajenos>>

\* The run ends after the last order; an order without lines ends it too: it
\* leaves response2 nil, and the test of it raises (schedule.rb:39).
Terminar ==
    /\ t.pc = "archivo"
    /\ \A g \in t.cola : Primero(g) => LineasDe(g) = {}
    /\ t' = Ocioso
    /\ UNCHANGED <<loc, base, dw, prep, fallos, ajenos>>

-----------------------------------------------------------------------------
(* Stock.getStock, line by line *)

\* Gdoc.return_reservation: what the other clients have reserved and not used.
return_reservation(s, c) ==
    MapThenSumSet(LAMBDA d : Reservado[d][s] - base.used[d][s], Cliente \ {c})

Falta(l) == t.foto[SkuLinea[l]] = 0 \/ t.foto[SkuLinea[l]] < CantLinea[l]

\* The main depot has enough, but not without what others reserved.
OtrosReservaron(l) ==
    LET s == SkuLinea[l]
    IN  t.foto[s] - return_reservation(s, ClienteDe[t.f]) < CantLinea[l]

RevisarReservas(l) ==
    /\ t.pc = "revisar" /\ l \in t.todo /\ ~Falta(l)
    /\ t' = [t EXCEPT !.bp[l] = t.foto[SkuLinea[l]], !.todo = @ \ {l},
                      !.quiebre = @ \cup {s \in {SkuLinea[l]} : OtrosReservaron(l)}]
    /\ UNCHANGED <<loc, base, dw, prep, fallos, ajenos>>

\* Not enough: the other groups are asked for the rest.  The reservations are
\* not looked at, and :stockBP stays what the listing said.
cantPedir(l) == CantLinea[l] - t.foto[SkuLinea[l]]

RevisarFalta(l) ==
    /\ t.pc = "revisar" /\ l \in t.todo /\ Falta(l)
    /\ t' = [t EXCEPT !.pc = "socios", !.linea = l, !.bp[l] = t.foto[SkuLinea[l]],
                      !.falta = cantPedir(l), !.socios = NumSocios]
    /\ UNCHANGED <<loc, base, dw, prep, fallos, ajenos>>

\* What pedirDespacho still lacks once a group was asked: its answer counts
\* when it came; a lost or broken one is -1, "con problemas".
Faltante(enviadas) == {t.falta - Cardinality(enviadas), t.falta}

\* Another group sends some units to the reception depot, or to the overflow
\* depot when that is full.
PedirASocio ==
    /\ t.pc = "socios" /\ t.falta # 0 /\ t.socios > 0
    /\ \E D \in SUBSET Stock("ajeno", SkuLinea[t.linea]),
          d \in {"recepcion", "pulmon"} :
           /\ loc' = [u \in Unidades |-> IF u \in D THEN d ELSE loc[u]]
           /\ \E n \in Faltante(D) :
                  t' = [t EXCEPT !.falta = n, !.socios = @ - 1]
    /\ UNCHANGED <<base, dw, prep, fallos, ajenos>>

cantRecibida == cantPedir(t.linea) - t.falta

\* As much as was answered is moved on to the main depot.
ListarRecepcion ==
    /\ t.pc = "socios" /\ (t.falta = 0 \/ t.socios = 0)
    /\ \E L \in Listado("recepcion", SkuLinea[t.linea], cantRecibida) :
           t' = [t EXCEPT !.pc = "recibir", !.pend = L]
    /\ UNCHANGED <<loc, base, dw, prep, fallos, ajenos>>

\* A refusal ends the moving, and its result is ignored.
Recibir(u) ==
    /\ t.pc = "recibir" /\ u \in t.pend
    /\ \/ MoveStock(u, "principal") /\ t' = [t EXCEPT !.pend = @ \ {u}]
       \/ loc' = loc /\ t' = [t EXCEPT !.pend = {}]
    /\ UNCHANGED <<base, dw, prep, fallos, ajenos>>

CerrarFalta ==
    /\ t.pc = "recibir" /\ t.pend = {}
    /\ t' = [t EXCEPT !.pc = "revisar", !.todo = @ \ {t.linea},
                      !.quiebre = @ \cup {s \in {SkuLinea[t.linea]} :
                                              cantRecibida < cantPedir(t.linea)},
                      !.falta = 0, !.socios = 0]
    /\ UNCHANGED <<loc, base, dw, prep, fallos, ajenos>>

GetStockListo ==
    /\ t.pc = "revisar" /\ t.todo = {}
    /\ t' = [t EXCEPT !.pc = "crm"]
    /\ UNCHANGED <<loc, base, dw, prep, fallos, ajenos>>

-----------------------------------------------------------------------------
(* Schedule.main: the outcome of the order *)

MarcarSuccess ==    \* (mutant) the order is not marked as processed
    /\ t.pc = "crm"
    /\ base' = [base EXCEPT !.success[t.f] = (t.quiebre = {})]
    /\ t' = [t EXCEPT !.pc = "quebrar"]
    /\ UNCHANGED <<loc, dw, prep, fallos, ajenos>>

\* The address is found in the CRM, and the order is marked before anything is
\* done for it.
Marcar ==
    /\ t.pc = "crm"
    /\ base' = [base EXCEPT !.processed[t.f] = TRUE,
                            !.success[t.f] = (t.quiebre = {})]
    /\ t' = [t EXCEPT !.pc = "quebrar"]
    /\ UNCHANGED <<loc, dw, prep, fallos, ajenos>>

QuebrarSinBorrar(s) ==    \* (mutant) the line stays in producto
    /\ t.pc = "quebrar" /\ s \in t.quiebre
    /\ t' = [t EXCEPT !.pc = "documentar", !.clave = s, !.quiebre = @ \ {s}]
    /\ base' = [base EXCEPT !.broked =
                    [l \in Linea |-> @[l] \/ (l \in LineasDe(t.f) /\ SkuLinea[l] = s)]]
    /\ UNCHANGED <<loc, dw, prep, fallos, ajenos>>

\* Every line of a broken product leaves producto and is flagged in the
\* database ...
Quebrar(s) ==
    /\ t.pc = "quebrar" /\ s \in t.quiebre
    /\ t' = [t EXCEPT !.pc = "documentar", !.clave = s, !.quiebre = @ \ {s},
                      !.prods = {l \in @ : SkuLinea[l] # s}]
    /\ base' = [base EXCEPT !.broked =
                    [l \in Linea |-> @[l] \/ (l \in LineasDe(t.f) /\ SkuLinea[l] = s)]]
    /\ UNCHANGED <<loc, dw, prep, fallos, ajenos>>

\* ... and then recorded in the data warehouse.
Documentar ==
    /\ t.pc = "documentar"
    /\ dw' = [dw EXCEPT !.quiebre = @ \cup {<<t.f, t.clave>>}]
    /\ t' = [t EXCEPT !.pc = "quebrar"]
    /\ UNCHANGED <<loc, base, prep, fallos, ajenos>>

-----------------------------------------------------------------------------
(* Stock.prepareStock *)

EmpezarPreparar ==
    /\ t.pc = "quebrar" /\ t.quiebre = {}
    /\ t' = [t EXCEPT !.pc = "preparar", !.todo = t.prods]
    /\ UNCHANGED <<loc, base, dw, prep, fallos, ajenos>>

cantSinTope(l) == t.bp[l]    \* (mutant) the quantity does not cap it

\* What the listing of getStock had, at most the quantity.
cantProdPrincipal(l) == Min({CantLinea[l], t.bp[l]})

ListarPrincipal(l) ==
    /\ t.pc = "preparar" /\ l \in t.todo
    /\ \E L \in Listado("principal", SkuLinea[l], cantProdPrincipal(l)) :
           t' = [t EXCEPT !.pc = "mover", !.linea = l, !.pend = L]
    /\ UNCHANGED <<loc, base, dw, prep, fallos, ajenos>>

Mover(u) ==
    /\ t.pc = "mover" /\ u \in t.pend
    /\ MoveStock(u, "espera")
    /\ t' = [t EXCEPT !.pend = @ \ {u}]
    /\ prep' = [prep EXCEPT ![t.linea] = @ \cup {u}]
    /\ UNCHANGED <<base, dw, fallos, ajenos>>

Rechazar ==
    /\ t.pc = "mover" /\ t.pend # {}
    /\ t' = [t EXCEPT !.pend = {}, !.err = TRUE]
    /\ UNCHANGED <<loc, base, dw, prep, fallos, ajenos>>

use_reservation_toda(usado, reservado, cant) == reservado    \* (mutant)
use_reservation_resta(usado, reservado, cant) == usado - cant  \* (mutant)

\* Gdoc.use_reservation: what is used grows by cant, up to the amount.
use_reservation(usado, reservado, cant) ==
    IF cant < reservado - usado THEN usado + cant ELSE reservado

Reservar ==
    /\ t.pc = "mover" /\ t.pend = {}
    /\ LET c == ClienteDe[t.f]
           s == SkuLinea[t.linea]
       IN  base' = [base EXCEPT !.used[c][s] =
                        use_reservation(@, Reservado[c][s], Cardinality(prep[t.linea]))]
    /\ t' = [t EXCEPT !.pc = "preparar", !.todo = @ \ {t.linea}]
    /\ UNCHANGED <<loc, dw, prep, fallos, ajenos>>

PrepareStockListo ==
    /\ t.pc = "preparar" /\ t.todo = {}
    /\ t' = [t EXCEPT !.pc = "resumen"]
    /\ UNCHANGED <<loc, base, dw, prep, fallos, ajenos>>

\* The order is recorded; an error while preparing it ends the run.
Resumir ==
    /\ t.pc = "resumen"
    /\ dw' = [dw EXCEPT !.pedido[t.f] = @ + 1]
    /\ t' = IF t.err THEN Ocioso
                     ELSE [Ocioso EXCEPT !.pc = "archivo", !.cola = t.cola \ {t.f}]
    /\ UNCHANGED <<loc, base, prep, fallos, ajenos>>

-----------------------------------------------------------------------------
\* A call raises, or the process is killed; the call may have had its effect.
Fallar ==
    /\ t.pc # "libre" /\ fallos < MaxFallos
    /\ \/ loc' = loc
       \/ \E u \in t.pend : \/ t.pc = "recibir" /\ MoveStock(u, "principal")
                            \/ t.pc = "mover" /\ MoveStock(u, "espera")
    /\ t' = Ocioso
    /\ fallos' = fallos + 1
    /\ UNCHANGED <<base, dw, prep, ajenos>>

Tarea ==
    \/ Iniciar \/ Terminar
    \/ \E g \in Archivo : Abrir(g)
    \/ \E l \in Linea : RevisarReservas(l) \/ RevisarFalta(l) \/ ListarPrincipal(l)
    \/ PedirASocio \/ ListarRecepcion \/ CerrarFalta \/ GetStockListo
    \/ \E u \in Unidades : Recibir(u) \/ Mover(u)
    \/ Marcar \/ Documentar \/ EmpezarPreparar \/ Rechazar \/ Reservar
    \/ \E s \in Skus : Quebrar(s)
    \/ PrepareStockListo \/ Resumir

Next ==
    \/ Tarea \/ Fallar
    \/ \E g \in Archivo : CrearArchivo(g)
    \/ \E l \in Linea : CrearLinea(l)
    \/ \E u \in Unidades : Ajeno(u)

\* cron starts the task again and again and lets it run.  Nothing is assumed of
\* the importer: an order may stay without its lines for good.
Fairness == WF_vars(Tarea)

Spec == Init /\ [][Next]_vars /\ Fairness

-----------------------------------------------------------------------------
(* Properties *)

\* An order gets one FileOrder document at most, and none before the database
\* has it as processed: however often the task is stopped, what was done for an
\* order is never done again (schedule.rb:7, 22, 36).
UnaVez ==
    \A g \in Archivo :
        /\ dw.pedido[g] <= 1
        /\ dw.pedido[g] = 1 => base.processed[g]

\* A product reported broken has a flagged line in the database, of an order
\* processed without success, and nothing is prepared for a line that was
\* flagged while it was in producto (schedule.rb:25-32).
QuiebreConsistente ==
    /\ \A q \in dw.quiebre : \E l \in Linea :
           ArchivoDe[l] = q[1] /\ SkuLinea[l] = q[2] /\ base.broked[l]
    /\ \A l \in Linea : base.broked[l] =>
           /\ base.processed[ArchivoDe[l]] /\ ~base.success[ArchivoDe[l]]
           /\ prep[l] = {}

\* The reservations a client used are covered by units moved for its lines:
\* stopping the task may lose some use, it never makes one up
\* (stock.rb:153, gdoc.rb:105-118).
UsoRespaldado ==
    \A c \in Cliente, s \in Skus :
        /\ base.used[c][s] <= Reservado[c][s]
        /\ base.used[c][s] <= MapThenSumSet(LAMBDA l : Cardinality(prep[l]),
               {l \in Linea : ClienteDe[ArchivoDe[l]] = c /\ SkuLinea[l] = s})

\* A line gets more units than its quantity only when the main depot had none
\* of its product: the limit 0 then lists everything that came meanwhile
\* (stock.rb:134-141).
ExcesoSoloSinStock ==
    t.pc = "mover" /\ CantLinea[t.linea] > 0
        => \/ Cardinality(prep[t.linea] \cup t.pend) <= CantLinea[t.linea]
           \/ t.bp[t.linea] = 0

\* "El stock esta listo y fue movido a la Bodega de Espera" (stock.rb:158): when
\* prepareStock ends without an error, and no request moved a unit meanwhile,
\* every line it was given has its quantity in the waiting depot, unless the
\* main depot has no unit of its product left.
StockListo ==
    t.pc = "resumen" /\ ~t.err /\ ajenos = 0 =>
        \A l \in t.prods : \/ Cardinality(prep[l]) >= CantLinea[l]
                           \/ Stock("principal", SkuLinea[l]) = {}

\* Another line of the order at hand asks for the same product.
Repetida(l) == \E k \in t.prods : k # l /\ SkuLinea[k] = SkuLinea[l]

\* A line that the main depot can serve leaves in it what the other clients
\* reserved and have not used, also once every unit listed for it is moved, but
\* for as many units as requests moved since the depot was listed ("No existe
\* stock disponible debido a reservas", stock.rb:88-90).  Three lines may take
\* reserved units: one that is short, whose reservations are not looked at
\* (stock.rb:74); one whose product is asked for twice in the order, each line
\* being compared with the whole stock (stock.rb:46); and one of quantity 0,
\* whose limit lists everything (stock.rb:134-141).
RespetaReservas ==
    t.pc = "mover" /\ ~Falta(t.linea) /\ ~Repetida(t.linea) /\ CantLinea[t.linea] > 0 =>
        Cardinality(Stock("principal", SkuLinea[t.linea]) \ t.pend) + (ajenos - t.desde)
            >= return_reservation(SkuLinea[t.linea], ClienteDe[t.f])

\* An order that is not after g stands without lines.
Varado(g) == \E h \in base.archivos : h <= g /\ LineasDe(h) = {}

\* Every order that is imported is processed one day ("Ordenes procesadas",
\* my_namespace.rake:63), unless it or one ahead of it is left without lines for
\* good: every run then ends there (schedule.rb:39).
SeProcesa ==
    \A g \in Archivo :
        \/ g \in base.archivos ~> base.processed[g]
        \/ <>[]Varado(g)
=============================================================================
