# Verification of the integration shop (`Spree/mystore`)

The repository is a shop built on Spree 2.2 / Rails 4.0 for a course in which
nine groups trade product units through a common warehouse service. Its own code
is small (about 1700 lines of models and one rake file under
`src/Spree/mystore`); the rest is vendored (ImageMagick, `google_drive`, a vtiger
client) or a scaffold. The TLA+ here models the part that moves units, orders,
offers, reservations, prices and their records, in the names of the source. TLC
checks small instances; TLAPS proves every safety property that a passing run
checks, that the requests keep their abstract promise, alone and beside the daily task, and
that the whole shop implements the dispatch as specified on its own, for every value
of the constants.

## Inventory

| Component | State it keeps | Operations | Hard behaviour |
|---|---|---|---|
| Warehouse service (remote) | the place of every unit | list, move, send to another group, dispatch | no transaction spans two calls; a listing is stale when used; limit 0 means "all" |
| Requests of other groups (`request.rb`) | none of its own: units in the dispatch depot | `pedirProducto`, `enviarABodega` | concurrent web threads; a refused or raised call half way |
| Daily processing (`schedule.rb` `main`, `stock.rb`, `gdoc.rb`) | `FileOrder.processed/success`, `Order.broked`, `Reservation.used`, data warehouse | `getStock`, `pedirDespacho`, `prepareStock`, `return_/use_reservation` | stops between statements, stale snapshot, lost answers of other groups, orders still being imported |
| Daily dispatch (`schedule.rb` `delivery`, `stock.rb`) | `Report`, `DeliveredProduct` | `despachar`, refill of the waiting depot | repeats daily, shares the dispatch depot with the requests |
| Order import (`sftp.rb`) | rows of `FileOrder`, `Order` | `orders`, from cron and from `GET /sftps` | overlapping imports, no transaction, order of the listing |
| Offers (`offer.rb`, `rabbitmpq.rb`) | rows of `Offer`, price of `WebProduct` | `leerOferta`, `publicarTwitter`, `cambiarPrecio` | lost messages, four updates after the announcement, two offers of a product, `WebProduct.read` meanwhile |
| Reservations (`gdoc.rb`) | rows of `Reservation` | `obtain_info`, `use_reservation` | two tasks import; the sheet changes between two reads; a seven days window; broken update branch |
| Prices (`product.rb`, `web_product.rb`, look-up in `stock.rb`) | rows of `Product`, `WebProduct` | `readcsv`, `read`, look-up of `despachar` | append-only tables, of which the last or any matching row counts; offers change rows meanwhile; a line the database refuses is skipped, one that cannot be split ends the reading |
| The daily task (`my_namespace.rake`) | whether it runs | main, then delivery | beside requests, over one warehouse |
| Replenishment (`reposicion.rb`), CRM, Twitter, other groups' APIs, dashboards | see `PROJECT.json` | | |

What makes each correct: a request's answer is what it sent, and a unit goes to
one receiver only; an order is worked on once, its breaks are recorded
consistently and reservations are respected and used only for units that were
moved; a unit leaves to a client only for a due, unbroken line; an import adds each order and
its lines once; an offer is announced once and its price comes and goes with it;
a reservation counts once and its use never shrinks or exceeds it; a dispatch is
charged at the price last read.
`PROJECT.json` lists the hazards at their lines with the properties for each.

## Modules

```
Bodega        the warehouse service: loc, listings, moves (external to the code)
  Pedidos     requests of other groups        -> MCPedidos, PedidosProofs
    Envios    what Pedidos promises (abstract, INSTANCE with a refinement mapping)
  Proceso     Schedule.main and what it calls -> MCProceso, ProcesoProofs
  Entrega     Schedule.delivery, despachar    -> MCEntrega, EntregaProofs
  Tienda      Proceso + Entrega + Pedidos over one loc -> MCTienda, TiendaProofs
Ofertas       offers and their prices         -> MCOfertas, OfertasProofs
Ingreso       import of orders                -> MCIngreso, IngresoProofs
Reservas      import and use of reservations  -> MCReservas, ReservasProofs
Precios       the price tables and the price of a dispatch -> MCPrecios, PreciosProofs
```

**Bodega.** `loc` gives each unit one of the five depots, or `ajeno` (not owned
yet), `socio` (at another group), `cliente`. `Listado(d, s, limit)` is the set of
answers `GET /stock` may give: any selection of `limit` units, everything for
limit 0 (the meaning `movAllStock` relies on, stock.rb:309), anything for a
negative one. `moveStock` names no origin, so it moves the unit from wherever it
is by then; the other two calls need it in the dispatch depot. `PedidoMueve` is
what a request may do to a unit, as the tasks beside it see it; `Tienda` checks
that it is all a request does. Nothing about the
service is in the repository: these are assumptions, and every module rests on
them.

**Pedidos.** One thread per request: `pc`, the rest of the current listing
(`pend`), the units each of the three `movStockSku` runs counted (`mov`, by stage
`sacar`, `enviar`, `devolver`), their `:error` keys and the answer. `Pedir`,
`Consultar`, `Listar`, `Mover`, `Rechazar`, `Responder` follow the calls one by
one; `Excepcion` is a raised call, whose effect may have taken place; `Reponer` is
the environment. **Envios** is the promise: units go to open requests, one
request each, and the answer counts them.

**Proceso.** `base` is the database, `dw` the data warehouse, `t` the local state
of the one running task (`foto` the listing taken once per order, `prods`/`bp` the
array `producto` with `:stockBP`, `desde` how many moves of requests came before it, `falta`/`socios` the loop of `pedirDespacho`,
`quiebre` the keys of `reason`). `prep`, `fallos` and `ajenos` are history. Importer
and requests appear as `CrearArchivo`, `CrearLinea`, `Ajeno`; the importer has no
transaction, so an order may stay without its lines (sftp.rb:41-48). `Primero` is the order
by id in which the rows come. `Fallar` stops the
task between any two steps, with or without the effect of the call under way.

**Entrega.** `foto` is the one listing of the waiting depot, `claves`/`total` are
`cantidadesMov`, `mano` the unit moved to the dispatch depot and not dispatched
yet. `Ajeno` is what requests do to units in that depot. `Procesar` and `Preparar` are
what main does between two dispatches: orders marked with their broken lines, units
received and moved, from wherever its listings saw them.

**Tienda.** The modules Proceso, Entrega and Pedidos instantiated over one `loc`, one
database and one day: `Main` and `Delivery` are steps of the first two in the order of
`my_taskDia`, `Peticion` steps of the third in between; orders are imported at the
start. `hecho` says that main was started today, `limpio` that nothing disturbed
the task so far. Delivery's own `delivered` is not a variable here: the code
never saves it, so every run reads it false. Tienda refines Entrega (`CumpleEntrega`)
under the view `V`: an order counts as processed once main has flagged the last of its
broken lines (`Resuelto`), since delivery waits until main returns. It keeps the
promise of Envios (`CumpleEnvios`). Proceso is not an abstraction of it in this sense:
its `Ajeno` spends a bounded counter; `PedidosComoAjenos` says what it stands for.

**Ofertas.** `filas` are the rows of `Offer`, `web` the prices in the rows of
`WebProduct` of each product (the last one counts); `Ultima` is the `.last` that
the code updates in place of the offer at hand. `LeerProductos` is the daily
reading of `productos.json`.

**Ingreso.** Each import holds the entries left of its listing and the lines left
of its file; `Listados` says which entries the three-entry skip and the early
`return` leave. Rows are counted, so duplicates show.

**Reservas.** `hoja` is the sheet, `filas` the table by id, `imp` the imports: the date
and the rows of the sheet are two reads, then per entry `BuscarIgual`,
`BuscarVigente` (whose update branch raises: gdoc.rb:81) and `Crear`. The rescue inside
the loop (gdoc.rb:71-86) also swallows a date that cannot be parsed, a failing query and
a failing create: `Rescatar` skips the entry there (`fallidas`) and takes the next one. `uso` is the one
`use_reservation` under way, which reads the newest row in the window and then
writes all of them; main runs it, never during its own task's import. `Ventana` is
the seven days.

**Precios.** `web` and `tabla` are the append-only rows of `WebProduct` and
`Product`; `price_prod` is the look-up of `despachar`. A column of the price file keeps
the quotes around it (`Columna`), and the comparisons of SQL are on text. A query or an
insert that raises is rescued line by line (`LineaRechazada`, `errores`;
product.rb:14-16); only a line that cannot be split, outside the rescue, ends a reading.

Operators whose comment says `(mutant)` stand for a plausible slip in the
definition they precede; nothing else uses them. `PROJECT.json` pairs each with
the property that notices it.

## Runs

All runs use two workers and end within about three minutes.

| Run | Instance | Shows |
|---|---|---|
| Pedidos | 2 requests, 3 units, quantities 0..2 | ledger of sent units, no excess unless nothing was taken out, answers add up, nothing stranded unless two requests put back at once |
| PedidosPromesa | 2 requests, 2 units, quantities 1..2 | every request ends; Pedidos implements Envios |
| Proceso | 2 orders, 3 lines, 3 units of 2 products, 2 groups asked, 1 stop, 2 moves of requests | done once, breaks consistent, what others reserved stays in the depot, use of reservations backed, bounded excess |
| ProcesoVive | 2 orders, one with two lines of a product, 1 group, 1 stop | every imported order is processed, unless it or one ahead of it never gets its lines |
| ProcesoStockListo | as Proceso with 4 units, no stop | **violated**: "El stock esta listo" (stock.rb:158): 1 unit listed, 2 ordered, 1 sent by a group and received; 1 is prepared and 1 stays in the main depot |
| Entrega | 2 orders, 3 lines, 4 units, 2 days | units leave for due, unbroken lines; a line once a day |
| EntregaReporte | as Entrega | **violated**: an order of which nothing left is "Despachado" on the reports page (reports/index.html.erb:9, schedule.rb:85) |
| Ofertas | 3 offers (2 of one product), 4 periods, 1 stop | at most one message lost per stop, price only after announcement, double announcements only through a newer offer, base price recovered |
| Ingreso | 2 imports, 5 files, 3 lines, 1 stop | no line without its order, complete unless stopped, second row only by overlap, imported orders never change |
| Reservas | 2 imports, 2 pairs, amounts 1..2, 2 days, window of the present day, sheet replaced twice | one row counts per pair unless imports overlap; use bounded and never taken back, except across midnight; a row is as old as its sheet; entries that raise keep no other out |
| Precios | 1 product, 2 prices, 3 price files, 2 days, 3 changes | a dispatch is charged at the price last read; offers, files and days do not change it; each price line is kept once, and missing only if it was refused itself |
| Tienda | 2 orders of one line due on 2 days, 1 request, 2 units, 1 stop | one receiver per unit; what is prepared in full and undisturbed leaves in full; requests do what Proceso and Entrega assume; delivery is that of Entrega, requests keep Envios |

Facts met on the way that are no run of their own, since no line of the repository
promises otherwise or a property above states the exception: a request answers
"Se envio todo" (request.rb:22) with less than asked when another one emptied the
depot after its check (`EnvioTodoSiSolo` holds for a request alone); a line that is
short is completed with units that other clients reserved, and two lines of a product in
one order are each compared with the whole stock, so that together they may take
them (`RespetaReservas` covers the other lines); an order whose import stopped
before its first line ends every later run of main, and the orders behind it wait for
good (sftp.rb:23, schedule.rb:39; `SeProcesa` excludes it); the daily reading of `productos.json` ends the price of an
offer before the announced day (offer.rb:14, web_product.rb:15); an order due
earlier is dispatched again and takes the units prepared for another
(`EntregaCompleta` excludes it).

Why the bounds are enough: the races are between two actors at a time, and every
instance has more units (or files) of a product than the smallest request or
line asks for and fewer than all of them together, so that full, short and
excessive listings occur. Quantity 0 is included because it makes limits 0 and
negative. Two lines of one product (in one order in ProcesoVive, in two in Proceso; the theorems
cover both), two clients with reservations and a product
with a single unit exercise the per-product loops. Five files are the least that
let an import look at two. One stop per behaviour suffices for properties about
what a stop leaves behind. A window of one day shows the same as one of seven: what
matters is a midnight at which a row leaves it. Tienda needs two units, so that two
lines and a request compete; its components are explored with more units in their
own runs. `MaxFallos`, `MaxAjenos`, `MaxDia`, `MaxHora`, `MaxCambios`, `MaxImportes` are the
bounds, and the quantities that only count (`tuits`, rows) are bounded by them.

`CHECK_DEADLOCK FALSE` is set where the bounded world really ends: all requests
answered (Pedidos, Tienda), last day (Entrega, Tienda, Precios), last period (Ofertas),
last import (Reservas), every file imported
(Ingreso, where imports may always start again, so no deadlock is hidden).
Proceso is checked for deadlock: its task can always start again. Symmetry is
used for units of one product, for requests and for imports, never in a run with
a liveness property.

**Fairness.** `Pedidos`: weak fairness for each thread that was started (the web
server runs its threads); none for arrivals, replenishment or exceptions.
`Proceso`: weak fairness for the task (cron runs it every day and nothing else
holds it). Nothing is assumed of the importer: it may stop between an order and its
lines, and then skips the order for good (sftp.rb:23, 41-48), so `SeProcesa` speaks of
the orders that do not stand behind one that stays without lines. No fairness is
assumed of failures. The other modules are checked for safety only: their cron
tasks promise no progress that a stop or an overlap could not undo.

## Proofs

Assumptions: `BodegaAssumption` (finitely many units, each with a product),
`PedidosAssumption` (finitely many requests, integer quantities), and the analogous
`ProcesoAssumption`, `EntregaAssumption`, `IngresoAssumption`, `ReservasAssumption`,
`PreciosAssumption`, `OfertasAssumption`: finite sets, natural amounts, every line with
its order and product, every pair once in a sheet. `TiendaAssumption` is that of its
three parts. TLC evaluates them in the runs.

* `PedidosProofs!TypeCorrect`: `TypeOK` is inductive. The only arithmetic point is
  that the number answered is a cardinality of a finite set.
* `PedidosProofs!LibroSiempre`: `LibroDeEnvios` is inductive over `TypeOK`. A unit at
  another group is in no depot, so no call moves it again, and `moveStockBodega`
  accepts it only from the dispatch depot.
* `PedidosProofs!ExcesoSiempre`: not inductive alone. `LimiteDeEnvio` adds that
  nothing is sent before the second loop, and that inside it what was sent plus
  what is still listed is no more than was taken out; the listing that starts
  the loop establishes it unless the limit is 0.
* `PedidosProofs!PedidosCumple`: every step of Pedidos is `Enviar`, `Contestar`,
  `Caer` or a stutter of Envios under the mapping in `Pedidos!Abstracto`, given the
  three invariants. An exception maps to `Caer`, with the unit whose answer was
  lost in `perdido`.
* `PedidosProofs!CuentaSiempre` through `Cuenta`: every unit that left was counted by a
  request, unless the call that sent it raised, and an answer says what is counted.
  With `LibroDeEnvios` the counts are of disjoint sets, so they add up.
* `PedidosProofs!EnvioTodoSiempre` through `Solitarios`: while a request is alone, the
  dispatch depot holds what it took out and nothing else, and the listings of its
  loops have the length asked for.
* `PedidosProofs!SinVaradosSiempre` through `Lazos` and `Limpieza`: the units of a product
  in the dispatch depot are never more than the sum of `Cupo`, what each request at
  work will still take away. The argument is one of amounts and not of units:
  requests take each other's units all the time. Where two requests put back, or a
  call raises, the sum is too large; `Tranquilo` excludes just these.

* `IngresoProofs`: `TypeCorrect`; `CompletoSiempre` through `TodoEntero` and `Cuadra`
  (an import in the middle of a file still holds the lines its row lacks, so rows
  and lines balance); `UnicoSiempre` through `Sitio` (while one import runs alone,
  the file it is at has no row); `DefinitivoSiempre`, step by step.
* `EntregaProofs`: `TypeCorrect`; `SalidaSiempre` through `EnMarcha`: the line at hand
  belongs to an order that is due and not broken, and the unit in the hand of the
  task has its product. Nothing is assumed of where the units are. `UnaVezSiempre`
  through `UnaPasada` and `DiaADia`: what left for a line that today's run has still to
  come to (`Pendiente`) is within the days before today, and a listing has at most
  the quantity.
* `ProcesoProofs`: `TypeCorrect` and, from one inductive invariant `Registro`,
  `UnaVezSiempre`, `QuiebreSiempre` and `ExcesoSiempre`. None of the three is inductive
  alone. `Intacto`: an order that is not marked left no trace. `Turno`: the orders of
  the run are unmarked but for the one at hand, which has no document yet. `EnMano`:
  `producto` holds unbroken lines of the order at hand. `Motivo`: reasons to break
  name its products, and nothing is prepared while there are any. `PorPreparar`:
  each line is prepared once. `RespetoSiempre` through `Respeto` (a line still to be
  served passed the check of reservations, and what the run uses meanwhile is of its own
  client, which the check does not count) and `Existencias` (the main depot still holds
  what was listed, but for what requests moved since, until a line of the product is
  prepared; the units listed for a line are at most its quantity). `UsoSiempre` through `Respaldo`: the use is
  booked after the units moved, so it is within the units of the lines that may
  have been booked (`Contada`), which leaves out the line at hand.
* `ReservasProofs`: `TypeCorrect`; `NoMasViejaSiempre` through `Fechada` (the date and
  the rows an import works on were in the sheet together); `UnaSiempre` through
  `Unica` (one import at most, and what it is about to create does not count yet);
  `UsoSiempre` and `NoVuelveSiempre` through `EnUso` (the value about to be written lies
  between the use and the amount of the one row that counts); `ImportaSiempre`
  through `Importado`, which carries the entries already passed that did not fail.
* `PreciosProofs`: `TypeCorrect`; `AlDiaSiempre` and `LecturaSiempre` from `Citada`
  (every column has its quotes, so no row of the table is valid) and `AlDia` (while a
  price has not returned to an earlier one, a row that has it implies that the newest
  has it); `TablaSiempre` through `SinRepetir` (what is about to be created is not
  there), for the lines that were not refused.
* `OfertasProofs`: `TypeCorrect` through `Tipos`: what `devolver` writes is a price only
  because a row that awaits its base price has one, which rests on the order of the
  updates of an announcement. `PerdidaSiempre` counts `Perdidas`, the offers sent that are
  neither queued, nor in the hand of the task, nor rows. `AvisoSiempre` through `Avisos`:
  base prices are saved and restored for the wrong row, but whatever they hold was
  announced for the product. `TuitSiempre` through `Tuits` (how often the newest offer
  was announced, by where it stands in the loop) and `Ajenas` (a row marked without being
  announced was marked for an older offer). `BaseSiempre` through `Bases`, which follows
  the only offer of a product from step to step.
* `TiendaProofs!TypeCorrect`: of the three parts over one warehouse and database.
  `ReceptorSiempre` and `AjenosSiempre` rest on little of each component: where the units
  are, and the fields of the two tasks that change as a unit moves (`TpBien`, `TeBien`).
  `ReceptorSiempre`: only
  a unit in the dispatch depot leaves, and one that left is in no depot, so the
  stale listings that still name it move nothing (`Quieto`). `AjenosSiempre`: what a
  request listed never goes back to where units come in (`Listadas`), so its calls
  are those of `PedidoMueve`; and no task moves a unit without changing its own state
  (`MainSeNota`, `DeliverySeNota`).
* `TiendaProofs!EntregaSiempre`, the longest argument. `Turnos`: the tasks take turns, and
  nothing left for an order main has still to come to. `EnCurso`, `Cota`: a line due
  today gets nothing before its turn and its quantity at most. `Sereno`: undisturbed,
  each unit is where the task that handles it put it (`Intactas`), and a line done got
  all it was to get (`Entera`). In between stands a count (`Alcanza`): the units prepared
  for the lines of a product wait or left, those lines got no more than was
  prepared for them, so when a line comes to its turn the waiting depot holds at
  least its quantity and the listing is full. An order due on an earlier day breaks
  the count, as the property says.
* `TiendaProofs!EnviosSiempre`: the steps of a request map to Envios as in
  `PedidosCumple`, and a step of the task to a stutter: the task sends nothing to
  another group (`MainNoEnvia`, `DeliveryNoEnvia`) and leaves the requests alone. What
  was counted as sent stays sent because of `UnSoloReceptor`.
* `TiendaProofs!EntregaSola`: every step of the shop is a step of Entrega or a stutter
  under the view `Resuelto`. `EnOrden` is the invariant: main marks the orders it took up
  one by one, and only lines of marked orders are broken. Marking an order and breaking
  its lines product by product stay hidden; the step that ends the breaking, or
  the stop that interrupts it, is one `Procesar` with the lines broken so far (`MainPaso`);
  all other steps of main are `Preparar` or hidden (`MainVista`). By `Turnos` delivery does
  not run meanwhile, and when it runs the view is the database itself (`VistaEntera`).
  Hence `SalidaSiempre` and `UnaVezSiempre` hold of delivery in the shop.

The library's induction theorems take an operator as a parameter, which no
installed prover can instantiate. What the proofs need of sums over sets
(`MapThenSumSet`, a fold) and of the cardinality of families of sets is therefore
proved by a least counterexample (`MenorNat`, `MenorConjunto`), and stated in each module
that needs it, as are the lemmas on the tasks that `TiendaProofs` needs of `P` and `E`:
theorems of a module are not known of its instances.

Only proved: the type correctness of Reservas, Precios and Tienda, which no run repeats.
Only model-checked: the liveness properties `TodoPedidoTermina` and `SeProcesa` (outside
the prover's reach, as is `ENABLED`). The runs that expect a violation have nothing to
prove.

## Not modelled

Nearly all lines of the repository are third-party code that was checked in with it:
ImageMagick 6.8.8 alone is some 470 C files and 478 000 lines. It is built and used
as a library for images, no line of it was written for this system, and nothing here
says anything about it. The modules map the Ruby code of the shop.

Of that, left out are addresses, message texts, logging, HTML, passwords; the CRM and
the other groups' APIs beyond "answers, or fails"; `Reposicion` (its class does not
load: reposicion.rb:14, so it has no behaviour to model); the methods of `Stock`
without a caller (`getStockSku`, `movAllStock`, `vaciarAlmacen*`); the Spree storefront,
generated scaffolds, scripts that were run once and the Access importer. Two runs of the same
cron task do not overlap in the models, except the two imports, which a web page or a
second task also starts. Failures that never end (a client the CRM does not know)
are outside `SeProcesa`, which allows a bounded number; an order that never gets its lines
is its stated exception. Proceso takes the sheet of
reservations as fixed; what changes in it is Reservas.

## Plan

1. *Done:* Bodega, Pedidos with Envios, Proceso, Entrega, Ofertas, Ingreso, Reservas,
   Precios, Tienda; the proofs above.
2. *Done:* theorems for every safety property of a passing run.
3. *Done:* Tienda implements Entrega and keeps the promise of Envios.
4. A second instance of Tienda with two products and a short order, for TLC runs
   longer than these.
