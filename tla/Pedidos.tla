------------------------------ MODULE Pedidos -------------------------------
(***************************************************************************)
(* POST /api/v1/pedirProducto: another group asks this one for units       *)
(* (Request.pedirProducto, Request.enviarABodega).  Requests are served by *)
(* concurrent threads of the web server; each HTTP call to the warehouse   *)
(* is one step, so two requests interleave between any two calls.          *)
(*                                                                         *)
(* Request.enviarABodega runs Stock.movStockSku up to three times: "sacar" *)
(* takes the units from the main depot to the dispatch depot, "enviar"     *)
(* sends them to the other group, "devolver" puts back what an error left. *)
(***************************************************************************)
EXTENDS Bodega, FiniteSetsExt

CONSTANTS
    Pedido,      \* the requests
    Cantidades   \* the quantities a request may ask for

ASSUME PedidosAssumption == IsFiniteSet(Pedido) /\ Cantidades \subseteq Int

Etapas == {"sacar", "enviar", "devolver"}

VARIABLES
    pc,      \* where the thread serving the request is
    sku,     \* params[:sku]
    cant,    \* params[:cant].to_i
    pend,    \* what is left of responseStock in the current movStockSku
    mov,     \* the units that each movStockSku counted in :cant_mov
    error,   \* whether the :error key is present in the result of each one
    resp     \* the rendered answer

vars == <<loc, pc, sku, cant, pend, mov, error, resp>>

TypeOK ==
    /\ LocOK
    /\ pc \in [Pedido -> {"libre", "consultar", "aceptado", "fin", "caido"}
                         \cup Etapas]
    /\ sku \in [Pedido -> Skus]
    /\ cant \in [Pedido -> Int]
    /\ pend \in [Pedido -> SUBSET Unidades]
    /\ mov \in [Pedido -> [Etapas -> SUBSET Unidades]]
    /\ error \in [Pedido -> [Etapas -> BOOLEAN]]
    /\ resp \in [Pedido -> [success: BOOLEAN, amountSent: Nat]]

\* The answer of a rejected request, and the value before there is one.
SinRespuesta == [success |-> FALSE, amountSent |-> 0]

\* A warehouse no request has touched yet.
Init ==
    /\ loc \in [Unidades -> {"principal", "ajeno"}]
    /\ pc = [r \in Pedido |-> "libre"]
    /\ sku \in [Pedido -> Skus]
    /\ cant \in [Pedido -> Cantidades]
    /\ pend = [r \in Pedido |-> {}]
    /\ mov = [r \in Pedido |-> [e \in Etapas |-> {}]]
    /\ error = [r \in Pedido |-> [e \in Etapas |-> FALSE]]
    /\ resp = [r \in Pedido |-> SinRespuesta]

-----------------------------------------------------------------------------
(* One thread *)

\* The request arrives and its thread starts.
Pedir(r) ==
    /\ pc[r] = "libre"
    /\ pc' = [pc EXCEPT ![r] = "consultar"]
    /\ UNCHANGED <<loc, sku, cant, pend, mov, error, resp>>

\* Stock.getStock for one :api line looks at the main depot only, and at no
\* reservation: the product must be listed and its total reach the quantity.
HayAlgo(r) == Stock("principal", sku[r]) # {}  \* (mutant) ignores the total
HayStock(r) == /\ Stock("principal", sku[r]) # {}
               /\ Total("principal", sku[r]) >= cant[r]

Consultar(r) ==
    /\ pc[r] = "consultar"
    /\ \/ /\ HayStock(r)
          /\ pc' = [pc EXCEPT ![r] = "aceptado"]
          /\ resp' = resp
       \/ /\ ~HayStock(r)
          /\ pc' = [pc EXCEPT ![r] = "fin"]
          /\ resp' = [resp EXCEPT ![r] = SinRespuesta]
    /\ UNCHANGED <<loc, sku, cant, pend, mov, error>>

Origen == [sacar |-> "principal", enviar |-> "despacho", devolver |-> "despacho"]
CantidadDesdeMenosUno(r, e) == Cardinality(mov[r][e]) - 1  \* (mutant)
Cantidad(r, e) == Cardinality(mov[r][e])    \* the :cant_mov of a movStockSku

\* (mutant) sends the quantity asked, whatever was taken out
LimitePedido(r, e) == IF e = "devolver" THEN cant[r] - Cantidad(r, "enviar")
                                        ELSE cant[r]

\* The limit enviarABodega passes to each movStockSku.
Limite(r, e) ==
    CASE e = "sacar"    -> cant[r]
      [] e = "enviar"   -> Cantidad(r, "sacar")
      [] e = "devolver" -> cant[r] - Cantidad(r, "enviar")

\* The running movStockSku has returned: no unit is left, or one was refused.
RetornoSinError(r) == pc[r] \in Etapas /\ pend[r] = {}  \* (mutant) keeps trying
Retorno(r) == pc[r] \in Etapas /\ (pend[r] = {} \/ error[r][pc[r]])

HuboErrorAlSacar(r) == error[r]["sacar"]  \* (mutant) the second error is missed
HuboError(r) == error[r]["sacar"] \/ error[r]["enviar"]

\* Which movStockSku the thread is about to start.
Empieza(r, e) ==
    \/ e = "sacar" /\ pc[r] = "aceptado"
    \/ e = "enviar" /\ pc[r] = "sacar" /\ Retorno(r)
    \/ e = "devolver" /\ pc[r] = "enviar" /\ Retorno(r) /\ HuboError(r)

\* movStockSku lists the units it is going to move ...
Listar(r, e) ==
    /\ Empieza(r, e)
    /\ \E L \in Listado(Origen[e], sku[r], Limite(r, e)) :
           pend' = [pend EXCEPT ![r] = L]
    /\ pc' = [pc EXCEPT ![r] = e]
    /\ UNCHANGED <<loc, sku, cant, mov, error, resp>>

LlamadaEspera(r, u) ==    \* (mutant) puts back into the waiting depot
    \/ pc[r] = "sacar" /\ MoveStock(u, "despacho")
    \/ pc[r] = "enviar" /\ MoveStockBodega(u)
    \/ pc[r] = "devolver" /\ MoveStock(u, "espera")

\* The call that moves one unit, by the destination of the current loop.
Llamada(r, u) ==
    \/ pc[r] = "sacar" /\ MoveStock(u, "despacho")
    \/ pc[r] = "enviar" /\ MoveStockBodega(u)
    \/ pc[r] = "devolver" /\ MoveStock(u, "principal")

\* ... moves them one by one, counting each ...
Mover(r, u) ==
    /\ u \in pend[r] /\ ~Retorno(r)
    /\ Llamada(r, u)
    /\ pend' = [pend EXCEPT ![r] = @ \ {u}]
    /\ mov' = [mov EXCEPT ![r][pc[r]] = @ \cup {u}]
    /\ UNCHANGED <<pc, sku, cant, error, resp>>

\* (mutant) counts the unit before looking at the error
RechazarContando(r) ==
    /\ pc[r] \in Etapas /\ ~Retorno(r)
    /\ error' = [error EXCEPT ![r][pc[r]] = TRUE]
    /\ \E u \in pend[r] : mov' = [mov EXCEPT ![r][pc[r]] = @ \cup {u}]
    /\ UNCHANGED <<loc, pc, sku, cant, pend, resp>>

\* ... and returns at the first one the service refuses.
Rechazar(r) ==
    /\ pc[r] \in Etapas /\ ~Retorno(r)
    /\ error' = [error EXCEPT ![r][pc[r]] = TRUE]
    /\ UNCHANGED <<loc, pc, sku, cant, pend, mov, resp>>

RespuestaSacado(r) == [success    |-> ~HuboError(r),  \* (mutant)
                       amountSent |-> Cantidad(r, "sacar")]
Respuesta(r) == [success    |-> ~HuboError(r),
                 amountSent |-> Cantidad(r, "enviar")]

\* What the putting back did is not looked at.
Responder(r) ==
    /\ Retorno(r)
    /\ pc[r] = "devolver" \/ (pc[r] = "enviar" /\ ~HuboError(r))
    /\ resp' = [resp EXCEPT ![r] = Respuesta(r)]
    /\ pc' = [pc EXCEPT ![r] = "fin"]
    /\ UNCHANGED <<loc, sku, cant, pend, mov, error>>

\* No call is rescued: one that raises (a lost connection, an answer that is
\* not JSON) ends the request with a 500.  The service may have done the move
\* whose answer was lost.
Excepcion(r) ==
    /\ pc[r] \in {"consultar", "aceptado"} \cup Etapas
    /\ \/ loc' = loc
       \/ ~Retorno(r) /\ \E u \in pend[r] : Llamada(r, u)
    /\ pc' = [pc EXCEPT ![r] = "caido"]
    /\ UNCHANGED <<sku, cant, pend, mov, error, resp>>

\* A new unit reaches the main depot.
Reponer(u) ==
    /\ loc[u] = "ajeno"
    /\ loc' = [loc EXCEPT ![u] = "principal"]
    /\ UNCHANGED <<pc, sku, cant, pend, mov, error, resp>>

Atender(r) ==
    \/ Consultar(r)
    \/ \E e \in Etapas : Listar(r, e)
    \/ \E u \in Unidades : Mover(r, u)
    \/ Rechazar(r)
    \/ Responder(r)

Next ==
    \/ \E r \in Pedido : Pedir(r) \/ Atender(r) \/ Excepcion(r)
    \/ \E u \in Unidades : Reponer(u)

\* The web server keeps running the threads it started.
Fairness == \A r \in Pedido : WF_vars(Atender(r))

Spec == Init /\ [][Next]_vars /\ Fairness

-----------------------------------------------------------------------------
(* Properties *)

Cerrado(r) == pc[r] \in {"libre", "fin"}

\* What a request counts as sent did reach the other group, and no unit is
\* counted by two requests, whatever stale listings they worked from
\* (Stock.movStockSku counts a unit after the service accepted it).
LibroDeEnvios ==
    /\ \A r \in Pedido : \A u \in mov[r]["enviar"] : loc[u] = "socio"
    /\ \A r, q \in Pedido : r # q => mov[r]["enviar"] \cap mov[q]["enviar"] = {}

\* A request sends more than it took out only when it took out nothing: the
\* limit 0 it then passes on lists everything in the dispatch depot, what
\* other requests put there included (request.rb:29-30).
ExcesoSoloSinSacar ==
    \A r \in Pedido :
        Cantidad(r, "enviar") > Cantidad(r, "sacar") => mov[r]["sacar"] = {}

\* Once every request is answered, the units that left for other groups are
\* exactly those the answers' :amountSent add up to (request.rb:40).
CuentaClara ==
    (\A r \in Pedido : Cerrado(r)) =>
        Cardinality({u \in Unidades : loc[u] = "socio"})
            = MapThenSumSet(LAMBDA r : resp[r].amountSent, Pedido)

\* Interleaved requests for at least one unit each leave nothing behind in
\* the dispatch depot when every one was answered, at most one of them had to
\* put units back and none was refused while doing so (request.rb:29-39).  Two
\* that put units back at once may list the same units and strand others.
SinVarados ==
    /\ \A r \in Pedido : Cerrado(r) /\ cant[r] > 0 /\ ~error[r]["devolver"]
    /\ \A r, q \in Pedido : HuboError(r) /\ HuboError(q) => r = q
    => \A s \in Skus : Stock("despacho", s) = {}

\* "Se envio todo" (request.rb:22) is true of a request that no other one
\* overlapped with.  When another one empties the main depot between the check
\* and the listing, the answer says so with a smaller amount (request.rb:19-41).
EnvioTodoSiSolo ==
    \A r \in Pedido :
        /\ pc[r] = "fin" /\ resp[r].success /\ cant[r] > 0
        /\ \A q \in Pedido \ {r} : pc[q] = "libre"
        => resp[r].amountSent = cant[r]

\* Every request that arrives is answered, unless one of its calls raises.
TodoPedidoTermina ==
    \A r \in Pedido : pc[r] = "consultar" ~> pc[r] \in {"fin", "caido"}

\* The promise of Envios, kept by the requests whatever their interleaving.
Estado(r) == CASE pc[r] = "fin" -> "contestado"
               [] pc[r] = "caido" -> "caido"
               [] OTHER -> "abierto"

Abstracto == INSTANCE Envios WITH
    estado  <- [r \in Pedido |-> Estado(r)],
    enviado <- [r \in Pedido |-> mov[r]["enviar"]],
    perdido <- {u \in Unidades : /\ loc[u] = "socio"
                                 /\ \A r \in Pedido : u \notin mov[r]["enviar"]},
    contado <- [r \in Pedido |-> resp[r].amountSent]

CumpleEnvios == Abstracto!Spec
=============================================================================
