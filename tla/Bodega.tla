------------------------------- MODULE Bodega -------------------------------
(***************************************************************************)
(* The warehouse service bodega-integracion-2014 as class Stock            *)
(* (app/models/stock.rb) uses it over HTTP.  The service itself is not in  *)
(* the repository: what its calls do is read off how the code calls them.  *)
(*                                                                         *)
(* Every product unit has an identity ("_id") and lies in one place.  The  *)
(* group owns five depots; "ajeno" stands for a unit the group does not    *)
(* own yet, "socio" for one in the warehouse of another group and          *)
(* "cliente" for one that left the system with a client.                   *)
(***************************************************************************)
EXTENDS Integers, FiniteSets

CONSTANTS
    Unidades,   \* the product units
    Skus,       \* the product codes
    SkuDe       \* the product code of each unit

ASSUME BodegaAssumption == /\ IsFiniteSet(Unidades)
                           /\ SkuDe \in [Unidades -> Skus]

VARIABLE loc    \* where each unit lies

Depositos == {"recepcion", "principal", "espera", "despacho", "pulmon"}
Lugares   == Depositos \cup {"ajeno", "socio", "cliente"}

LocOK == loc \in [Unidades -> Lugares]

(***************************************************************************)
(* GET /skusWithStock and GET /stock.  The limit 0 means "no limit": that  *)
(* is how Stock.movAllStock asks for everything (stock.rb:309).  Which     *)
(* units a shorter listing names, and what a negative limit does, is the   *)
(* service's choice.                                                       *)
(***************************************************************************)
Stock(d, s) == {u \in Unidades : loc[u] = d /\ SkuDe[u] = s}
Total(d, s) == Cardinality(Stock(d, s))

Listado(d, s, limit) ==
    {L \in SUBSET Stock(d, s) :
        \/ limit < 0
        \/ L = Stock(d, s) /\ (limit = 0 \/ Cardinality(L) <= limit)
        \/ limit > 0 /\ Cardinality(L) = limit}

(***************************************************************************)
(* POST /moveStock names the unit and the destination but not the origin:  *)
(* a unit of any depot of the group is moved, wherever a listing saw it.   *)
(* POST /moveStockBodega and DELETE /stock only accept a unit that is in   *)
(* the dispatch depot.  Each of the three can also be refused (a full      *)
(* depot): that leaves everything as it was.                               *)
(***************************************************************************)
MoveStock(u, d) == /\ loc[u] \in Depositos
                   /\ loc' = [loc EXCEPT ![u] = d]

MoveStockBodega(u) == /\ loc[u] = "despacho"
                      /\ loc' = [loc EXCEPT ![u] = "socio"]

DeleteStock(u) == /\ loc[u] = "despacho"
                  /\ loc' = [loc EXCEPT ![u] = "cliente"]

(***************************************************************************)
(* What a request of another group (module Pedidos) may do to a unit, seen *)
(* by the tasks that run beside it: it takes the unit to the dispatch      *)
(* depot, puts it back, or sends it.  It works from listings of the main   *)
(* and the dispatch depot, and the unit may be in the waiting depot by the *)
(* time it is moved.                                                       *)
(***************************************************************************)
PedidoMueve(u) ==
    \/ /\ loc[u] \in {"principal", "espera", "despacho"}
       /\ MoveStock(u, "despacho") \/ MoveStock(u, "principal")
    \/ MoveStockBodega(u)
=============================================================================
