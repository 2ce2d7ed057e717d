------------------------------- MODULE Envios -------------------------------
(***************************************************************************)
(* What the group promises the others about their requests, apart from how *)
(* the units travel through its depots: a unit goes to one request at      *)
(* most, nothing is sent for a request that is over, and the number a      *)
(* request is answered is the number of units sent for it.  A request that *)
(* breaks down has sent at most one unit it did not count.                 *)
(***************************************************************************)
EXTENDS Integers, FiniteSets

CONSTANTS Pedido, Unidades

VARIABLES
    estado,    \* "abierto", "contestado" or "caido", of each request
    enviado,   \* the units sent for each request
    perdido,   \* the units sent by a call whose answer never came
    contado    \* the amount each request was answered

vars == <<estado, enviado, perdido, contado>>

Fuera == perdido \cup UNION {enviado[r] : r \in Pedido}

Init ==
    /\ estado = [r \in Pedido |-> "abierto"]
    /\ enviado = [r \in Pedido |-> {}]
    /\ perdido = {}
    /\ contado = [r \in Pedido |-> 0]

Enviar(r) ==
    /\ estado[r] = "abierto"
    /\ \E u \in Unidades \ Fuera :
           enviado' = [enviado EXCEPT ![r] = @ \cup {u}]
    /\ UNCHANGED <<estado, perdido, contado>>

Contestar(r) ==
    /\ estado[r] = "abierto"
    /\ estado' = [estado EXCEPT ![r] = "contestado"]
    /\ contado' = [contado EXCEPT ![r] = Cardinality(enviado[r])]
    /\ UNCHANGED <<enviado, perdido>>

Caer(r) ==
    /\ estado[r] = "abierto"
    /\ estado' = [estado EXCEPT ![r] = "caido"]
    /\ \/ perdido' = perdido
       \/ \E u \in Unidades \ Fuera : perdido' = perdido \cup {u}
    /\ UNCHANGED <<enviado, contado>>

Next == \E r \in Pedido : Enviar(r) \/ Contestar(r) \/ Caer(r)

Spec == Init /\ [][Next]_vars
=============================================================================
