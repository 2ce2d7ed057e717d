--------------------------- MODULE PedidosProofs ----------------------------
(***************************************************************************)
(* Theorems about Pedidos, for any number of requests, units and products. *)
(***************************************************************************)
EXTENDS Pedidos, FiniteSetTheorems, TLAPS

\* The number a movStockSku counts is a natural number: there are finitely
\* many units to move.
LEMMA CantidadNat ==
    ASSUME TypeOK, NEW r \in Pedido, NEW e \in Etapas
    PROVE  Cantidad(r, e) \in Nat
<1>1. mov[r][e] \subseteq Unidades  BY DEF TypeOK
<1>2. IsFiniteSet(mov[r][e])  BY <1>1, FS_Subset, BodegaAssumption
<1> QED BY <1>2, FS_CardinalityType DEF Cantidad

\* What a listing names was in the listed depot.
LEMMA ListadoSubset ==
    ASSUME NEW d, NEW s, NEW n, NEW L \in Listado(d, s, n)
    PROVE  L \subseteq Unidades
BY DEF Listado, Stock

-----------------------------------------------------------------------------
(* Type correctness *)

LEMMA LlamadaLocOK ==
    ASSUME TypeOK, NEW r \in Pedido, NEW u \in Unidades, Llamada(r, u)
    PROVE  LocOK'
BY DEF TypeOK, LocOK, Llamada, MoveStock, MoveStockBodega, Lugares, Depositos

LEMMA InitTypeOK == Init => TypeOK
<1> SUFFICES ASSUME Init PROVE TypeOK  OBVIOUS
<1> USE PedidosAssumption DEF Init, Etapas
<1>1. LocOK  BY DEF LocOK, Lugares, Depositos
<1>2. cant \in [Pedido -> Int]  OBVIOUS
<1>3. resp \in [Pedido -> [success: BOOLEAN, amountSent: Nat]]  BY DEF SinRespuesta
<1>4. mov \in [Pedido -> [Etapas -> SUBSET Unidades]]  OBVIOUS
<1>5. error \in [Pedido -> [Etapas -> BOOLEAN]]  OBVIOUS
<1> QED BY <1>1, <1>2, <1>3, <1>4, <1>5 DEF TypeOK

LEMMA NextTypeOK == TypeOK /\ [Next]_vars => TypeOK'
<1> SUFFICES ASSUME TypeOK, [Next]_vars PROVE TypeOK'  OBVIOUS
<1> USE DEF TypeOK, LocOK
<1>1. ASSUME NEW r \in Pedido, Pedir(r) PROVE TypeOK'
  BY <1>1 DEF Pedir
<1>2. ASSUME NEW r \in Pedido, Consultar(r) PROVE TypeOK'
  <2>1. SinRespuesta \in [success: BOOLEAN, amountSent: Nat]  BY DEF SinRespuesta
  <2>2. resp' \in [Pedido -> [success: BOOLEAN, amountSent: Nat]]
    BY <1>2, <2>1 DEF Consultar
  <2>3. pc' = [pc EXCEPT ![r] = "aceptado"] \/ pc' = [pc EXCEPT ![r] = "fin"]
    BY <1>2 DEF Consultar
  <2> QED BY <1>2, <2>2, <2>3 DEF Consultar
<1>3. ASSUME NEW r \in Pedido, NEW e \in Etapas, Listar(r, e) PROVE TypeOK'
  BY <1>3, ListadoSubset DEF Listar
<1>4. ASSUME NEW r \in Pedido, NEW u \in Unidades, Mover(r, u) PROVE TypeOK'
  <2>1. LocOK'  BY <1>4, LlamadaLocOK DEF Mover
  <2>2. pc[r] \in Etapas  BY <1>4 DEF Mover, Llamada, Etapas
  <2>3. mov' \in [Pedido -> [Etapas -> SUBSET Unidades]]  BY <1>4, <2>2 DEF Mover
  <2> QED BY <1>4, <2>1, <2>3 DEF Mover
<1>5. ASSUME NEW r \in Pedido, Rechazar(r) PROVE TypeOK'
  BY <1>5 DEF Rechazar
<1>6. ASSUME NEW r \in Pedido, Responder(r) PROVE TypeOK'
  <2>1. Cantidad(r, "enviar") \in Nat  BY CantidadNat DEF Etapas
  <2>2. HuboError(r) \in BOOLEAN  BY DEF HuboError, Etapas
  <2>3. Respuesta(r) \in [success: BOOLEAN, amountSent: Nat]
    BY <2>1, <2>2 DEF Respuesta
  <2> QED BY <1>6, <2>3 DEF Responder
<1>7. ASSUME NEW r \in Pedido, Excepcion(r) PROVE TypeOK'
  <2>1. LocOK'
    <3>1. CASE loc' = loc  BY <3>1
    <3>2. CASE \E u \in pend[r] : Llamada(r, u)  BY <3>2, LlamadaLocOK
    <3> QED BY <1>7, <3>1, <3>2 DEF Excepcion
  <2> QED BY <1>7, <2>1 DEF Excepcion
<1>8. ASSUME NEW u \in Unidades, Reponer(u) PROVE TypeOK'
  BY <1>8 DEF Reponer, Lugares, Depositos
<1>9. CASE UNCHANGED vars  BY <1>9 DEF vars
<1> QED
  BY <1>1, <1>2, <1>3, <1>4, <1>5, <1>6, <1>7, <1>8, <1>9 DEF Next, Atender

\* Every state of the request handling is well typed; in particular the amount
\* a request is answered is a natural number.
THEOREM TypeCorrect == Spec => []TypeOK
<1> QED BY InitTypeOK, NextTypeOK, PTL DEF Spec

-----------------------------------------------------------------------------
(* The ledger of sent units *)

LEMMA NextLibro == TypeOK /\ LibroDeEnvios /\ [Next]_vars => LibroDeEnvios'
<1> SUFFICES ASSUME TypeOK, LibroDeEnvios, [Next]_vars PROVE LibroDeEnvios'
  OBVIOUS
<1> USE DEF LibroDeEnvios
<1>0. ASSUME NEW r \in Pedido, NEW v \in Unidades, Llamada(r, v),
             NEW q \in Pedido, NEW u \in mov[q]["enviar"]
      PROVE  u # v /\ loc'[u] = "socio"
  <2>1. u \in Unidades /\ loc[u] = "socio"  BY DEF TypeOK, Etapas
  <2>2. loc[v] # "socio"
    BY <1>0 DEF Llamada, MoveStock, MoveStockBodega, Depositos
  <2> QED
    BY <1>0, <2>1, <2>2 DEF Llamada, MoveStock, MoveStockBodega, TypeOK, LocOK
<1>1. ASSUME NEW r \in Pedido, NEW u \in Unidades, Mover(r, u)
      PROVE  LibroDeEnvios'
  <2>0. pc[r] \in Etapas /\ Llamada(r, u) /\ mov' = [mov EXCEPT ![r][pc[r]] = @ \cup {u}]
    BY <1>1 DEF Mover, Llamada, Etapas
  <2>1. CASE pc[r] # "enviar"
    <3>1. \A q \in Pedido : mov'[q]["enviar"] = mov[q]["enviar"]
      BY <2>0, <2>1 DEF TypeOK, Etapas
    <3> QED BY <1>0, <2>0, <3>1
  <2>2. CASE pc[r] = "enviar"
    <3>1. loc'[u] = "socio"
      BY <2>0, <2>2 DEF Llamada, MoveStockBodega, TypeOK, LocOK
    <3>2. mov'[r]["enviar"] = mov[r]["enviar"] \cup {u}
      BY <2>0, <2>2 DEF TypeOK, Etapas
    <3>3. \A q \in Pedido \ {r} : mov'[q]["enviar"] = mov[q]["enviar"]
      BY <2>0 DEF TypeOK
    <3>4. \A q \in Pedido : u \notin mov[q]["enviar"]  BY <1>0, <2>0
    <3>5. \A q \in Pedido : \A v \in mov[q]["enviar"] : loc'[v] = "socio"
      BY <1>0, <2>0
    <3> QED BY <3>1, <3>2, <3>3, <3>4, <3>5
  <2> QED BY <2>1, <2>2
<1>2. ASSUME NEW r \in Pedido, Excepcion(r) PROVE LibroDeEnvios'
  <2>1. mov' = mov  BY <1>2 DEF Excepcion
  <2>2. CASE loc' = loc  BY <2>1, <2>2
  <2>3. CASE \E u \in pend[r] : Llamada(r, u)
    BY <1>0, <2>1, <2>3 DEF TypeOK
  <2> QED BY <1>2, <2>2, <2>3 DEF Excepcion
<1>3. ASSUME NEW v \in Unidades, Reponer(v) PROVE LibroDeEnvios'
  <2>1. mov' = mov /\ loc[v] = "ajeno" /\ loc' = [loc EXCEPT ![v] = "principal"]
    BY <1>3 DEF Reponer
  <2>2. ASSUME NEW q \in Pedido, NEW u \in mov[q]["enviar"] PROVE loc'[u] = "socio"
    <3>1. u \in Unidades /\ loc[u] = "socio"  BY DEF TypeOK, Etapas
    <3> QED BY <2>1, <3>1 DEF TypeOK, LocOK
  <2> QED BY <2>1, <2>2
<1>4. CASE UNCHANGED <<loc, mov>>  BY <1>4
<1> QED
  BY <1>1, <1>2, <1>3, <1>4
  DEF Next, Atender, Pedir, Consultar, Listar, Rechazar, Responder, vars

\* Whatever the interleaving, what a request counts as sent reached the other
\* group and is counted by no other request.
THEOREM LibroSiempre == Spec => []LibroDeEnvios
<1>1. Init => LibroDeEnvios  BY DEF Init, LibroDeEnvios, Etapas
<1> QED BY <1>1, TypeCorrect, NextLibro, PTL DEF Spec

-----------------------------------------------------------------------------
(* Sending more than was taken out *)

SinEnviarAun == {"libre", "consultar", "aceptado", "sacar"}

\* What keeps a request from sending too much: it has sent nothing before its
\* second loop, and inside it what it sent together with what it still has
\* listed is no more than it took out.
LimiteDeEnvio ==
    \A r \in Pedido :
        /\ pc[r] \in SinEnviarAun => mov[r]["enviar"] = {}
        /\ pc[r] = "enviar" /\ mov[r]["sacar"] # {}
              => Cardinality(mov[r]["enviar"] \cup pend[r]) <= Cantidad(r, "sacar")

IExceso == LimiteDeEnvio /\ ExcesoSoloSinSacar

LEMMA ListadoCardinality ==
    ASSUME NEW d, NEW s, NEW n \in Nat, n # 0, NEW L \in Listado(d, s, n)
    PROVE  Cardinality(L) <= n
BY DEF Listado

\* A step that leaves a request's place, counts and listing alone.
LEMMA IExcesoIgual ==
    ASSUME IExceso, NEW r \in Pedido,
           pc'[r] = pc[r] \/ pc'[r] \notin SinEnviarAun \cup {"enviar"}
                          \/ (pc[r] \in SinEnviarAun /\ pc'[r] \in SinEnviarAun),
           pend'[r] = pend[r] \/ pc'[r] # "enviar",
           mov'[r]["enviar"] = mov[r]["enviar"],
           mov'[r]["sacar"] = mov[r]["sacar"]
    PROVE  /\ pc'[r] \in SinEnviarAun => mov'[r]["enviar"] = {}
           /\ pc'[r] = "enviar" /\ mov'[r]["sacar"] # {}
                 => Cardinality(mov'[r]["enviar"] \cup pend'[r])
                       <= Cardinality(mov'[r]["sacar"])
           /\ Cardinality(mov'[r]["enviar"]) > Cardinality(mov'[r]["sacar"])
                 => mov'[r]["sacar"] = {}
BY DEF IExceso, LimiteDeEnvio, ExcesoSoloSinSacar, Cantidad, SinEnviarAun

LEMMA NextExceso == TypeOK /\ IExceso /\ [Next]_vars => IExceso'
<1> SUFFICES ASSUME TypeOK, IExceso, [Next]_vars,
                    NEW r \in Pedido
             PROVE  /\ pc'[r] \in SinEnviarAun => mov'[r]["enviar"] = {}
                    /\ pc'[r] = "enviar" /\ mov'[r]["sacar"] # {}
                          => Cardinality(mov'[r]["enviar"] \cup pend'[r])
                                <= Cardinality(mov'[r]["sacar"])
                    /\ Cardinality(mov'[r]["enviar"]) > Cardinality(mov'[r]["sacar"])
                          => mov'[r]["sacar"] = {}
  BY DEF IExceso, LimiteDeEnvio, ExcesoSoloSinSacar, Cantidad
<1> DEFINE Bien == /\ pc'[r] \in SinEnviarAun => mov'[r]["enviar"] = {}
                   /\ pc'[r] = "enviar" /\ mov'[r]["sacar"] # {}
                         => Cardinality(mov'[r]["enviar"] \cup pend'[r])
                               <= Cardinality(mov'[r]["sacar"])
                   /\ Cardinality(mov'[r]["enviar"]) > Cardinality(mov'[r]["sacar"])
                         => mov'[r]["sacar"] = {}
<1>1. ASSUME NEW q \in Pedido, NEW e \in Etapas, Listar(q, e) PROVE Bien
  <2>1. mov' = mov /\ pc' = [pc EXCEPT ![q] = e]  BY <1>1 DEF Listar
  <2>2. pc[q] \in SinEnviarAun \cup {"enviar"}
    BY <1>1 DEF Listar, Empieza, SinEnviarAun
  <2>3. CASE q # r  BY <1>1, <2>1, <2>3, IExcesoIgual DEF Listar, TypeOK
  <2>4. CASE q = r /\ e = "sacar"
    <3>1. pc[r] = "aceptado"  BY <1>1, <2>4 DEF Listar, Empieza
    <3> QED BY <2>1, <2>4, <3>1, IExcesoIgual DEF TypeOK, SinEnviarAun
  <2>5. CASE q = r /\ e = "devolver"
    BY <2>1, <2>5, IExcesoIgual DEF TypeOK, SinEnviarAun
  <2>6. CASE q = r /\ e = "enviar"
    <3>1. mov[r]["enviar"] = {}
      BY <1>1, <2>6 DEF Listar, Empieza, IExceso, LimiteDeEnvio, SinEnviarAun
    <3>2. pend'[r] \in Listado("despacho", sku[r], Cantidad(r, "sacar"))
      BY <1>1, <2>6 DEF Listar, Limite, Origen, TypeOK
    <3>3. Cantidad(r, "sacar") \in Nat  BY CantidadNat DEF Etapas
    <3>4. Cantidad(r, "sacar") = 0 => mov[r]["sacar"] = {}
      <4>1. IsFiniteSet(mov[r]["sacar"])
        BY FS_Subset, BodegaAssumption DEF TypeOK, Etapas
      <4> QED BY <4>1, FS_EmptySet DEF Cantidad
    <3>5. mov[r]["sacar"] # {} => Cardinality(pend'[r]) <= Cantidad(r, "sacar")
      BY <3>2, <3>3, <3>4, ListadoCardinality
    <3>6. mov[r]["enviar"] \cup pend'[r] = pend'[r]  BY <3>1
    <3>7. Cardinality(mov[r]["enviar"]) = 0  BY <3>1, FS_EmptySet
    <3>8. pc'[r] = "enviar"  BY <2>1, <2>6 DEF TypeOK
    <3>9. mov'[r]["enviar"] = mov[r]["enviar"] /\ mov'[r]["sacar"] = mov[r]["sacar"]
      BY <2>1
    <3>10. pc'[r] \notin SinEnviarAun  BY <3>8 DEF SinEnviarAun
    <3>11. mov'[r]["sacar"] # {}
             => Cardinality(mov'[r]["enviar"] \cup pend'[r])
                   <= Cardinality(mov'[r]["sacar"])
      BY <3>5, <3>6, <3>9 DEF Cantidad
    <3>12. ~(Cardinality(mov'[r]["enviar"]) > Cardinality(mov'[r]["sacar"]))
      BY <3>3, <3>7, <3>9 DEF Cantidad
    <3> QED BY <3>10, <3>11, <3>12
  <2> QED BY <2>3, <2>4, <2>5, <2>6 DEF Etapas
<1>2. ASSUME NEW q \in Pedido, NEW u \in Unidades, Mover(q, u) PROVE Bien
  <2>1. /\ pc' = pc /\ u \in pend[q] /\ pend' = [pend EXCEPT ![q] = @ \ {u}]
        /\ pc[q] \in Etapas
        /\ mov' = [mov EXCEPT ![q][pc[q]] = @ \cup {u}]
    BY <1>2 DEF Mover, Llamada, Etapas
  <2>2. CASE q # r  BY <2>1, <2>2, IExcesoIgual DEF TypeOK
  <2>3. CASE q = r /\ pc[r] = "devolver"
    <3>1. mov'[r]["enviar"] = mov[r]["enviar"] /\ mov'[r]["sacar"] = mov[r]["sacar"]
      BY <2>1, <2>3 DEF TypeOK, Etapas
    <3> QED BY <2>1, <2>3, <3>1, IExcesoIgual
  <2>4. CASE q = r /\ pc[r] = "sacar"
    <3>1. mov'[r]["enviar"] = {} /\ mov'[r]["sacar"] \subseteq Unidades
      <4>1. mov[r]["enviar"] = {}
        BY <2>4 DEF IExceso, LimiteDeEnvio, SinEnviarAun
      <4>2. mov'[r] = [mov[r] EXCEPT !["sacar"] = @ \cup {u}]
        BY <2>1, <2>4 DEF TypeOK
      <4> QED BY <4>1, <4>2 DEF TypeOK, Etapas
    <3>2. Cardinality(mov'[r]["enviar"]) = 0  BY <3>1, FS_EmptySet
    <3>3. Cardinality(mov'[r]["sacar"]) \in Nat
      BY <3>1, FS_Subset, FS_CardinalityType, BodegaAssumption
    <3> QED BY <2>1, <2>4, <3>1, <3>2, <3>3
  <2>5. CASE q = r /\ pc[r] = "enviar"
    <3>1. mov'[r]["enviar"] = mov[r]["enviar"] \cup {u} /\ pend'[r] = pend[r] \ {u}
      BY <2>1, <2>5 DEF TypeOK, Etapas
    <3>2. mov'[r]["sacar"] = mov[r]["sacar"]  BY <2>1, <2>5 DEF TypeOK, Etapas
    <3>3. mov'[r]["enviar"] \cup pend'[r] = mov[r]["enviar"] \cup pend[r]
      BY <2>1, <2>5, <3>1
    <3>4. mov[r]["sacar"] # {} => Cardinality(mov[r]["enviar"] \cup pend[r])
                                    <= Cardinality(mov[r]["sacar"])
      BY <2>5 DEF IExceso, LimiteDeEnvio, Cantidad
    <3>5. /\ IsFiniteSet(mov[r]["enviar"] \cup pend[r])
          /\ mov'[r]["enviar"] \subseteq mov[r]["enviar"] \cup pend[r]
      <4>1. mov[r]["enviar"] \cup pend[r] \subseteq Unidades  BY DEF TypeOK, Etapas
      <4> QED BY <2>1, <2>5, <3>1, <4>1, FS_Subset, BodegaAssumption
    <3>6. Cardinality(mov'[r]["enviar"]) <= Cardinality(mov[r]["enviar"] \cup pend[r])
      BY <3>5, FS_Subset
    <3>7. /\ Cardinality(mov'[r]["enviar"]) \in Nat
          /\ Cardinality(mov[r]["enviar"] \cup pend[r]) \in Nat
      BY <3>5, FS_Subset, FS_CardinalityType
    <3>8. Cardinality(mov[r]["sacar"]) \in Nat  BY CantidadNat DEF Cantidad, Etapas
    <3>9. pc'[r] \notin SinEnviarAun  BY <2>1, <2>5 DEF SinEnviarAun
    <3>10. mov'[r]["sacar"] # {}
             => Cardinality(mov'[r]["enviar"] \cup pend'[r])
                   <= Cardinality(mov'[r]["sacar"])
      BY <3>2, <3>3, <3>4
    <3>11. mov'[r]["sacar"] # {}
             => Cardinality(mov'[r]["enviar"]) <= Cardinality(mov'[r]["sacar"])
      BY <3>2, <3>4, <3>6, <3>7, <3>8
    <3>12. /\ Cardinality(mov'[r]["enviar"]) \in Nat
           /\ Cardinality(mov'[r]["sacar"]) \in Nat
      BY <3>2, <3>7, <3>8
    <3> QED BY <3>9, <3>10, <3>11, <3>12
  <2> QED BY <2>1, <2>2, <2>3, <2>4, <2>5 DEF Etapas
<1>3. ASSUME NEW q \in Pedido, Pedir(q) \/ Consultar(q) PROVE Bien
  BY <1>3, IExcesoIgual DEF Pedir, Consultar, TypeOK, SinEnviarAun
<1>4. ASSUME NEW q \in Pedido, Responder(q) \/ Excepcion(q) PROVE Bien
  BY <1>4, IExcesoIgual DEF Responder, Excepcion, TypeOK, SinEnviarAun
<1>5. CASE UNCHANGED <<pc, pend, mov>>  BY <1>5, IExcesoIgual
<1> QED
  BY <1>1, <1>2, <1>3, <1>4, <1>5 DEF Next, Atender, Rechazar, Reponer, vars

\* A request is sent more units than it had taken out of the main depot only
\* when it had taken out none.
THEOREM ExcesoSiempre == Spec => []ExcesoSoloSinSacar
<1>1. Init => IExceso
  BY FS_EmptySet DEF Init, IExceso, LimiteDeEnvio, ExcesoSoloSinSacar, Cantidad,
     Etapas, SinEnviarAun
<1>2. IExceso => ExcesoSoloSinSacar  BY DEF IExceso
<1> QED BY <1>1, <1>2, TypeCorrect, NextExceso, PTL DEF Spec

-----------------------------------------------------------------------------
(* Pedidos implements Envios: every step of a request is a step of the       *)
(* promise or leaves it alone.                                               *)

\* The three invariants the step simulation needs.
IRefina == TypeOK /\ LibroDeEnvios /\ IExceso

\* The units another group got by a call whose answer was lost.
Perdido == {u \in Unidades : /\ loc[u] = "socio"
                             /\ \A r \in Pedido : u \notin mov[r]["enviar"]}

LEMMA InitRefina == Init => Abstracto!Init
<1> SUFFICES ASSUME Init PROVE Abstracto!Init  OBVIOUS
<1>1. [r \in Pedido |-> Estado(r)] = [r \in Pedido |-> "abierto"]
  BY DEF Init, Estado
<1>2. [r \in Pedido |-> mov[r]["enviar"]] = [r \in Pedido |-> {}]
  BY DEF Init, Etapas
<1>3. Perdido = {}  BY DEF Init, Perdido
<1>4. [r \in Pedido |-> resp[r].amountSent] = [r \in Pedido |-> 0]
  BY DEF Init, SinRespuesta
<1> QED BY <1>1, <1>2, <1>3, <1>4 DEF Abstracto!Init, Perdido

\* A step that sends nothing and ends no request.
LEMMA IgualRefina ==
    ASSUME TypeOK, TypeOK',
           \A r \in Pedido : Estado(r)' = Estado(r),
           \A r \in Pedido : mov'[r]["enviar"] = mov[r]["enviar"],
           \A u \in Unidades : loc'[u] = "socio" <=> loc[u] = "socio",
           resp' = resp
    PROVE  UNCHANGED Abstracto!vars
<1>1. [r \in Pedido |-> Estado(r)]' = [r \in Pedido |-> Estado(r)]  OBVIOUS
<1>2. [r \in Pedido |-> mov[r]["enviar"]]' = [r \in Pedido |-> mov[r]["enviar"]]
  OBVIOUS
<1>3. Perdido' = Perdido  BY DEF Perdido
<1>4. [r \in Pedido |-> resp[r].amountSent]' = [r \in Pedido |-> resp[r].amountSent]
  OBVIOUS
<1> QED BY <1>1, <1>2, <1>3, <1>4 DEF Abstracto!vars, Perdido

\* A unit a call moves was not at another group.
LEMMA LlamadaFuera ==
    ASSUME TypeOK, LibroDeEnvios, NEW r \in Pedido, NEW u \in Unidades, Llamada(r, u)
    PROVE  /\ loc[u] # "socio"
           /\ u \notin Abstracto!Fuera
           /\ \A v \in Unidades \ {u} : loc'[v] = loc[v]
           /\ pc[r] = "enviar" => loc'[u] = "socio"
           /\ pc[r] # "enviar" => loc'[u] # "socio"
<1>1. loc[u] # "socio"
  BY DEF Llamada, MoveStock, MoveStockBodega, Depositos
<1>2. u \notin Abstracto!Fuera
  BY <1>1 DEF LibroDeEnvios, Abstracto!Fuera
<1>3. /\ \A v \in Unidades \ {u} : loc'[v] = loc[v]
      /\ pc[r] = "enviar" => loc'[u] = "socio"
      /\ pc[r] # "enviar" => loc'[u] # "socio"
  BY DEF Llamada, MoveStock, MoveStockBodega, TypeOK, LocOK
<1> QED BY <1>1, <1>2, <1>3

\* A step that answers a request the number of units sent for it.
LEMMA ContestarRefina ==
    ASSUME TypeOK, NEW r \in Pedido, pc[r] \notin {"fin", "caido"},
           pc' = [pc EXCEPT ![r] = "fin"], loc' = loc, mov' = mov,
           \A q \in Pedido \ {r} : resp'[q] = resp[q],
           resp'[r].amountSent = Cardinality(mov[r]["enviar"])
    PROVE  Abstracto!Contestar(r)
<1>1. /\ Estado(r) = "abierto" /\ Estado(r)' = "contestado"
      /\ \A q \in Pedido \ {r} : Estado(q)' = Estado(q)
  BY DEF Estado, TypeOK
<1>2. [q \in Pedido |-> Estado(q)]'
        = [[q \in Pedido |-> Estado(q)] EXCEPT ![r] = "contestado"]
  BY <1>1
<1>3. [q \in Pedido |-> resp[q].amountSent]'
        = [[q \in Pedido |-> resp[q].amountSent]
              EXCEPT ![r] = Cardinality([q \in Pedido |-> mov[q]["enviar"]][r])]
  OBVIOUS
<1>4. Perdido' = Perdido  BY DEF Perdido
<1>5. [q \in Pedido |-> mov[q]["enviar"]]' = [q \in Pedido |-> mov[q]["enviar"]]
  OBVIOUS
<1>6. \A S : Abstracto!Cardinality(S) = Cardinality(S)
  BY DEF Abstracto!Cardinality, Cardinality
<1> QED BY <1>1, <1>2, <1>3, <1>4, <1>5, <1>6 DEF Abstracto!Contestar, Perdido

LEMMA NextRefina ==
    IRefina /\ IRefina' /\ [Next]_vars => [Abstracto!Next]_(Abstracto!vars)
<1> SUFFICES ASSUME IRefina, IRefina', [Next]_vars
             PROVE  Abstracto!Next \/ UNCHANGED Abstracto!vars
  OBVIOUS
<1> USE DEF IRefina
<1>1. ASSUME NEW r \in Pedido, Pedir(r) PROVE UNCHANGED Abstracto!vars
  BY <1>1, IgualRefina DEF Pedir, TypeOK, Estado
<1>2. ASSUME NEW r \in Pedido, NEW e \in Etapas, Listar(r, e)
      PROVE  UNCHANGED Abstracto!vars
  <2>1. pc[r] \notin {"fin", "caido"} /\ e \notin {"fin", "caido"}
    BY <1>2 DEF Listar, Empieza, Etapas
  <2> QED BY <1>2, <2>1, IgualRefina DEF Listar, TypeOK, Estado
<1>3. ASSUME NEW r \in Pedido, Rechazar(r) PROVE UNCHANGED Abstracto!vars
  BY <1>3, IgualRefina DEF Rechazar, Estado
<1>4. ASSUME NEW u \in Unidades, Reponer(u) PROVE UNCHANGED Abstracto!vars
  <2>1. \A v \in Unidades : loc'[v] = "socio" <=> loc[v] = "socio"
    BY <1>4 DEF Reponer, TypeOK, LocOK
  <2> QED BY <1>4, <2>1, IgualRefina DEF Reponer, Estado
<1>5. ASSUME NEW r \in Pedido, Consultar(r)
      PROVE  Abstracto!Contestar(r) \/ UNCHANGED Abstracto!vars
  <2>1. CASE pc' = [pc EXCEPT ![r] = "aceptado"] /\ resp' = resp
    BY <1>5, <2>1, IgualRefina DEF Consultar, TypeOK, Estado
  <2>2. CASE /\ pc' = [pc EXCEPT ![r] = "fin"]
             /\ resp' = [resp EXCEPT ![r] = SinRespuesta]
    <3>1. mov[r]["enviar"] = {}
      BY <1>5 DEF Consultar, IExceso, LimiteDeEnvio, SinEnviarAun
    <3>2. resp'[r].amountSent = Cardinality(mov[r]["enviar"])
      BY <2>2, <3>1, FS_EmptySet DEF SinRespuesta, TypeOK
    <3> QED BY <1>5, <2>2, <3>2, ContestarRefina DEF Consultar, TypeOK
  <2> QED BY <1>5, <2>1, <2>2 DEF Consultar
<1>6. ASSUME NEW r \in Pedido, Responder(r) PROVE Abstracto!Contestar(r)
  <2>1. resp'[r].amountSent = Cardinality(mov[r]["enviar"])
    BY <1>6 DEF Responder, Respuesta, Cantidad, TypeOK
  <2>2. pc[r] \notin {"fin", "caido"}  BY <1>6 DEF Responder
  <2> QED BY <1>6, <2>1, <2>2, ContestarRefina DEF Responder, TypeOK
<1>7. ASSUME NEW r \in Pedido, NEW u \in Unidades, Mover(r, u)
      PROVE  Abstracto!Enviar(r) \/ UNCHANGED Abstracto!vars
  <2>1. Llamada(r, u) /\ pc' = pc /\ resp' = resp
        /\ mov' = [mov EXCEPT ![r][pc[r]] = @ \cup {u}]
    BY <1>7 DEF Mover
  <2>2. CASE pc[r] # "enviar"
    <3>1. \A q \in Pedido : mov'[q]["enviar"] = mov[q]["enviar"]
      BY <2>1, <2>2 DEF TypeOK, Etapas
    <3>2. \A v \in Unidades : loc'[v] = "socio" <=> loc[v] = "socio"
      BY <2>1, <2>2, LlamadaFuera
    <3> QED BY <2>1, <3>1, <3>2, IgualRefina DEF Estado
  <2>3. CASE pc[r] = "enviar"
    <3>1. mov'[r]["enviar"] = mov[r]["enviar"] \cup {u}
      BY <2>1, <2>3 DEF TypeOK, Etapas
    <3>2. \A q \in Pedido \ {r} : mov'[q]["enviar"] = mov[q]["enviar"]
      BY <2>1 DEF TypeOK
    <3>3. [q \in Pedido |-> mov[q]["enviar"]]'
            = [[q \in Pedido |-> mov[q]["enviar"]] EXCEPT ![r] = @ \cup {u}]
      BY <3>1, <3>2
    <3>4. Perdido' = Perdido
      BY <2>1, <2>3, <3>1, <3>2, LlamadaFuera DEF Perdido
    <3>5. Estado(r) = "abierto"  BY <2>3 DEF Estado
    <3>6. [q \in Pedido |-> Estado(q)]' = [q \in Pedido |-> Estado(q)]
      BY <2>1 DEF Estado
    <3>7. u \notin Abstracto!Fuera  BY <2>1, LlamadaFuera
    <3> QED
      BY <2>1, <3>3, <3>4, <3>5, <3>6, <3>7 DEF Abstracto!Enviar, Perdido
  <2> QED BY <2>2, <2>3
<1>8. ASSUME NEW r \in Pedido, Excepcion(r) PROVE Abstracto!Caer(r)
  <2>1. /\ pc[r] \notin {"fin", "caido"} /\ pc' = [pc EXCEPT ![r] = "caido"]
        /\ mov' = mov /\ resp' = resp
    BY <1>8 DEF Excepcion, Etapas
  <2>2. /\ Estado(r) = "abierto" /\ Estado(r)' = "caido"
        /\ \A q \in Pedido \ {r} : Estado(q)' = Estado(q)
    BY <2>1 DEF Estado, TypeOK
  <2>3. [q \in Pedido |-> Estado(q)]'
          = [[q \in Pedido |-> Estado(q)] EXCEPT ![r] = "caido"]
    BY <2>2
  <2>4. Perdido' = Perdido \/ \E u \in Unidades \ Abstracto!Fuera :
                                   Perdido' = Perdido \cup {u}
    <3>1. CASE loc' = loc  BY <2>1, <3>1 DEF Perdido
    <3>2. ASSUME NEW u \in pend[r], Llamada(r, u)
          PROVE  Perdido' = Perdido \/ \E v \in Unidades \ Abstracto!Fuera :
                                            Perdido' = Perdido \cup {v}
      <4>1. u \in Unidades  BY DEF TypeOK
      <4>2. /\ loc[u] # "socio" /\ u \notin Abstracto!Fuera
            /\ \A v \in Unidades \ {u} : loc'[v] = loc[v]
        BY <3>2, <4>1, LlamadaFuera
      <4>3. \A q \in Pedido : u \notin mov[q]["enviar"]
        BY <4>2 DEF LibroDeEnvios
      <4>4. CASE loc'[u] = "socio"
        <5>1. Perdido' = Perdido \cup {u}
          BY <2>1, <4>1, <4>2, <4>3, <4>4 DEF Perdido
        <5> QED BY <4>1, <4>2, <5>1
      <4>5. CASE loc'[u] # "socio"
        BY <2>1, <4>1, <4>2, <4>5 DEF Perdido
      <4> QED BY <4>4, <4>5
    <3> QED BY <1>8, <3>1, <3>2 DEF Excepcion
  <2> QED BY <2>1, <2>2, <2>3, <2>4 DEF Abstracto!Caer, Perdido
<1>9. CASE UNCHANGED vars
  BY <1>9, IgualRefina DEF vars, Estado
<1> QED
  BY <1>1, <1>2, <1>3, <1>4, <1>5, <1>6, <1>7, <1>8, <1>9
  DEF Next, Atender, Abstracto!Next

\* Requests keep the promise of Envios: a unit goes to one request at most,
\* nothing is sent for a finished one, and the amount answered is the number of
\* units sent, for any number of concurrent requests.
THEOREM PedidosCumple == Spec => CumpleEnvios
<1>1. Spec => []IExceso
  <2>1. Init => IExceso
    BY FS_EmptySet DEF Init, IExceso, LimiteDeEnvio, ExcesoSoloSinSacar, Cantidad,
       Etapas, SinEnviarAun
  <2> QED BY <2>1, TypeCorrect, NextExceso, PTL DEF Spec
<1>2. Spec => []IRefina
  BY <1>1, TypeCorrect, LibroSiempre, PTL DEF IRefina
<1> QED
  BY <1>2, InitRefina, NextRefina, PTL DEF Spec, CumpleEnvios, Abstracto!Spec

-----------------------------------------------------------------------------
(* Sums over a set: what MapThenSumSet denotes *)

\* The element MapThenFoldSet folds first.
Elegir(s) == CHOOSE x \in s : TRUE

\* g adds up f over the subsets of S.
SumaDe(g, f, S) ==
    g = [s \in SUBSET S |-> IF s = {} THEN 0
                            ELSE f[Elegir(s)] + g[s \ {Elegir(s)}]]

\* A set of naturals that is not empty has a least element.
LEMMA MenorNat ==
    ASSUME NEW T \in SUBSET Nat, T # {}
    PROVE  \E m \in T : \A n \in T : m <= n
<1> DEFINE R == OpToRel(<, Nat)
<1>1. IsWellFoundedOn(R, Nat)  BY NatLessThanWellFounded
<1>2. \A x, y \in Nat : y < x => <<y, x>> \in R  BY DEF OpToRel
<1> HIDE DEF R
<1>3. T \subseteq Nat  OBVIOUS
<1>4. PICK x \in T : \A y \in T : ~(<<y, x>> \in R)  BY <1>1, <1>3, WFMin, Zenon
<1>5. ASSUME NEW y \in T PROVE x <= y
  <2>1. ~(y < x)  BY <1>2, <1>3, <1>4
  <2> QED BY <1>3, <2>1
<1> QED BY <1>5

LEMMA QuitarUno ==
    ASSUME NEW s, IsFiniteSet(s), s # {}
    PROVE  /\ Elegir(s) \in s
           /\ IsFiniteSet(s \ {Elegir(s)})
           /\ Cardinality(s) \in Nat
           /\ Cardinality(s \ {Elegir(s)}) \in Nat
           /\ Cardinality(s) = Cardinality(s \ {Elegir(s)}) + 1
<1>1. Elegir(s) \in s  BY DEF Elegir
<1>2. /\ IsFiniteSet(s \ {Elegir(s)})
      /\ Cardinality(s \ {Elegir(s)}) = Cardinality(s) - 1
  BY <1>1, FS_RemoveElement
<1> QED BY <1>1, <1>2, FS_CardinalityType

\* The recursive function that MapThenSumSet chooses exists on a finite set: on
\* the subsets of n elements for the least n where it would not, the one for
\* n - 1 gives it.
LEMMA HaySuma ==
    ASSUME NEW S, IsFiniteSet(S), NEW f
    PROVE  \E g : SumaDe(g, f, S)
<1> DEFINE D(n) == {s \in SUBSET S : Cardinality(s) <= n}
           Paso(g, s) == IF s = {} THEN 0 ELSE f[Elegir(s)] + g[s \ {Elegir(s)}]
           Hasta(g, n) == \A s \in D(n) : g[s] = Paso(g, s)
           T == {n \in Nat : ~ \E g : Hasta(g, n)}
<1>1. ASSUME NEW s \in SUBSET S
      PROVE  /\ IsFiniteSet(s) /\ Cardinality(s) \in Nat
             /\ Cardinality(s) <= Cardinality(S)
             /\ s # {} => /\ s \ {Elegir(s)} \in SUBSET S
                          /\ Cardinality(s) = Cardinality(s \ {Elegir(s)}) + 1
  BY FS_Subset, FS_CardinalityType, QuitarUno
<1>2. T = {}
  <2> SUFFICES ASSUME T # {} PROVE FALSE  OBVIOUS
  <2>1. PICK m \in T : \A n \in T : m <= n
    <3>1. T \in SUBSET Nat  OBVIOUS
    <3> HIDE DEF T
    <3> QED BY <3>1, MenorNat
  <2>2. m \in Nat /\ ~ \E g : Hasta(g, m)  OBVIOUS
  <2>3. PICK g : \A s \in SUBSET S : Cardinality(s) < m => g[s] = Paso(g, s)
    <3>0. \A s \in SUBSET S : Cardinality(s) \in Nat  BY <1>1
    <3>1. CASE m = 0
      <4>1. \A s \in SUBSET S : ~(Cardinality(s) < m)  BY <3>0, <3>1
      <4> QED BY <4>1
    <3>2. CASE m # 0
      <4>1. m - 1 \in Nat /\ ~(m <= m - 1)  BY <2>2, <3>2
      <4>2. m - 1 \notin T  BY <2>1, <4>1
      <4>3. PICK g : Hasta(g, m - 1)  BY <4>1, <4>2
      <4>4. \A s \in SUBSET S : Cardinality(s) < m => s \in D(m - 1)
        BY <2>2, <3>0
      <4> QED BY <4>3, <4>4
    <3> QED BY <3>1, <3>2
  <2> DEFINE h == [s \in SUBSET S |-> IF Cardinality(s) < m THEN g[s] ELSE Paso(g, s)]
  <2>4. ASSUME NEW s \in D(m) PROVE h[s] = Paso(h, s)
    <3>1. h[s] = Paso(g, s)  BY <2>3
    <3>2. s # {} => h[s \ {Elegir(s)}] = g[s \ {Elegir(s)}]
      <4>1. s # {} => /\ s \ {Elegir(s)} \in SUBSET S
                      /\ Cardinality(s \ {Elegir(s)}) < m
        <5>1. s # {} => Cardinality(s \ {Elegir(s)}) \in Nat  BY <1>1
        <5> QED BY <1>1, <2>2, <5>1
      <4> QED BY <4>1
    <3> QED BY <3>1, <3>2
  <2> QED BY <2>2, <2>4
<1>3. PICK g : Hasta(g, Cardinality(S))
  <2>1. Cardinality(S) \in Nat  BY FS_CardinalityType
  <2> QED BY <1>2, <2>1
<1>4. \A s \in SUBSET S : g[s] = Paso(g, s)  BY <1>1, <1>3
<1> DEFINE h == [s \in SUBSET S |-> Paso(g, s)]
<1>5. \A s \in SUBSET S : h[s] = Paso(h, s)
  BY <1>1, <1>4
<1>6. h = [s \in SUBSET S |-> IF s = {} THEN 0 ELSE f[Elegir(s)] + h[s \ {Elegir(s)}]]
  BY <1>5
<1> HIDE DEF h
<1> QED BY <1>6 DEF SumaDe

\* Induction on a finite set: a family of its subsets that is not empty has a
\* member which the family does not hold without its chosen element.
LEMMA MenorConjunto ==
    ASSUME NEW S, IsFiniteSet(S), NEW T \in SUBSET (SUBSET S), T # {}
    PROVE  \E s \in T : s = {} \/ (s # {} /\ s \ {Elegir(s)} \notin T)
<1> DEFINE N == {Cardinality(s) : s \in T}
<1>0. \A s \in T : IsFiniteSet(s) /\ Cardinality(s) \in Nat
  BY FS_Subset, FS_CardinalityType
<1>1. N \in SUBSET Nat /\ N # {}  BY <1>0
<1>2. PICK m \in N : \A n \in N : m <= n
  <2> HIDE DEF N
  <2> QED BY <1>1, MenorNat
<1>3. PICK s \in T : m = Cardinality(s)  OBVIOUS
<1>4. ASSUME s # {} PROVE s \ {Elegir(s)} \notin T
  <2>1. /\ Cardinality(s) \in Nat /\ Cardinality(s \ {Elegir(s)}) \in Nat
        /\ Cardinality(s) = Cardinality(s \ {Elegir(s)}) + 1
    BY <1>0, <1>4, QuitarUno
  <2>2. ~(m <= Cardinality(s \ {Elegir(s)}))  BY <1>3, <2>1
  <2>3. Cardinality(s \ {Elegir(s)}) \notin N  BY <1>2, <2>2
  <2> QED BY <2>3
<1> QED BY <1>4

\* The sum of a function over a set.
Sumar(f, S) == MapThenSumSet(LAMBDA x : f[x], S)

\* What MapThenSumSet denotes is that recursive function at the whole set.
LEMMA SumarEs ==
    ASSUME NEW S, IsFiniteSet(S), NEW f
    PROVE  \E g : SumaDe(g, f, S) /\ Sumar(f, S) = g[S]
<1> DEFINE E(g) == g = [s \in SUBSET S |->
                          IF s = {} THEN 0
                          ELSE f[CHOOSE x \in s : TRUE] + g[s \ {CHOOSE x \in s : TRUE}]]
<1>1. \A g : SumaDe(g, f, S) <=> E(g)  BY DEF SumaDe, Elegir
<1>2. \E g : E(g)
  <2>1. PICK g : SumaDe(g, f, S)  BY HaySuma
  <2>2. E(g)  BY <1>1, <2>1
  <2> QED BY <2>2
<1>3. E(CHOOSE g : E(g))  BY <1>2
<1>4. Sumar(f, S) = (CHOOSE g : E(g))[S]
  BY DEF Sumar, MapThenSumSet, MapThenFoldSet
<1> HIDE DEF E
<1> QED BY <1>1, <1>3, <1>4

\* A sum is an integer, and it grows with its terms; where one of them grows by n
\* it grows by n at least.
LEMMA SumaSube ==
    ASSUME NEW S, IsFiniteSet(S), NEW f \in [S -> Int], NEW h \in [S -> Int],
           NEW x, NEW n \in Int,
           \A y \in S : f[y] + (IF y = x THEN n ELSE 0) <= h[y]
    PROVE  /\ Sumar(f, S) \in Int /\ Sumar(h, S) \in Int
           /\ Sumar(f, S) + (IF x \in S THEN n ELSE 0) <= Sumar(h, S)
<1>1. PICK g : SumaDe(g, f, S) /\ Sumar(f, S) = g[S]  BY SumarEs
<1>2. PICK k : SumaDe(k, h, S) /\ Sumar(h, S) = k[S]  BY SumarEs
<1> DEFINE Bien(s) == /\ g[s] \in Int /\ k[s] \in Int
                      /\ g[s] + (IF x \in s THEN n ELSE 0) <= k[s]
           T == {s \in SUBSET S : ~Bien(s)}
<1>3. T = {}
  <2> SUFFICES ASSUME T # {} PROVE FALSE  OBVIOUS
  <2>1. PICK s \in T : s = {} \/ (s # {} /\ s \ {Elegir(s)} \notin T)
    <3>1. T \in SUBSET (SUBSET S)  OBVIOUS
    <3> HIDE DEF T
    <3> QED BY <3>1, MenorConjunto, Zenon
  <2>2. CASE s = {}
    <3>1. g[{}] = 0 /\ k[{}] = 0  BY <1>1, <1>2 DEF SumaDe
    <3> QED BY <2>1, <2>2, <3>1
  <2>3. CASE s # {} /\ s \ {Elegir(s)} \notin T
    <3> DEFINE y == Elegir(s)  r == s \ {y}
    <3>1. y \in s /\ y \in S  BY <2>1, <2>3 DEF Elegir
    <3>2. Bien(r)  BY <2>1, <2>3
    <3>3. g[s] = f[y] + g[r] /\ k[s] = h[y] + k[r]
      BY <1>1, <1>2, <2>1, <2>3 DEF SumaDe
    <3>4. f[y] \in Int /\ h[y] \in Int /\ f[y] + (IF y = x THEN n ELSE 0) <= h[y]
      BY <3>1
    <3>5. (x \in s) <=> (x \in r \/ x = y)  BY <3>1
    <3>6. x = y => x \notin r  OBVIOUS
    <3>7. ~Bien(s)  BY <2>1
    <3> HIDE DEF y, r
    <3> QED BY <3>2, <3>3, <3>4, <3>5, <3>6, <3>7
  <2> QED BY <2>1, <2>2, <2>3
<1>4. Bien(S)  BY <1>3
<1> QED BY <1>1, <1>2, <1>4

\* A sum of naturals is not less than any of them, nor than 0; of zeros it is 0.
LEMMA SumaNat ==
    ASSUME NEW S, IsFiniteSet(S), NEW f \in [S -> Nat]
    PROVE  /\ Sumar(f, S) \in Nat
           /\ (\A x \in S : f[x] = 0) => Sumar(f, S) = 0
<1>1. PICK g : SumaDe(g, f, S) /\ Sumar(f, S) = g[S]  BY SumarEs
<1> DEFINE Bien(s) == g[s] \in Nat /\ ((\A x \in S : f[x] = 0) => g[s] = 0)
           T == {s \in SUBSET S : ~Bien(s)}
<1>2. T = {}
  <2> SUFFICES ASSUME T # {} PROVE FALSE  OBVIOUS
  <2>1. PICK s \in T : s = {} \/ (s # {} /\ s \ {Elegir(s)} \notin T)
    <3>1. T \in SUBSET (SUBSET S)  OBVIOUS
    <3> HIDE DEF T
    <3> QED BY <3>1, MenorConjunto, Zenon
  <2>2. CASE s = {}
    <3>1. g[{}] = 0  BY <1>1 DEF SumaDe
    <3> QED BY <2>1, <2>2, <3>1
  <2>3. CASE s # {} /\ s \ {Elegir(s)} \notin T
    <3>1. Elegir(s) \in S  BY <2>1, <2>3 DEF Elegir
    <3>2. g[s] = f[Elegir(s)] + g[s \ {Elegir(s)}]
      BY <1>1, <2>1, <2>3 DEF SumaDe
    <3>3. Bien(s \ {Elegir(s)}) /\ ~Bien(s)  BY <2>1, <2>3
    <3>4. f[Elegir(s)] \in Nat  BY <3>1
    <3> QED BY <3>1, <3>2, <3>3, <3>4
  <2> QED BY <2>1, <2>2, <2>3
<1> QED BY <1>1, <1>2

LEMMA SumaTermino ==
    ASSUME NEW S, IsFiniteSet(S), NEW f \in [S -> Nat], NEW x \in S
    PROVE  f[x] <= Sumar(f, S)
<1> DEFINE z == [f EXCEPT ![x] = 0]
<1>1. z \in [S -> Nat] /\ \A y \in S : z[y] = IF y = x THEN 0 ELSE f[y]  OBVIOUS
<1>2. f[x] \in Int /\ f \in [S -> Int] /\ \A y \in S : f[y] \in Nat  OBVIOUS
<1> HIDE DEF z
<1>3. z \in [S -> Int]  BY <1>1
<1>4. \A y \in S : z[y] + (IF y = x THEN f[x] ELSE 0) <= f[y]  BY <1>1, <1>2
<1>5. /\ Sumar(z, S) \in Int /\ Sumar(f, S) \in Int
      /\ Sumar(z, S) + (IF x \in S THEN f[x] ELSE 0) <= Sumar(f, S)
  BY <1>2, <1>3, <1>4, SumaSube
<1>6. Sumar(z, S) \in Nat  BY <1>1, SumaNat
<1> QED BY <1>2, <1>5, <1>6

\* The sizes of disjoint sets add up to the size of their union.
LEMMA SumaUnion ==
    ASSUME NEW S, IsFiniteSet(S), NEW U, IsFiniteSet(U),
           NEW M \in [S -> SUBSET U], NEW f, NEW g, SumaDe(g, f, S),
           \A x \in S : f[x] = Cardinality(M[x]),
           \A x, y \in S : x # y => M[x] \cap M[y] = {}
    PROVE  g[S] = Cardinality(UNION {M[x] : x \in S})
<1> DEFINE Junta(s) == UNION {M[x] : x \in s}
           Bien(s) == g[s] = Cardinality(Junta(s))
           T == {s \in SUBSET S : ~Bien(s)}
<1>1. T = {}
  <2> SUFFICES ASSUME T # {} PROVE FALSE  OBVIOUS
  <2>1. PICK s \in T : s = {} \/ (s # {} /\ s \ {Elegir(s)} \notin T)
    <3>1. T \in SUBSET (SUBSET S)  OBVIOUS
    <3> HIDE DEF T
    <3> QED BY <3>1, MenorConjunto, Zenon
  <2>2. CASE s = {}
    <3>1. g[{}] = 0  BY DEF SumaDe
    <3>2. Junta({}) = {}  OBVIOUS
    <3> QED BY <2>1, <2>2, <3>1, <3>2, FS_EmptySet
  <2>3. CASE s # {} /\ s \ {Elegir(s)} \notin T
    <3>1. PICK y : y = Elegir(s)  OBVIOUS
    <3>2. PICK r : r = s \ {y}  OBVIOUS
    <3>3. y \in s /\ y \in S /\ r \in SUBSET S  BY <2>1, <2>3, <3>1, <3>2 DEF Elegir
    <3>4. g[r] = Cardinality(Junta(r))  BY <2>3, <3>1, <3>2, <3>3
    <3>5. g[s] = Cardinality(M[y]) + g[r]
      BY <2>1, <2>3, <3>1, <3>2, <3>3 DEF SumaDe
    <3>6. Junta(s) = M[y] \cup Junta(r) /\ M[y] \cap Junta(r) = {}
      BY <3>2, <3>3
    <3>7. IsFiniteSet(M[y]) /\ IsFiniteSet(Junta(r))
      <4>1. M[y] \subseteq U /\ Junta(r) \subseteq U  BY <3>3
      <4> QED BY <4>1, FS_Subset
    <3>8. ~Bien(s)  BY <2>1
    <3> HIDE DEF Junta
    <3>9. Cardinality(Junta(s)) = Cardinality(M[y]) + Cardinality(Junta(r))
      <4>1. Cardinality(M[y] \cup Junta(r)) = Cardinality(M[y]) + Cardinality(Junta(r))
                                               - Cardinality(M[y] \cap Junta(r))
        BY <3>7, FS_Union
      <4>2. Cardinality(M[y] \cap Junta(r)) = 0  BY <3>6, FS_EmptySet
      <4>3. Cardinality(M[y]) \in Nat /\ Cardinality(Junta(r)) \in Nat
        BY <3>7, FS_CardinalityType
      <4> QED BY <3>6, <4>1, <4>2, <4>3
    <3> QED BY <3>4, <3>5, <3>8, <3>9
  <2> QED BY <2>1, <2>2, <2>3
<1> QED BY <1>1

-----------------------------------------------------------------------------
(* The answers add up *)

\* Every unit that left was counted by a request, or a call whose answer was lost
\* sent it; an answer says what its request counted.
Cuenta ==
    /\ (\A r \in Pedido : pc[r] # "caido") =>
           \A u \in Unidades : loc[u] = "socio" =>
               \E r \in Pedido : u \in mov[r]["enviar"]
    /\ \A r \in Pedido : Cerrado(r) => resp[r].amountSent = Cantidad(r, "enviar")

LEMMA NextCuenta == TypeOK /\ TypeOK' /\ IExceso /\ Cuenta /\ [Next]_vars => Cuenta'
<1> SUFFICES ASSUME TypeOK, TypeOK', IExceso, Cuenta, [Next]_vars PROVE Cuenta'
  OBVIOUS
<1> DEFINE Contadas == \A u \in Unidades : loc[u] = "socio" =>
                           \E r \in Pedido : u \in mov[r]["enviar"]
<1>1. ASSUME \A r \in Pedido : pc'[r] # "caido"
      PROVE  Contadas'
  <2>1. \A r \in Pedido : pc[r] # "caido"
    <3>1. ASSUME NEW r \in Pedido, pc[r] = "caido" PROVE pc'[r] = "caido"
      BY <3>1
      DEF Next, Atender, Pedir, Consultar, Listar, Empieza, Retorno, Mover, Rechazar,
          Responder, Excepcion, Reponer, vars, TypeOK, Etapas
    <3> QED BY <1>1, <3>1
  <2>2. Contadas  BY <2>1 DEF Cuenta
  <2>3. ASSUME NEW q \in Pedido, NEW v \in Unidades, Mover(q, v) PROVE Contadas'
    <3>1. \A r \in Pedido : mov[r]["enviar"] \subseteq mov'[r]["enviar"]
      BY <2>3 DEF Mover, Llamada, TypeOK, Etapas
    <3>2. pc[q] = "enviar" => v \in mov'[q]["enviar"]
      BY <2>3 DEF Mover, Llamada, TypeOK, Etapas
    <3>3. \A u \in Unidades : loc'[u] = "socio" =>
              loc[u] = "socio" \/ (u = v /\ pc[q] = "enviar")
      BY <2>3 DEF Mover, Llamada, MoveStock, MoveStockBodega, TypeOK, LocOK
    <3> QED BY <2>2, <3>1, <3>2, <3>3
  <2>4. ASSUME NEW u \in Unidades, Reponer(u) PROVE Contadas'
    <3>1. \A v \in Unidades : loc'[v] = "socio" => loc[v] = "socio"
      BY <2>4 DEF Reponer, TypeOK, LocOK
    <3> QED BY <2>2, <2>4, <3>1 DEF Reponer
  <2>5. ASSUME NEW q \in Pedido, Excepcion(q) PROVE FALSE
    BY <1>1, <2>5 DEF Excepcion, TypeOK
  <2>6. CASE loc' = loc /\ mov' = mov  BY <2>2, <2>6
  <2> QED
    BY <2>3, <2>4, <2>5, <2>6
    DEF Next, Atender, Pedir, Consultar, Listar, Rechazar, Responder, vars
<1>2. ASSUME NEW r \in Pedido, Cerrado(r)'
      PROVE  resp'[r].amountSent = Cardinality(mov'[r]["enviar"])
  <2>1. CASE Consultar(r)
    <3>1. mov' = mov /\ mov[r]["enviar"] = {}
      BY <2>1 DEF Consultar, IExceso, LimiteDeEnvio, SinEnviarAun
    <3>2. pc'[r] = "fin"  BY <1>2, <2>1 DEF Cerrado, Consultar, TypeOK
    <3>3. resp'[r] = SinRespuesta
      BY <2>1, <3>2 DEF Consultar, TypeOK
    <3> QED BY <3>1, <3>3, FS_EmptySet DEF SinRespuesta
  <2>2. CASE Responder(r)
    BY <2>2 DEF Responder, Respuesta, Cantidad, TypeOK
  <2>3. ASSUME Cerrado(r), mov'[r] = mov[r], resp'[r] = resp[r]
        PROVE  resp'[r].amountSent = Cardinality(mov'[r]["enviar"])
    BY <2>3 DEF Cuenta, Cantidad
  <2>4. ASSUME ~Consultar(r), ~Responder(r)
        PROVE  Cerrado(r) /\ mov'[r] = mov[r] /\ resp'[r] = resp[r]
    BY <1>2, <2>4
    DEF Cerrado, Next, Atender, Pedir, Consultar, Listar, Empieza, Retorno, Mover,
        Rechazar, Responder, Excepcion, Reponer, vars, TypeOK, Etapas
  <2> QED BY <2>1, <2>2, <2>3, <2>4
<1> QED BY <1>1, <1>2 DEF Cuenta, Cantidad

\* Once every request is answered, the answers add up to the units that left,
\* whatever the requests did meanwhile.
THEOREM CuentaSiempre == Spec => []CuentaClara
<1>1. Init => Cuenta
  BY FS_EmptySet DEF Init, Cuenta, Cerrado, SinRespuesta, Cantidad, Etapas
<1>2. Init => IExceso
  BY FS_EmptySet DEF Init, IExceso, LimiteDeEnvio, ExcesoSoloSinSacar, Cantidad,
     Etapas, SinEnviarAun
<1>3. TypeOK /\ LibroDeEnvios /\ Cuenta => CuentaClara
  <2> SUFFICES ASSUME TypeOK, LibroDeEnvios, Cuenta, \A r \in Pedido : Cerrado(r)
               PROVE  Cardinality({u \in Unidades : loc[u] = "socio"})
                        = MapThenSumSet(LAMBDA r : resp[r].amountSent, Pedido)
    BY DEF CuentaClara
  <2> DEFINE f == [r \in Pedido |-> resp[r].amountSent]
             M == [r \in Pedido |-> mov[r]["enviar"]]
             E(g) == g = [s \in SUBSET Pedido |->
                            IF s = {} THEN 0
                            ELSE LET x == CHOOSE x \in s : TRUE
                                 IN  resp[x].amountSent + g[s \ {x}]]
  <2>1. PICK g0 : SumaDe(g0, f, Pedido)
    <3> HIDE DEF f
    <3> QED BY PedidosAssumption, HaySuma
  <2>2. \A g : SumaDe(g, f, Pedido) <=> E(g)
    <3>1. \A s \in SUBSET Pedido : s # {} => f[Elegir(s)] = resp[Elegir(s)].amountSent
      BY DEF Elegir
    <3> QED BY <3>1 DEF SumaDe, Elegir
  <2> HIDE DEF E
  <2>3. E(CHOOSE g : E(g))  BY <2>1, <2>2, Zenon
  <2> DEFINE k == CHOOSE g : E(g)
  <2>4. MapThenSumSet(LAMBDA r : resp[r].amountSent, Pedido) = k[Pedido]
    BY DEF MapThenSumSet, MapThenFoldSet, E
  <2>5. SumaDe(k, f, Pedido)  BY <2>2, <2>3
  <2>6. M \in [Pedido -> SUBSET Unidades]  BY DEF TypeOK, Etapas
  <2>7. /\ \A r \in Pedido : f[r] = Cardinality(M[r])
        /\ \A r, q \in Pedido : r # q => M[r] \cap M[q] = {}
    BY DEF Cuenta, Cantidad, LibroDeEnvios
  <2>8. UNION {M[r] : r \in Pedido} = {u \in Unidades : loc[u] = "socio"}
    <3>1. \A r \in Pedido : pc[r] # "caido"  BY DEF Cerrado
    <3>2. \A u \in Unidades : loc[u] = "socio" => \E r \in Pedido : u \in M[r]
      BY <3>1 DEF Cuenta
    <3>3. \A r \in Pedido : M[r] \subseteq {u \in Unidades : loc[u] = "socio"}
      BY <2>6 DEF LibroDeEnvios
    <3> QED BY <3>2, <3>3
  <2> HIDE DEF f, M, k
  <2>9. k[Pedido] = Cardinality(UNION {M[r] : r \in Pedido})
    BY <2>5, <2>6, <2>7, PedidosAssumption, BodegaAssumption, SumaUnion
  <2> QED BY <2>4, <2>8, <2>9
<1> QED BY <1>1, <1>2, <1>3, TypeCorrect, LibroSiempre, NextExceso, NextCuenta, PTL DEF Spec

-----------------------------------------------------------------------------
(* A request that no other one overlaps with *)

Solo(r) == \A q \in Pedido \ {r} : pc[q] = "libre"

\* While a request that asks for something is alone, the dispatch depot holds what
\* it took out and nothing else, and where no call was refused its loops list as
\* many units as it asked for.
EnSolitario(r) ==
    /\ pc[r] \in {"libre", "consultar", "aceptado"} =>
           mov[r]["sacar"] = {} /\ \A u \in Unidades : loc[u] # "despacho"
    /\ pc[r] = "aceptado" => HayStock(r)
    /\ pc[r] = "sacar" =>
           /\ \A u \in Unidades : loc[u] = "despacho" <=> u \in mov[r]["sacar"]
           /\ \A u \in mov[r]["sacar"] \cup pend[r] : SkuDe[u] = sku[r]
           /\ Cardinality(mov[r]["sacar"] \cup pend[r]) = cant[r]
    /\ pc[r] = "enviar" /\ ~HuboError(r) =>
           Cardinality(mov[r]["enviar"] \cup pend[r]) = cant[r]
    /\ pc[r] = "devolver" => HuboError(r)
    /\ pc[r] = "fin" /\ resp[r].success => resp[r].amountSent = cant[r]

Solitarios == \A r \in Pedido : Solo(r) /\ cant[r] > 0 => EnSolitario(r)

\* A listing of a depot that has enough names what the limit says.
LEMMA ListadoExacto ==
    ASSUME NEW d, NEW s, NEW n \in Nat, n > 0, Total(d, s) >= n, NEW L \in Listado(d, s, n)
    PROVE  Cardinality(L) = n
<1>1. Stock(d, s) \subseteq Unidades  BY DEF Stock
<1>2. Cardinality(Stock(d, s)) \in Nat
  BY <1>1, BodegaAssumption, FS_Subset, FS_CardinalityType
<1> QED BY <1>2 DEF Listado, Total

LEMMA NextSolitarios ==
    TypeOK /\ TypeOK' /\ IExceso /\ Solitarios /\ [Next]_vars => Solitarios'
<1> SUFFICES ASSUME TypeOK, TypeOK', IExceso, Solitarios, [Next]_vars,
                    NEW r \in Pedido, Solo(r)', cant'[r] > 0
             PROVE  EnSolitario(r)'
  BY DEF Solitarios
<1>0. /\ pc \in [Pedido -> {"libre", "consultar", "aceptado", "fin", "caido"} \cup Etapas]
      /\ pend \in [Pedido -> SUBSET Unidades]
      /\ mov \in [Pedido -> [Etapas -> SUBSET Unidades]]
      /\ error \in [Pedido -> [Etapas -> BOOLEAN]]
      /\ resp \in [Pedido -> [success: BOOLEAN, amountSent: Nat]]
      /\ cant[r] \in Int /\ loc \in [Unidades -> Lugares]
  BY DEF TypeOK, LocOK
<1>1. cant' = cant /\ sku' = sku
  BY DEF Next, Atender, Pedir, Consultar, Listar, Mover, Rechazar, Responder,
         Excepcion, Reponer, vars
<1>2. ASSUME NEW q \in Pedido \ {r}, Pedir(q) \/ Atender(q) \/ Excepcion(q) PROVE FALSE
  <2>1. pc'[q] = "libre"  BY DEF Solo
  <2> QED
    BY <1>0, <1>2, <2>1
    DEF Pedir, Atender, Consultar, Listar, Empieza, Mover, Rechazar, Responder,
        Excepcion, Retorno, Llamada, Etapas
<1>3. Solo(r)
  <2> SUFFICES ASSUME NEW q \in Pedido \ {r} PROVE pc[q] = "libre"  BY DEF Solo
  <2>1. pc'[q] = "libre"  BY DEF Solo
  <2>2. pc'[q] = pc[q]
    BY <1>0, <1>2
    DEF Next, Pedir, Atender, Consultar, Listar, Mover, Rechazar, Responder,
        Excepcion, Reponer, vars
  <2> QED BY <2>1, <2>2
<1>4. EnSolitario(r)  BY <1>1, <1>3 DEF Solitarios
<1> USE DEF EnSolitario
<1>5. CASE Pedir(r)
  <2>1. pc'[r] = "consultar"  BY <1>0, <1>5 DEF Pedir
  <2> QED BY <1>4, <1>5, <2>1 DEF Pedir
<1>6. CASE Consultar(r)
  <2>1. /\ \/ HayStock(r) /\ pc'[r] = "aceptado"
           \/ pc'[r] = "fin" /\ ~resp'[r].success
        /\ pc[r] = "consultar" /\ loc' = loc /\ mov' = mov
    BY <1>0, <1>6 DEF Consultar, SinRespuesta
  <2>2. HayStock(r)' <=> HayStock(r)  BY <1>1, <2>1 DEF HayStock, Stock, Total
  <2> QED BY <1>4, <2>1, <2>2
<1>7. CASE Listar(r, "sacar")
  <2>1. /\ pc[r] = "aceptado" /\ pc'[r] = "sacar" /\ mov' = mov /\ loc' = loc
        /\ pend'[r] \in Listado("principal", sku[r], cant[r])
    BY <1>0, <1>7 DEF Listar, Empieza, Origen, Limite
  <2>2. Cardinality(pend'[r]) = cant[r]
    <3>1. cant[r] \in Nat /\ cant[r] > 0  BY <1>0, <1>1
    <3> QED BY <1>4, <2>1, <3>1, ListadoExacto DEF HayStock
  <2>3. \A u \in pend'[r] : SkuDe[u] = sku[r]  BY <2>1 DEF Listado, Stock
  <2>4. mov[r]["sacar"] = {} /\ \A u \in Unidades : loc[u] # "despacho"  BY <1>4, <2>1
  <2>5. mov'[r]["sacar"] \cup pend'[r] = pend'[r]  BY <2>1, <2>4
  <2> QED BY <1>1, <2>1, <2>2, <2>3, <2>4, <2>5
<1>8. CASE Listar(r, "enviar")
  <2>1. /\ pc[r] = "sacar" /\ Retorno(r) /\ pc'[r] = "enviar" /\ mov' = mov
        /\ error' = error
        /\ pend'[r] \in Listado("despacho", sku[r], Cantidad(r, "sacar"))
    BY <1>0, <1>8 DEF Listar, Empieza, Origen, Limite
  <2>2. ASSUME ~HuboError(r) PROVE Cardinality(pend'[r]) = cant[r]
    <3>1. pend[r] = {}  BY <2>1, <2>2 DEF Retorno, HuboError
    <3>2. Cardinality(mov[r]["sacar"]) = cant[r]
      <4>1. mov[r]["sacar"] \cup pend[r] = mov[r]["sacar"]  BY <3>1
      <4> QED BY <1>4, <2>1, <4>1
    <3>3. Stock("despacho", sku[r]) = mov[r]["sacar"]
      <4>1. mov[r]["sacar"] \subseteq Unidades  BY <1>0 DEF Etapas
      <4> QED BY <1>4, <2>1, <4>1 DEF Stock
    <3>4. cant[r] \in Nat /\ cant[r] > 0  BY <1>0, <1>1
    <3>5. Total("despacho", sku[r]) >= cant[r]  BY <3>2, <3>3, <3>4 DEF Total
    <3> QED BY <2>1, <3>2, <3>4, <3>5, ListadoExacto DEF Cantidad
  <2>3. mov[r]["enviar"] = {}  BY <2>1 DEF IExceso, LimiteDeEnvio, SinEnviarAun
  <2>4. mov'[r]["enviar"] \cup pend'[r] = pend'[r]  BY <2>1, <2>3
  <2>5. HuboError(r)' <=> HuboError(r)  BY <2>1 DEF HuboError
  <2> QED BY <1>1, <2>1, <2>2, <2>4, <2>5
<1>9. CASE Listar(r, "devolver")
  <2>1. pc'[r] = "devolver" /\ error' = error /\ HuboError(r)
    BY <1>0, <1>9 DEF Listar, Empieza
  <2> QED BY <2>1 DEF HuboError
<1>10. ASSUME NEW u \in Unidades, Mover(r, u) PROVE EnSolitario(r)'
  <2>1. /\ pc' = pc /\ error' = error /\ u \in pend[r] /\ pend'[r] = pend[r] \ {u}
        /\ pc[r] \in Etapas
        /\ mov' = [mov EXCEPT ![r][pc[r]] = @ \cup {u}]
    BY <1>0, <1>10 DEF Mover, Llamada, Etapas
  <2>2. CASE pc[r] = "sacar"
    <3>1. mov'[r]["sacar"] = mov[r]["sacar"] \cup {u}  BY <1>0, <2>1, <2>2 DEF Etapas
    <3>2. loc' = [loc EXCEPT ![u] = "despacho"]
      BY <1>10, <2>2 DEF Mover, Llamada, MoveStock
    <3>3. mov'[r]["sacar"] \cup pend'[r] = mov[r]["sacar"] \cup pend[r]
      BY <2>1, <3>1
    <3>4. \A v \in Unidades : loc'[v] = "despacho" <=> v \in mov'[r]["sacar"]
      BY <1>0, <1>4, <2>2, <3>1, <3>2
    <3> QED BY <1>1, <1>4, <2>1, <2>2, <3>3, <3>4
  <2>3. CASE pc[r] = "enviar"
    <3>1. mov'[r]["enviar"] = mov[r]["enviar"] \cup {u}  BY <1>0, <2>1, <2>3 DEF Etapas
    <3>2. mov'[r]["enviar"] \cup pend'[r] = mov[r]["enviar"] \cup pend[r]
      BY <2>1, <3>1
    <3>3. HuboError(r)' <=> HuboError(r)  BY <2>1 DEF HuboError
    <3> QED BY <1>1, <1>4, <2>1, <2>3, <3>2, <3>3
  <2>4. CASE pc[r] = "devolver"  BY <1>4, <2>1, <2>4 DEF HuboError
  <2> QED BY <2>1, <2>2, <2>3, <2>4 DEF Etapas
<1>11. CASE Rechazar(r)
  <2>1. /\ pc' = pc /\ mov' = mov /\ pend' = pend /\ loc' = loc
        /\ pc[r] \in Etapas /\ error' = [error EXCEPT ![r][pc[r]] = TRUE]
    BY <1>11 DEF Rechazar
  <2>2. HuboError(r) => HuboError(r)'  BY <1>0, <2>1 DEF HuboError, Etapas
  <2> QED BY <1>1, <1>4, <2>1, <2>2 DEF Etapas
<1>12. CASE Responder(r)
  <2>1. /\ pc'[r] = "fin" /\ Retorno(r)
        /\ pc[r] = "devolver" \/ (pc[r] = "enviar" /\ ~HuboError(r))
        /\ resp'[r] = Respuesta(r)
    BY <1>0, <1>12 DEF Responder
  <2>2. ASSUME resp'[r].success PROVE resp'[r].amountSent = cant[r]
    <3>0. /\ resp'[r].success = ~HuboError(r)
          /\ resp'[r].amountSent = Cardinality(mov[r]["enviar"])
      <4>1. PICK b, n : b = ~HuboError(r) /\ n = Cardinality(mov[r]["enviar"])
        OBVIOUS
      <4>2. resp'[r] = [success |-> b, amountSent |-> n]
        BY <2>1, <4>1 DEF Respuesta, Cantidad
      <4> QED BY <4>1, <4>2
    <3>1. ~HuboError(r) /\ pc[r] = "enviar"  BY <1>4, <2>1, <2>2, <3>0
    <3>2. pend[r] = {}  BY <2>1, <3>1 DEF Retorno, HuboError
    <3>3. mov[r]["enviar"] \cup pend[r] = mov[r]["enviar"]  BY <3>2
    <3> QED BY <1>4, <3>0, <3>1, <3>3
  <2> QED BY <1>1, <2>1, <2>2
<1>13. CASE Excepcion(r)
  <2>1. pc'[r] = "caido"  BY <1>0, <1>13 DEF Excepcion
  <2> QED BY <2>1
<1>14. ASSUME NEW u \in Unidades, Reponer(u) PROVE EnSolitario(r)'
  <2>1. /\ loc[u] = "ajeno" /\ loc' = [loc EXCEPT ![u] = "principal"]
        /\ UNCHANGED <<pc, pend, mov, error, resp>>
    BY <1>14 DEF Reponer
  <2>2. \A v \in Unidades : loc'[v] = "despacho" <=> loc[v] = "despacho"
    BY <1>0, <2>1
  <2>3. HayStock(r) => HayStock(r)'
    <3>1. Stock("principal", sku[r]) \subseteq Stock("principal", sku[r])'
      BY <1>0, <1>1, <2>1 DEF Stock
    <3>2. IsFiniteSet(Stock("principal", sku[r])')
      BY BodegaAssumption, FS_Subset DEF Stock
    <3>3. /\ Cardinality(Stock("principal", sku[r]))
               <= Cardinality(Stock("principal", sku[r])')
          /\ Cardinality(Stock("principal", sku[r])) \in Nat
          /\ Cardinality(Stock("principal", sku[r])') \in Nat
      BY <3>1, <3>2, FS_Subset, FS_CardinalityType
    <3>4. Total("principal", sku[r])' = Cardinality(Stock("principal", sku[r])')
      BY DEF Total
    <3> QED BY <1>0, <1>1, <3>1, <3>3, <3>4 DEF HayStock, Total
  <2>4. HuboError(r)' <=> HuboError(r)  BY <2>1 DEF HuboError
  <2> QED BY <1>1, <1>4, <2>1, <2>2, <2>3, <2>4
<1>15. CASE UNCHANGED vars
  <2>1. HayStock(r)' <=> HayStock(r)  BY <1>15 DEF vars, HayStock, Stock, Total
  <2>2. HuboError(r)' <=> HuboError(r)  BY <1>15 DEF vars, HuboError
  <2> QED BY <1>4, <1>15, <2>1, <2>2 DEF vars
<1> QED
  BY <1>2, <1>5, <1>6, <1>7, <1>8, <1>9, <1>10, <1>11, <1>12, <1>13, <1>14, <1>15
  DEF Next, Atender, Etapas

\* A request for some units that no other one overlaps with and that is answered
\* with success sent what was asked.
THEOREM EnvioTodoSiempre == Spec => []EnvioTodoSiSolo
<1>1. Init => Solitarios
  BY DEF Init, Solitarios, EnSolitario, Etapas
<1>2. Init => IExceso
  BY FS_EmptySet DEF Init, IExceso, LimiteDeEnvio, ExcesoSoloSinSacar, Cantidad,
     Etapas, SinEnviarAun
<1>3. Solitarios => EnvioTodoSiSolo
  BY DEF Solitarios, Solo, EnSolitario, EnvioTodoSiSolo
<1> QED BY <1>1, <1>2, <1>3, TypeCorrect, NextExceso, NextSolitarios, PTL DEF Spec

-----------------------------------------------------------------------------
(* Nothing is left behind *)

\* Nothing happened so far that may strand a unit: no call raised, every request
\* asks for something, at most one was refused, and not while it put units back.
Tranquilo ==
    /\ \A r \in Pedido : pc[r] # "caido" /\ cant[r] > 0 /\ ~error[r]["devolver"]
    /\ \A r, q \in Pedido : HuboError(r) /\ HuboError(q) => r = q

\* How many units of its product a request is still going to take away from the
\* dispatch depot: the ones it took out, or those in the listing it works from.
Cupo(r) ==
    CASE pc[r] = "sacar" -> Cantidad(r, "sacar")
      [] pc[r] \in {"enviar", "devolver"} /\ mov[r]["sacar"] # {} -> Cardinality(pend[r])
      [] OTHER -> 0

Cupos(s) == [r \in Pedido |-> IF sku[r] = s THEN Cupo(r) ELSE 0]

\* The loops of a request: what it took out, has sent and has listed.
Lazos ==
    \A r \in Pedido :
        /\ pc[r] \in {"libre", "consultar", "aceptado"} => mov[r]["sacar"] = {}
        /\ pc[r] \in Etapas => \A u \in pend[r] : SkuDe[u] = sku[r]
        /\ pc[r] = "sacar" /\ cant[r] > 0 =>
               /\ mov[r]["sacar"] \cap pend[r] = {}
               /\ Cardinality(mov[r]["sacar"] \cup pend[r]) <= cant[r]
        /\ pc[r] = "enviar" /\ cant[r] > 0 =>
               /\ mov[r]["enviar"] \cap pend[r] = {}
               /\ Cantidad(r, "sacar") <= cant[r]
        /\ pc[r] = "devolver" => HuboError(r)

\* Every unit in the dispatch depot is in the quota of some request.
Limpieza ==
    Tranquilo =>
        /\ \A r \in Pedido : pc[r] = "devolver" =>
               \A u \in pend[r] : loc[u] \in {"despacho", "socio"}
        /\ \A s \in Skus : Total("despacho", s) <= Sumar(Cupos(s), Pedido)

\* The loops of a request after a step that leaves them alone.
LEMMA NextLazos == TypeOK /\ TypeOK' /\ IExceso /\ Lazos /\ [Next]_vars => Lazos'
<1> SUFFICES ASSUME TypeOK, TypeOK', IExceso, Lazos, [Next]_vars, NEW r \in Pedido
             PROVE  /\ pc'[r] \in {"libre", "consultar", "aceptado"} => mov'[r]["sacar"] = {}
                    /\ pc'[r] \in Etapas => \A u \in pend'[r] : SkuDe[u] = sku'[r]
                    /\ pc'[r] = "sacar" /\ cant'[r] > 0 =>
                           /\ mov'[r]["sacar"] \cap pend'[r] = {}
                           /\ Cardinality(mov'[r]["sacar"] \cup pend'[r]) <= cant'[r]
                    /\ pc'[r] = "enviar" /\ cant'[r] > 0 =>
                           /\ mov'[r]["enviar"] \cap pend'[r] = {}
                           /\ Cardinality(mov'[r]["sacar"]) <= cant'[r]
                    /\ pc'[r] = "devolver" => HuboError(r)'
  BY DEF Lazos, Cantidad
<1> DEFINE Bien == /\ pc'[r] \in {"libre", "consultar", "aceptado"} => mov'[r]["sacar"] = {}
                   /\ pc'[r] \in Etapas => \A u \in pend'[r] : SkuDe[u] = sku'[r]
                   /\ pc'[r] = "sacar" /\ cant'[r] > 0 =>
                          /\ mov'[r]["sacar"] \cap pend'[r] = {}
                          /\ Cardinality(mov'[r]["sacar"] \cup pend'[r]) <= cant'[r]
                   /\ pc'[r] = "enviar" /\ cant'[r] > 0 =>
                          /\ mov'[r]["enviar"] \cap pend'[r] = {}
                          /\ Cardinality(mov'[r]["sacar"]) <= cant'[r]
                   /\ pc'[r] = "devolver" => HuboError(r)'
<1>0. /\ pc \in [Pedido -> {"libre", "consultar", "aceptado", "fin", "caido"} \cup Etapas]
      /\ pend \in [Pedido -> SUBSET Unidades]
      /\ mov \in [Pedido -> [Etapas -> SUBSET Unidades]]
      /\ error \in [Pedido -> [Etapas -> BOOLEAN]]
      /\ cant[r] \in Int
  BY DEF TypeOK
<1>1. cant' = cant /\ sku' = sku
  BY DEF Next, Atender, Pedir, Consultar, Listar, Mover, Rechazar, Responder,
         Excepcion, Reponer, vars
<1>2. ASSUME pc'[r] = pc[r], pend'[r] = pend[r], mov'[r] = mov[r],
             HuboError(r) => HuboError(r)'
      PROVE  Bien
  BY <1>1, <1>2 DEF Lazos, Cantidad
<1>3. ASSUME NEW q \in Pedido \ {r}, Pedir(q) \/ Atender(q) \/ Excepcion(q) PROVE Bien
  <2>1. pc'[r] = pc[r] /\ pend'[r] = pend[r] /\ mov'[r] = mov[r] /\ error'[r] = error[r]
    BY <1>0, <1>3
    DEF Pedir, Atender, Consultar, Listar, Mover, Rechazar, Responder, Excepcion
  <2> QED BY <1>2, <2>1 DEF HuboError
<1>4. CASE Pedir(r) \/ Consultar(r)
  <2>1. /\ pc[r] \in {"libre", "consultar", "aceptado"}
        /\ pc'[r] \in {"consultar", "aceptado", "fin"} /\ mov' = mov
    BY <1>0, <1>4 DEF Pedir, Consultar
  <2> QED BY <2>1 DEF Lazos, Etapas
<1>5. CASE Listar(r, "sacar")
  <2>1. /\ pc[r] = "aceptado" /\ pc'[r] = "sacar" /\ mov' = mov
        /\ pend'[r] \in Listado("principal", sku[r], cant[r])
    BY <1>0, <1>5 DEF Listar, Empieza, Origen, Limite
  <2>2. mov[r]["sacar"] = {}  BY <2>1 DEF Lazos
  <2>3. \A u \in pend'[r] : SkuDe[u] = sku[r]  BY <2>1 DEF Listado, Stock
  <2>4. cant[r] > 0 => Cardinality(pend'[r]) <= cant[r]
    <3>1. cant[r] > 0 => cant[r] \in Nat /\ cant[r] # 0  BY <1>0
    <3> QED BY <2>1, <3>1, ListadoCardinality
  <2>5. mov'[r]["sacar"] \cup pend'[r] = pend'[r]  BY <2>1, <2>2
  <2> QED BY <1>1, <2>1, <2>2, <2>3, <2>4, <2>5
<1>6. CASE Listar(r, "enviar")
  <2>1. /\ pc[r] = "sacar" /\ pc'[r] = "enviar" /\ mov' = mov
        /\ pend'[r] \in Listado("despacho", sku[r], Cantidad(r, "sacar"))
    BY <1>0, <1>6 DEF Listar, Empieza, Origen, Limite
  <2>2. \A u \in pend'[r] : SkuDe[u] = sku[r]  BY <2>1 DEF Listado, Stock
  <2>3. mov[r]["enviar"] = {}  BY <2>1 DEF IExceso, LimiteDeEnvio, SinEnviarAun
  <2>4. cant[r] > 0 => Cardinality(mov[r]["sacar"]) <= cant[r]
    <3>1. mov[r]["sacar"] \cup pend[r] \subseteq Unidades  BY <1>0 DEF Etapas
    <3>2. IsFiniteSet(mov[r]["sacar"] \cup pend[r])
      BY <3>1, BodegaAssumption, FS_Subset
    <3>3. /\ Cardinality(mov[r]["sacar"]) <= Cardinality(mov[r]["sacar"] \cup pend[r])
          /\ Cardinality(mov[r]["sacar"]) \in Nat
          /\ Cardinality(mov[r]["sacar"] \cup pend[r]) \in Nat
      BY <3>2, FS_Subset, FS_CardinalityType
    <3>4. cant[r] > 0 => Cardinality(mov[r]["sacar"] \cup pend[r]) <= cant[r]
      BY <2>1 DEF Lazos
    <3> QED BY <1>0, <3>3, <3>4
  <2> QED BY <1>1, <2>1, <2>2, <2>3, <2>4
<1>7. CASE Listar(r, "devolver")
  <2>1. /\ pc'[r] = "devolver" /\ error' = error /\ HuboError(r)
        /\ pend'[r] \in Listado("despacho", sku[r], Limite(r, "devolver"))
    BY <1>0, <1>7 DEF Listar, Empieza, Origen
  <2>2. \A u \in pend'[r] : SkuDe[u] = sku[r]  BY <2>1 DEF Listado, Stock
  <2> QED BY <1>1, <2>1, <2>2 DEF HuboError
<1>8. ASSUME NEW u \in Unidades, Mover(r, u) PROVE Bien
  <2>1. /\ pc' = pc /\ error' = error /\ u \in pend[r] /\ pend'[r] = pend[r] \ {u}
        /\ pc[r] \in Etapas
        /\ mov'[r] = [mov[r] EXCEPT ![pc[r]] = @ \cup {u}]
    BY <1>0, <1>8 DEF Mover, Llamada, Etapas
  <2>2. CASE pc[r] = "sacar"
    <3>1. mov'[r]["sacar"] = mov[r]["sacar"] \cup {u}  BY <1>0, <2>1, <2>2 DEF Etapas
    <3>2. mov'[r]["sacar"] \cup pend'[r] = mov[r]["sacar"] \cup pend[r]
      BY <2>1, <3>1
    <3> QED BY <1>1, <2>1, <2>2, <3>1, <3>2 DEF Lazos
  <2>3. CASE pc[r] = "enviar"
    <3>1. /\ mov'[r]["enviar"] = mov[r]["enviar"] \cup {u}
          /\ mov'[r]["sacar"] = mov[r]["sacar"]
      BY <1>0, <2>1, <2>3 DEF Etapas
    <3> QED BY <1>1, <2>1, <2>3, <3>1 DEF Lazos, Cantidad
  <2>4. CASE pc[r] = "devolver"  BY <1>1, <2>1, <2>4 DEF Lazos, HuboError
  <2> QED BY <2>1, <2>2, <2>3, <2>4 DEF Etapas
<1>9. CASE Rechazar(r)
  <2>1. /\ pc' = pc /\ mov' = mov /\ pend' = pend
        /\ pc[r] \in Etapas /\ error' = [error EXCEPT ![r][pc[r]] = TRUE]
    BY <1>9 DEF Rechazar
  <2>2. HuboError(r) => HuboError(r)'  BY <1>0, <2>1 DEF HuboError, Etapas
  <2> QED BY <1>2, <2>1, <2>2
<1>10. CASE Responder(r) \/ Excepcion(r)
  <2>1. pc'[r] \in {"fin", "caido"}  BY <1>0, <1>10 DEF Responder, Excepcion
  <2> QED BY <2>1 DEF Etapas
<1>11. ASSUME (\E u \in Unidades : Reponer(u)) \/ UNCHANGED vars PROVE Bien
  <2>1. pc' = pc /\ pend' = pend /\ mov' = mov /\ error' = error
    BY <1>11 DEF Reponer, vars
  <2> QED BY <1>2, <2>1 DEF HuboError
<1> QED
  BY <1>3, <1>4, <1>5, <1>6, <1>7, <1>8, <1>9, <1>10, <1>11
  DEF Next, Atender, Etapas

LEMMA CupoNat ==
    ASSUME TypeOK, NEW r \in Pedido
    PROVE  Cupo(r) \in Nat
<1>1. pend[r] \subseteq Unidades  BY DEF TypeOK
<1>2. Cardinality(pend[r]) \in Nat
  BY <1>1, BodegaAssumption, FS_Subset, FS_CardinalityType
<1>3. Cantidad(r, "sacar") \in Nat  BY CantidadNat DEF Etapas
<1> QED BY <1>2, <1>3 DEF Cupo

LEMMA TotalNat == \A d, s : Total(d, s) \in Nat
<1> SUFFICES ASSUME NEW d, NEW s PROVE Total(d, s) \in Nat  OBVIOUS
<1>1. Stock(d, s) \subseteq Unidades  BY DEF Stock
<1> QED BY <1>1, BodegaAssumption, FS_Subset, FS_CardinalityType DEF Total

\* What the quotas cover after a step of one request: it left no more in the
\* dispatch depot than it left itself to take away, or it listed all there is.
LEMMA PasoCupo ==
    ASSUME TypeOK, TypeOK', sku' = sku, NEW s \in Skus,
           Total("despacho", s) <= Sumar(Cupos(s), Pedido),
           NEW r \in Pedido, \A q \in Pedido \ {r} : Cupo(q)' = Cupo(q),
           \/ Total("despacho", s)' <= Total("despacho", s) /\ Cupo(r) <= Cupo(r)'
           \/ sku[r] # s /\ Total("despacho", s)' <= Total("despacho", s)
           \/ sku[r] = s /\ Total("despacho", s)' - Total("despacho", s)
                               <= Cupo(r)' - Cupo(r)
           \/ sku[r] = s /\ Total("despacho", s)' <= Cupo(r)'
    PROVE  Total("despacho", s)' <= Sumar(Cupos(s), Pedido)'
<1> DEFINE f == Cupos(s)  h == Cupos(s)'
<1>1. \A q \in Pedido : Cupo(q) \in Nat /\ Cupo(q)' \in Nat
  <2>1. \A q \in Pedido : Cupo(q) \in Nat  BY CupoNat
  <2>2. Cupo(r)' \in Nat
    <3>1. pend'[r] \subseteq Unidades /\ mov'[r]["sacar"] \subseteq Unidades
      BY DEF TypeOK, Etapas
    <3>2. Cardinality(pend'[r]) \in Nat /\ Cardinality(mov'[r]["sacar"]) \in Nat
      BY <3>1, BodegaAssumption, FS_Subset, FS_CardinalityType
    <3> QED BY <3>2 DEF Cupo, Cantidad
  <2> QED BY <2>1, <2>2
<1>2. /\ f = [q \in Pedido |-> IF sku[q] = s THEN Cupo(q) ELSE 0]
      /\ h = [q \in Pedido |-> IF sku[q] = s THEN Cupo(q)' ELSE 0]
  BY DEF Cupos
<1>3. f \in [Pedido -> Nat] /\ h \in [Pedido -> Nat]  BY <1>1, <1>2
<1>4. Total("despacho", s) \in Nat /\ Total("despacho", s)' \in Nat
  <2>1. Stock("despacho", s)' \subseteq Unidades  BY DEF Stock
  <2>2. Cardinality(Stock("despacho", s)') \in Nat
    BY <2>1, BodegaAssumption, FS_Subset, FS_CardinalityType
  <2> QED BY <2>2, TotalNat DEF Total
<1>5. Sumar(Cupos(s), Pedido)' = Sumar(h, Pedido)  BY Zenon
<1>6. PICK n : n = IF sku[r] = s THEN Cupo(r)' - Cupo(r) ELSE 0  OBVIOUS
<1>7. n \in Int  BY <1>1, <1>6
<1>8. ASSUME NEW y \in Pedido PROVE f[y] + (IF y = r THEN n ELSE 0) <= h[y]
  <2>1. /\ f[y] = IF sku[y] = s THEN Cupo(y) ELSE 0
        /\ h[y] = IF sku[y] = s THEN Cupo(y)' ELSE 0
    BY <1>2
  <2>2. Cupo(y) \in Nat /\ Cupo(y)' \in Nat  BY <1>1
  <2>3. CASE y = r  BY <1>6, <2>1, <2>2, <2>3
  <2>4. CASE y # r
    <3>1. Cupo(y)' = Cupo(y)  BY <2>4
    <3> QED BY <2>1, <2>2, <2>4, <3>1
  <2> QED BY <2>3, <2>4
<1>9. h[r] = IF sku[r] = s THEN Cupo(r)' ELSE 0  BY <1>2
<1>a. Total("despacho", s) <= Sumar(f, Pedido)  OBVIOUS
<1> HIDE DEF f, h
<1>10. /\ Sumar(f, Pedido) \in Int /\ Sumar(h, Pedido) \in Int
       /\ Sumar(f, Pedido) + (IF r \in Pedido THEN n ELSE 0) <= Sumar(h, Pedido)
  <2>1. f \in [Pedido -> Int] /\ h \in [Pedido -> Int]  BY <1>3
  <2> QED BY <1>7, <1>8, <2>1, PedidosAssumption, SumaSube
<1>11. h[r] <= Sumar(h, Pedido)  BY <1>3, PedidosAssumption, SumaTermino
<1>12. Cupo(r) \in Nat /\ Cupo(r)' \in Nat  BY <1>1
<1>13. Total("despacho", s)' <= Sumar(h, Pedido)
  <2>1. CASE Total("despacho", s)' <= Total("despacho", s) /\ Cupo(r) <= Cupo(r)'
    BY <1>a, <1>4, <1>6, <1>10, <1>12, <2>1
  <2>2. CASE sku[r] # s /\ Total("despacho", s)' <= Total("despacho", s)
    BY <1>a, <1>4, <1>6, <1>10, <1>12, <2>2
  <2>3. CASE sku[r] = s /\ Total("despacho", s)' - Total("despacho", s)
                              <= Cupo(r)' - Cupo(r)
    BY <1>a, <1>4, <1>6, <1>10, <1>12, <2>3
  <2>4. CASE sku[r] = s /\ Total("despacho", s)' <= Cupo(r)'
    BY <1>4, <1>9, <1>10, <1>11, <1>12, <2>4
  <2> QED BY <2>1, <2>2, <2>3, <2>4
<1> QED BY <1>5, <1>13

\* The dispatch depot after a unit was moved there, or away from there.
LEMMA DespachoSube ==
    ASSUME TypeOK, NEW u \in Unidades, loc' = [loc EXCEPT ![u] = "despacho"], NEW s
    PROVE  Total("despacho", s)' <= Total("despacho", s) + (IF SkuDe[u] = s THEN 1 ELSE 0)
<1>1. Stock("despacho", s) \subseteq Unidades /\ Stock("despacho", s)' \subseteq Unidades
  BY DEF Stock
<1>2. /\ IsFiniteSet(Stock("despacho", s)) /\ Cardinality(Stock("despacho", s)) \in Nat
      /\ IsFiniteSet(Stock("despacho", s)') /\ Cardinality(Stock("despacho", s)') \in Nat
  BY <1>1, BodegaAssumption, FS_Subset, FS_CardinalityType
<1>3. Total("despacho", s)' = Cardinality(Stock("despacho", s)')  BY DEF Total
<1>4. CASE SkuDe[u] = s
  <2>1. Stock("despacho", s)' \subseteq Stock("despacho", s) \cup {u}
    BY DEF Stock, TypeOK, LocOK
  <2>2. /\ IsFiniteSet(Stock("despacho", s) \cup {u})
        /\ Cardinality(Stock("despacho", s) \cup {u}) <= Cardinality(Stock("despacho", s)) + 1
        /\ Cardinality(Stock("despacho", s) \cup {u}) \in Nat
    BY <1>2, FS_AddElement, FS_CardinalityType
  <2>3. Cardinality(Stock("despacho", s)') <= Cardinality(Stock("despacho", s) \cup {u})
    BY <2>1, <2>2, FS_Subset
  <2> QED BY <1>2, <1>3, <1>4, <2>2, <2>3 DEF Total
<1>5. CASE SkuDe[u] # s
  <2>1. Stock("despacho", s)' = Stock("despacho", s)
    BY <1>5 DEF Stock, TypeOK, LocOK
  <2> QED BY <1>2, <1>3, <1>5, <2>1 DEF Total
<1> QED BY <1>4, <1>5

LEMMA DespachoBaja ==
    ASSUME TypeOK, NEW u \in Unidades, NEW d, d # "despacho", loc[u] = "despacho",
           loc' = [loc EXCEPT ![u] = d], NEW s
    PROVE  Total("despacho", s)' = Total("despacho", s) - (IF SkuDe[u] = s THEN 1 ELSE 0)
<1>1. Stock("despacho", s) \subseteq Unidades  BY DEF Stock
<1>2. IsFiniteSet(Stock("despacho", s)) /\ Cardinality(Stock("despacho", s)) \in Nat
  BY <1>1, BodegaAssumption, FS_Subset, FS_CardinalityType
<1>3. Total("despacho", s)' = Cardinality(Stock("despacho", s)')  BY DEF Total
<1>4. CASE SkuDe[u] = s
  <2>1. /\ Stock("despacho", s)' = Stock("despacho", s) \ {u}
        /\ u \in Stock("despacho", s)
    BY <1>4 DEF Stock, TypeOK, LocOK
  <2>2. Cardinality(Stock("despacho", s) \ {u}) = Cardinality(Stock("despacho", s)) - 1
    BY <1>2, <2>1, FS_RemoveElement
  <2> QED BY <1>2, <1>3, <1>4, <2>1, <2>2 DEF Total
<1>5. CASE SkuDe[u] # s
  <2>1. Stock("despacho", s)' = Stock("despacho", s)
    BY <1>5 DEF Stock, TypeOK, LocOK
  <2> QED BY <1>2, <1>3, <1>5, <2>1 DEF Total
<1> QED BY <1>4, <1>5

LEMMA DespachoIgual ==
    ASSUME \A u \in Unidades : loc'[u] = "despacho" <=> loc[u] = "despacho", NEW s
    PROVE  Total("despacho", s)' = Total("despacho", s)
<1>1. Stock("despacho", s)' = Stock("despacho", s)  BY DEF Stock
<1> QED BY <1>1 DEF Total

\* Taking one unit of a listing.
LEMMA QuitarPend ==
    ASSUME TypeOK, NEW r \in Pedido, NEW u \in pend[r]
    PROVE  Cardinality(pend[r] \ {u}) = Cardinality(pend[r]) - 1
<1>1. pend[r] \subseteq Unidades  BY DEF TypeOK
<1>2. IsFiniteSet(pend[r])  BY <1>1, BodegaAssumption, FS_Subset
<1> QED BY <1>2, FS_RemoveElement

\* The quiet past of a quiet state.
LEMMA TranquiloAntes ==
    ASSUME TypeOK, [Next]_vars, Tranquilo'
    PROVE  Tranquilo
<1>1. ASSUME NEW r \in Pedido
      PROVE  /\ pc[r] = "caido" => pc'[r] = "caido"
             /\ cant'[r] = cant[r]
             /\ \A e \in Etapas : error[r][e] => error'[r][e]
  <2>1. pc[r] = "caido" => pc'[r] = "caido"
    BY DEF Next, Atender, Pedir, Consultar, Listar, Empieza, Retorno, Mover, Rechazar,
           Responder, Excepcion, Reponer, vars, TypeOK, Etapas
  <2>2. cant' = cant
    BY DEF Next, Atender, Pedir, Consultar, Listar, Mover, Rechazar, Responder,
           Excepcion, Reponer, vars
  <2>3. ASSUME NEW e \in Etapas, error[r][e] PROVE error'[r][e]
    <3>1. ASSUME NEW q \in Pedido, Rechazar(q) PROVE error'[r][e]
      <4>1. /\ error \in [Pedido -> [Etapas -> BOOLEAN]] /\ pc[q] \in Etapas
            /\ error' = [error EXCEPT ![q][pc[q]] = TRUE]
        BY <3>1 DEF TypeOK, Rechazar
      <4> QED BY <2>3, <4>1
    <3>2. error' = error \/ \E q \in Pedido : Rechazar(q)
      BY DEF Next, Atender, Pedir, Consultar, Listar, Mover, Responder,
             Excepcion, Reponer, vars
    <3> QED BY <2>3, <3>1, <3>2
  <2> QED BY <2>1, <2>2, <2>3
<1>2. \A r \in Pedido : HuboError(r) => HuboError(r)'
  BY <1>1 DEF HuboError, Etapas
<1> QED BY <1>1, <1>2 DEF Tranquilo, Etapas

\* A step of a request leaves the quotas of the others alone.
LEMMA CupoOtros ==
    ASSUME TypeOK, NEW r \in Pedido, Pedir(r) \/ Atender(r), NEW q \in Pedido \ {r}
    PROVE  Cupo(q)' = Cupo(q)
<1>1. pc'[q] = pc[q] /\ pend'[q] = pend[q] /\ mov'[q] = mov[q]
  BY DEF TypeOK, Pedir, Atender, Consultar, Listar, Mover, Rechazar, Responder
<1> QED BY <1>1 DEF Cupo, Cantidad

\* What each step of a request does to its quota and to the dispatch depot.
LEMMA PasoDePedido ==
    ASSUME TypeOK, TypeOK', IExceso, Lazos, Limpieza, Tranquilo, Tranquilo',
           NEW r \in Pedido, Pedir(r) \/ Atender(r), NEW s \in Skus
    PROVE  \/ Total("despacho", s)' <= Total("despacho", s) /\ Cupo(r) <= Cupo(r)'
           \/ sku[r] # s /\ Total("despacho", s)' <= Total("despacho", s)
           \/ sku[r] = s /\ Total("despacho", s)' - Total("despacho", s)
                               <= Cupo(r)' - Cupo(r)
           \/ sku[r] = s /\ Total("despacho", s)' <= Cupo(r)'
<1> DEFINE Bien == \/ Total("despacho", s)' <= Total("despacho", s) /\ Cupo(r) <= Cupo(r)'
                   \/ sku[r] # s /\ Total("despacho", s)' <= Total("despacho", s)
                   \/ sku[r] = s /\ Total("despacho", s)' - Total("despacho", s)
                                       <= Cupo(r)' - Cupo(r)
                   \/ sku[r] = s /\ Total("despacho", s)' <= Cupo(r)'
<1>0. /\ pc \in [Pedido -> {"libre", "consultar", "aceptado", "fin", "caido"} \cup Etapas]
      /\ pend \in [Pedido -> SUBSET Unidades]
      /\ mov \in [Pedido -> [Etapas -> SUBSET Unidades]]
      /\ error \in [Pedido -> [Etapas -> BOOLEAN]]
      /\ cant[r] \in Int /\ cant[r] > 0 /\ sku[r] \in Skus
      /\ loc \in [Unidades -> Lugares]
  BY DEF TypeOK, LocOK, Tranquilo
<1>a. Cupo(r) \in Nat /\ Total("despacho", s) \in Nat  BY CupoNat, TotalNat
<1>b. Cardinality(mov[r]["sacar"]) \in Nat /\ Cardinality(pend[r]) \in Nat
  BY <1>0, BodegaAssumption, FS_Subset, FS_CardinalityType DEF Etapas
<1>c. ASSUME loc' = loc PROVE Total("despacho", s)' = Total("despacho", s)
  BY <1>c, DespachoIgual
<1>1. CASE Pedir(r) \/ Consultar(r)
  <2>1. /\ pc[r] \in {"libre", "consultar"} /\ pc'[r] \in {"consultar", "aceptado", "fin"}
        /\ loc' = loc
    BY <1>0, <1>1 DEF Pedir, Consultar
  <2>2. Cupo(r) = 0 /\ Cupo(r)' = 0  BY <2>1 DEF Cupo
  <2> QED BY <1>a, <1>c, <2>1, <2>2
<1>2. CASE Listar(r, "sacar")
  <2>1. pc[r] = "aceptado" /\ pc'[r] = "sacar" /\ mov' = mov /\ loc' = loc
    BY <1>0, <1>2 DEF Listar, Empieza
  <2>2. mov[r]["sacar"] = {}  BY <2>1 DEF Lazos
  <2>3. Cupo(r) = 0 /\ Cupo(r)' = 0
    BY <2>1, <2>2, FS_EmptySet DEF Cupo, Cantidad
  <2> QED BY <1>a, <1>c, <2>1, <2>3
<1>3. CASE Listar(r, "enviar")
  <2>1. /\ pc[r] = "sacar" /\ pc'[r] = "enviar" /\ mov' = mov /\ loc' = loc
        /\ pend'[r] \in Listado("despacho", sku[r], Cantidad(r, "sacar"))
    BY <1>0, <1>3 DEF Listar, Empieza, Origen, Limite
  <2>2. Cupo(r) = Cardinality(mov[r]["sacar"])  BY <2>1 DEF Cupo, Cantidad
  <2>3. CASE mov[r]["sacar"] = {}
    <3>1. Cupo(r) = 0 /\ Cupo(r)' = 0
      BY <2>1, <2>2, <2>3, FS_EmptySet DEF Cupo
    <3> QED BY <1>a, <1>c, <2>1, <3>1
  <2>4. CASE mov[r]["sacar"] # {}
    <3>1. Cupo(r)' = Cardinality(pend'[r])  BY <2>1, <2>4 DEF Cupo
    <3>2. \/ pend'[r] = Stock("despacho", sku[r])
          \/ Cardinality(pend'[r]) = Cardinality(mov[r]["sacar"])
      <4>1. Cardinality(mov[r]["sacar"]) \in Nat  BY <1>b
      <4> QED BY <2>1, <4>1 DEF Listado, Cantidad
    <3>3. CASE Cardinality(pend'[r]) = Cardinality(mov[r]["sacar"])
      BY <1>a, <1>c, <2>1, <2>2, <3>1, <3>3
    <3>4. CASE pend'[r] = Stock("despacho", sku[r])
      <4>1. Total("despacho", sku[r]) = Cupo(r)'  BY <3>1, <3>4 DEF Total
      <4>2. CASE sku[r] = s  BY <1>a, <1>c, <2>1, <4>1, <4>2
      <4>3. CASE sku[r] # s  BY <1>a, <1>c, <2>1, <4>3
      <4> QED BY <4>2, <4>3
    <3> QED BY <3>2, <3>3, <3>4
  <2> QED BY <2>3, <2>4
<1>4. CASE Listar(r, "devolver")
  <2>1. /\ pc[r] = "enviar" /\ pc'[r] = "devolver" /\ mov' = mov /\ loc' = loc
        /\ pend'[r] \in Listado("despacho", sku[r],
                                cant[r] - Cardinality(mov[r]["enviar"]))
    BY <1>0, <1>4 DEF Listar, Empieza, Origen, Limite, Cantidad
  <2>2. CASE mov[r]["sacar"] = {}
    <3>1. Cupo(r) = 0 /\ Cupo(r)' = 0  BY <2>1, <2>2 DEF Cupo
    <3> QED BY <1>a, <1>c, <2>1, <3>1
  <2>3. CASE mov[r]["sacar"] # {}
    <3>1. Cupo(r) = Cardinality(pend[r]) /\ Cupo(r)' = Cardinality(pend'[r])
      BY <2>1, <2>3 DEF Cupo
    <3>2. Cardinality(mov[r]["enviar"]) + Cardinality(pend[r]) <= cant[r]
      <4>1. /\ mov[r]["enviar"] \cap pend[r] = {}
            /\ Cardinality(mov[r]["sacar"]) <= cant[r]
        BY <1>0, <2>1 DEF Lazos, Cantidad
      <4>2. Cardinality(mov[r]["enviar"] \cup pend[r]) <= Cardinality(mov[r]["sacar"])
        BY <2>1, <2>3 DEF IExceso, LimiteDeEnvio, Cantidad
      <4>3. IsFiniteSet(mov[r]["enviar"]) /\ IsFiniteSet(pend[r])
        BY <1>0, BodegaAssumption, FS_Subset DEF Etapas
      <4>4. Cardinality(mov[r]["enviar"] \cup pend[r])
              = Cardinality(mov[r]["enviar"]) + Cardinality(pend[r])
                - Cardinality(mov[r]["enviar"] \cap pend[r])
        BY <4>3, FS_Union
      <4>5. Cardinality(mov[r]["enviar"] \cap pend[r]) = 0  BY <4>1, FS_EmptySet
      <4>6. Cardinality(mov[r]["enviar"]) \in Nat /\ Cardinality(pend[r]) \in Nat
        BY <4>3, FS_CardinalityType
      <4> QED BY <1>0, <1>b, <4>1, <4>2, <4>4, <4>5, <4>6
    <3>3. \/ pend'[r] = Stock("despacho", sku[r])
          \/ Cardinality(pend'[r]) >= Cardinality(pend[r])
      <4>1. Cardinality(mov[r]["enviar"]) \in Nat
        BY <1>0, BodegaAssumption, FS_Subset, FS_CardinalityType DEF Etapas
      <4>2. /\ cant[r] - Cardinality(mov[r]["enviar"]) \in Nat
            /\ cant[r] - Cardinality(mov[r]["enviar"]) >= Cardinality(pend[r])
        BY <1>0, <1>b, <3>2, <4>1
      <4>3. PICK n : n = cant[r] - Cardinality(mov[r]["enviar"])  OBVIOUS
      <4>4. pend'[r] \in Listado("despacho", sku[r], n) /\ n \in Nat
        BY <2>1, <4>2, <4>3
      <4>5. pend'[r] = Stock("despacho", sku[r]) \/ Cardinality(pend'[r]) = n
        BY <4>4 DEF Listado
      <4> QED BY <4>2, <4>3, <4>5
    <3>4. CASE Cardinality(pend'[r]) >= Cardinality(pend[r])
      BY <1>a, <1>c, <2>1, <3>1, <3>4
    <3>5. CASE pend'[r] = Stock("despacho", sku[r])
      <4>1. Total("despacho", sku[r]) = Cupo(r)'  BY <3>1, <3>5 DEF Total
      <4>2. CASE sku[r] = s  BY <1>a, <1>c, <2>1, <4>1, <4>2
      <4>3. CASE sku[r] # s  BY <1>a, <1>c, <2>1, <4>3
      <4> QED BY <4>2, <4>3
    <3> QED BY <3>3, <3>4, <3>5
  <2> QED BY <2>2, <2>3
<1>5. ASSUME NEW u \in Unidades, Mover(r, u) PROVE Bien
  <2>1. /\ pc' = pc /\ u \in pend[r] /\ pend'[r] = pend[r] \ {u}
        /\ pc[r] \in Etapas
        /\ mov'[r] = [mov[r] EXCEPT ![pc[r]] = @ \cup {u}]
    BY <1>0, <1>5 DEF Mover, Llamada, Etapas
  <2>2. SkuDe[u] = sku[r]  BY <2>1 DEF Lazos
  <2>3. Cardinality(pend'[r]) = Cardinality(pend[r]) - 1  BY <2>1, QuitarPend
  <2>4. CASE pc[r] = "sacar"
    <3>1. mov'[r]["sacar"] = mov[r]["sacar"] \cup {u}  BY <1>0, <2>1, <2>4 DEF Etapas
    <3>2. u \notin mov[r]["sacar"]  BY <1>0, <2>1, <2>4 DEF Lazos
    <3>3. Cardinality(mov'[r]["sacar"]) = Cardinality(mov[r]["sacar"]) + 1
      <4>1. IsFiniteSet(mov[r]["sacar"])
        BY <1>0, BodegaAssumption, FS_Subset DEF Etapas
      <4> QED BY <3>1, <3>2, <4>1, FS_AddElement
    <3>4. /\ Cupo(r) = Cardinality(mov[r]["sacar"])
          /\ Cupo(r)' = Cardinality(mov'[r]["sacar"])
      BY <2>1, <2>4 DEF Cupo, Cantidad
    <3>5. loc' = [loc EXCEPT ![u] = "despacho"]
      BY <1>5, <2>4 DEF Mover, Llamada, MoveStock
    <3>6. Total("despacho", s)' <= Total("despacho", s) + (IF SkuDe[u] = s THEN 1 ELSE 0)
      BY <3>5, DespachoSube
    <3>7. Total("despacho", s)' \in Nat
      <4>1. Stock("despacho", s)' \subseteq Unidades  BY DEF Stock
      <4>2. Cardinality(Stock("despacho", s)') \in Nat
        BY <4>1, BodegaAssumption, FS_Subset, FS_CardinalityType
      <4> QED BY <4>2 DEF Total
    <3> QED BY <1>a, <1>b, <2>2, <3>3, <3>4, <3>6, <3>7
  <2>5. ASSUME pc[r] \in {"enviar", "devolver"} PROVE Bien
    <3>1. \E d : d # "despacho" /\ loc[u] = "despacho" /\ loc' = [loc EXCEPT ![u] = d]
      <4>1. CASE pc[r] = "enviar"
        BY <1>5, <4>1 DEF Mover, Llamada, MoveStockBodega
      <4>2. CASE pc[r] = "devolver"
        <5>1. loc[u] \in Depositos /\ loc' = [loc EXCEPT ![u] = "principal"]
          BY <1>5, <4>2 DEF Mover, Llamada, MoveStock
        <5>2. loc[u] \in {"despacho", "socio"}  BY <2>1, <4>2 DEF Limpieza
        <5> QED BY <5>1, <5>2 DEF Depositos
      <4> QED BY <2>5, <4>1, <4>2
    <3>2. Total("despacho", s)'
            = Total("despacho", s) - (IF SkuDe[u] = s THEN 1 ELSE 0)
      BY <3>1, DespachoBaja
    <3>3. mov'[r]["sacar"] = mov[r]["sacar"]  BY <1>0, <2>1, <2>5 DEF Etapas
    <3>4. CASE mov[r]["sacar"] = {}
      <4>1. Cupo(r) = 0 /\ Cupo(r)' = 0  BY <2>1, <2>5, <3>3, <3>4 DEF Cupo
      <4> QED BY <1>a, <3>2, <4>1
    <3>5. CASE mov[r]["sacar"] # {}
      <4>1. Cupo(r) = Cardinality(pend[r]) /\ Cupo(r)' = Cardinality(pend'[r])
        BY <2>1, <2>5, <3>3, <3>5 DEF Cupo
      <4> QED BY <1>a, <1>b, <2>2, <2>3, <3>2, <4>1
    <3> QED BY <3>4, <3>5
  <2> QED BY <2>1, <2>4, <2>5 DEF Etapas
<1>6. CASE Rechazar(r)
  <2>1. pc' = pc /\ pend' = pend /\ mov' = mov /\ loc' = loc  BY <1>6 DEF Rechazar
  <2>2. Cupo(r)' = Cupo(r)  BY <2>1 DEF Cupo, Cantidad
  <2> QED BY <1>a, <1>c, <2>1, <2>2
<1>7. CASE Responder(r)
  <2>1. /\ pc'[r] = "fin" /\ loc' = loc /\ Retorno(r)
        /\ pc[r] = "devolver" \/ (pc[r] = "enviar" /\ ~HuboError(r))
    BY <1>0, <1>7 DEF Responder
  <2>2. pend[r] = {}  BY <2>1 DEF Retorno, HuboError, Tranquilo
  <2>3. Cupo(r)' = 0  BY <2>1 DEF Cupo
  <2>4. Cupo(r) = 0  BY <2>1, <2>2, FS_EmptySet DEF Cupo
  <2> QED BY <1>a, <1>c, <2>1, <2>3, <2>4
<1> QED
  BY <1>1, <1>2, <1>3, <1>4, <1>5, <1>6, <1>7 DEF Atender, Etapas

LEMMA NextLimpieza ==
    TypeOK /\ TypeOK' /\ IExceso /\ Lazos /\ Lazos' /\ Limpieza /\ [Next]_vars => Limpieza'
<1> SUFFICES ASSUME TypeOK, TypeOK', IExceso, Lazos, Lazos', Limpieza, [Next]_vars,
                    Tranquilo'
             PROVE  /\ \A r \in Pedido : pc'[r] = "devolver" =>
                           \A u \in pend'[r] : loc'[u] \in {"despacho", "socio"}
                    /\ \A s \in Skus :
                           Total("despacho", s)' <= Sumar(Cupos(s), Pedido)'
  BY DEF Limpieza
<1>0. /\ pc \in [Pedido -> {"libre", "consultar", "aceptado", "fin", "caido"} \cup Etapas]
      /\ pend \in [Pedido -> SUBSET Unidades] /\ pend' \in [Pedido -> SUBSET Unidades]
      /\ loc \in [Unidades -> Lugares]
  BY DEF TypeOK, LocOK
<1>1. Tranquilo  BY TranquiloAntes
<1>2. /\ \A r \in Pedido : pc[r] = "devolver" =>
             \A u \in pend[r] : loc[u] \in {"despacho", "socio"}
      /\ \A s \in Skus : Total("despacho", s) <= Sumar(Cupos(s), Pedido)
  BY <1>1 DEF Limpieza
<1>3. \A q \in Pedido : ~Excepcion(q)
  <2> SUFFICES ASSUME NEW q \in Pedido, Excepcion(q) PROVE FALSE  OBVIOUS
  <2>1. pc'[q] = "caido"  BY <1>0 DEF Excepcion
  <2> QED BY <2>1 DEF Tranquilo
<1>4. ASSUME NEW r \in Pedido, pc'[r] = "devolver", NEW u \in pend'[r]
      PROVE  loc'[u] \in {"despacho", "socio"}
  <2>0. u \in Unidades  BY <1>0, <1>4
  <2>1. CASE Listar(r, "devolver")
    <3>1. pend'[r] \in Listado("despacho", sku[r], Limite(r, "devolver")) /\ loc' = loc
      BY <1>0, <2>1 DEF Listar, Origen
    <3> QED BY <1>4, <3>1 DEF Listado, Stock
  <2>2. CASE ~Listar(r, "devolver")
    <3>1. pc[r] = "devolver" /\ pend'[r] \subseteq pend[r]
      BY <1>0, <1>3, <1>4, <2>2
      DEF Next, Atender, Pedir, Consultar, Listar, Empieza, Mover, Rechazar,
          Responder, Reponer, vars, Etapas
    <3>2. loc[u] \in {"despacho", "socio"}  BY <1>2, <1>4, <3>1
    <3>3. ASSUME NEW q \in Pedido, NEW v \in Unidades, Mover(q, v)
          PROVE  loc'[u] \in {"despacho", "socio"}
      <4>1. CASE v # u
        <5>1. loc'[u] = loc[u]
          BY <1>0, <2>0, <3>3, <4>1 DEF Mover, Llamada, MoveStock, MoveStockBodega
        <5> QED BY <3>2, <5>1
      <4>2. CASE v = u /\ pc[q] \in {"sacar", "enviar"}
        BY <1>0, <3>3, <4>2 DEF Mover, Llamada, MoveStock, MoveStockBodega
      <4>3. CASE v = u /\ pc[q] = "devolver"
        <5>1. q = r  BY <1>1, <3>1, <4>3 DEF Tranquilo, Lazos
        <5>2. pend'[r] = pend[r] \ {u}  BY <1>0, <3>3, <4>3, <5>1 DEF Mover
        <5> QED BY <1>4, <5>2
      <4> QED BY <3>3, <4>1, <4>2, <4>3 DEF Mover, Llamada
    <3>4. ASSUME NEW v \in Unidades, Reponer(v)
          PROVE  loc'[u] \in {"despacho", "socio"}
      <4>1. v # u  BY <3>2, <3>4 DEF Reponer
      <4> QED BY <1>0, <2>0, <3>2, <3>4, <4>1 DEF Reponer
    <3>5. CASE loc' = loc  BY <3>2, <3>5
    <3> QED
      BY <1>3, <3>3, <3>4, <3>5
      DEF Next, Atender, Pedir, Consultar, Listar, Rechazar, Responder, vars
  <2> QED BY <2>1, <2>2
<1>5. ASSUME NEW s \in Skus
      PROVE  Total("despacho", s)' <= Sumar(Cupos(s), Pedido)'
  <2>1. ASSUME NEW r \in Pedido, Pedir(r) \/ Atender(r)
        PROVE  Total("despacho", s)' <= Sumar(Cupos(s), Pedido)'
    <3>1. sku' = sku
      BY <2>1 DEF Pedir, Atender, Consultar, Listar, Mover, Rechazar, Responder
    <3>2. \A q \in Pedido \ {r} : Cupo(q)' = Cupo(q)  BY <2>1, CupoOtros
    <3>3. \/ Total("despacho", s)' <= Total("despacho", s) /\ Cupo(r) <= Cupo(r)'
          \/ sku[r] # s /\ Total("despacho", s)' <= Total("despacho", s)
          \/ sku[r] = s /\ Total("despacho", s)' - Total("despacho", s)
                              <= Cupo(r)' - Cupo(r)
          \/ sku[r] = s /\ Total("despacho", s)' <= Cupo(r)'
      BY <1>1, <2>1, PasoDePedido
    <3> QED BY <1>2, <3>1, <3>2, <3>3, PasoCupo
  <2>2. ASSUME (\E u \in Unidades : Reponer(u)) \/ UNCHANGED vars
        PROVE  Total("despacho", s)' <= Sumar(Cupos(s), Pedido)'
    <3>1. /\ pc' = pc /\ pend' = pend /\ mov' = mov /\ sku' = sku
          /\ \A u \in Unidades : loc'[u] = "despacho" <=> loc[u] = "despacho"
      BY <1>0, <2>2 DEF Reponer, vars
    <3>2. \A q \in Pedido : Cupo(q)' = Cupo(q)  BY <3>1 DEF Cupo, Cantidad
    <3>3. Cupos(s)' = Cupos(s)  BY <3>1, <3>2 DEF Cupos
    <3>4. Sumar(Cupos(s), Pedido)' = Sumar(Cupos(s), Pedido)  BY <3>3, Zenon
    <3>5. Total("despacho", s)' = Total("despacho", s)  BY <3>1, DespachoIgual
    <3> QED BY <1>2, <3>4, <3>5
  <2> QED BY <1>3, <2>1, <2>2 DEF Next
<1> QED BY <1>4, <1>5

\* Interleaved requests leave nothing behind in the dispatch depot when every one
\* was answered, at most one was refused, and not while it put units back.
THEOREM SinVaradosSiempre == Spec => []SinVarados
<1>1. Init => Lazos  BY DEF Init, Lazos, Etapas
<1>2. Init => Limpieza
  <2> SUFFICES ASSUME Init, NEW s \in Skus
               PROVE  /\ \A r \in Pedido : pc[r] # "devolver"
                      /\ Total("despacho", s) <= Sumar(Cupos(s), Pedido)
    BY DEF Limpieza, Init
  <2>1. TypeOK  BY InitTypeOK
  <2>2. Stock("despacho", s) = {}  BY DEF Init, Stock
  <2>3. Total("despacho", s) = 0  BY <2>2, FS_EmptySet DEF Total
  <2>4. Cupos(s) \in [Pedido -> Nat]  BY <2>1, CupoNat DEF Cupos
  <2>5. Sumar(Cupos(s), Pedido) \in Nat  BY <2>4, PedidosAssumption, SumaNat
  <2> QED BY <2>3, <2>5 DEF Init
<1>3. Init => IExceso
  BY FS_EmptySet DEF Init, IExceso, LimiteDeEnvio, ExcesoSoloSinSacar, Cantidad,
     Etapas, SinEnviarAun
<1>4. TypeOK /\ Limpieza => SinVarados
  <2> SUFFICES ASSUME TypeOK, Limpieza, NEW s \in Skus,
                      \A r \in Pedido : Cerrado(r) /\ cant[r] > 0 /\ ~error[r]["devolver"],
                      \A r, q \in Pedido : HuboError(r) /\ HuboError(q) => r = q
               PROVE  Stock("despacho", s) = {}
    BY DEF SinVarados
  <2>1. Tranquilo  BY DEF Tranquilo, Cerrado
  <2>2. Total("despacho", s) <= Sumar(Cupos(s), Pedido)  BY <2>1 DEF Limpieza
  <2>3. Cupos(s) \in [Pedido -> Nat]  BY CupoNat DEF Cupos
  <2>4. \A r \in Pedido : Cupos(s)[r] = 0  BY DEF Cupos, Cupo, Cerrado
  <2>5. Sumar(Cupos(s), Pedido) = 0  BY <2>3, <2>4, PedidosAssumption, SumaNat
  <2>6. Stock("despacho", s) \subseteq Unidades  BY DEF Stock
  <2>7. IsFiniteSet(Stock("despacho", s))  BY <2>6, BodegaAssumption, FS_Subset
  <2>8. Cardinality(Stock("despacho", s)) = 0
    BY <2>2, <2>5, TotalNat DEF Total
  <2> QED BY <2>7, <2>8, FS_EmptySet
<1> QED
  BY <1>1, <1>2, <1>3, <1>4, TypeCorrect, NextExceso, NextLazos, NextLimpieza, PTL
  DEF Spec
=============================================================================
