------------------------------ MODULE MCTienda ------------------------------
(* Tienda on two orders of one line each and one request, all of one product. *)
EXTENDS Tienda, TLC

CONSTANTS u1, u2, u3, a, l1, l2, c1, r1

MCSkuDe == [u \in Unidades |-> a]
MCArchivoDe == [l \in Linea |-> IF l = l1 THEN 1 ELSE 2]
MCSkuLinea == [l \in Linea |-> a]
MCCantLinea == [l \in Linea |-> 1]
MCClienteDe == [g \in Archivo |-> c1]
MCReservado == [c \in Cliente |-> [s \in Skus |-> 0]]

\* Order 1 is due on the first day, order 2 on the second.
MCFecha == [g \in Archivo |-> g - 1]

Simetria == Permutations(Unidades)
=============================================================================
