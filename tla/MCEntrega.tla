----------------------------- MODULE MCEntrega ------------------------------
(* Entrega on two orders: two lines of one product, a line of another. *)
EXTENDS Entrega, TLC

CONSTANTS u1, u2, u3, v1, a, b, l1, l2, l3

MCSkuDe == [u \in Unidades |-> IF u = v1 THEN b ELSE a]

\* Order 1 is due today and asks for two units of a and one of b, order 2 is
\* due tomorrow and asks for a unit of a.
MCArchivoDe == [l \in Linea |-> IF l = l3 THEN 2 ELSE 1]
MCSkuLinea == [l \in Linea |-> IF l = l2 THEN b ELSE a]
MCCantLinea == [l \in Linea |-> IF l = l1 THEN 2 ELSE 1]
MCFecha == [g \in Archivo |-> g - 1]

Simetria == Permutations(Unidades \ {v1})
=============================================================================
