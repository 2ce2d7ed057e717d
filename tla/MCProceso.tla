----------------------------- MODULE MCProceso ------------------------------
(* Proceso on two orders of two clients. *)
EXTENDS Proceso, TLC

CONSTANTS u1, u2, u3, v1, a, b, l1, l2, l3, c1, c2

MCSkuDe == [u \in Unidades |-> IF u = v1 THEN b ELSE a]

\* Order 1 asks for two units of a; order 2 for one unit of a and one of b.
MCArchivoDe == [l \in Linea |-> IF l = l1 THEN 1 ELSE 2]
MCSkuLinea == [l \in Linea |-> IF l = l3 THEN b ELSE a]
MCCantLinea == [l \in Linea |-> IF l = l1 THEN 2 ELSE 1]

\* For the run with liveness: order 1 has both lines of a, order 2 the one of b.
MCArchivoDosLineas == [l \in Linea |-> IF l = l3 THEN 2 ELSE 1]

\* Client c1 gives order 1, c2 order 2; each reserved one unit of a.
MCClienteDe == [g \in Archivo |-> IF g = 1 THEN c1 ELSE c2]
MCReservado == [c \in Cliente |-> [s \in Skus |-> IF s = a THEN 1 ELSE 0]]

Simetria == Permutations(Unidades \ {v1})
=============================================================================
