----------------------------- MODULE MCPedidos ------------------------------
(* Pedidos on units of one product; v1 would be of another. *)
EXTENDS Pedidos, TLC

CONSTANTS r1, r2, u1, u2, u3, v1, a, b

MCSkuDe == [u \in Unidades |-> IF u = v1 THEN b ELSE a]

\* Requests have the same code, and so have the units of one product.
Simetria == Permutations(Pedido) \cup Permutations(Unidades \ {v1})
=============================================================================
