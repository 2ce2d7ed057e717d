----------------------------- MODULE MCOfertas ------------------------------
(* Ofertas on three offers: two of product a that overlap, one of b. *)
EXTENDS Ofertas

CONSTANTS a, b

MCSkuDe == <<a, b, a>>
MCPrecio == <<7, 8, 6>>
MCInicio == <<0, 0, 1>>
MCFin == <<2, 2, 3>>
MCPrecioNormal == [s \in Skus |-> 9]
=============================================================================
