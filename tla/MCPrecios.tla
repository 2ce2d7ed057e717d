----------------------------- MODULE MCPrecios ------------------------------
(* Precios on one product and three contents of the price file. *)
EXTENDS Precios, TLC

CONSTANT a

Linea(s, p, d, h, m) == [sku |-> s, precio |-> p, desde |-> d, hasta |-> h, mala |-> m]

\* Two prices of a product in a row; the second one changed; a bad line between.
MCArchivos ==
    LET r1 == Linea(a, 1, 0, 0, FALSE)
        r2 == Linea(a, 2, 0, 1, FALSE)
        r3 == Linea(a, 1, 0, 1, FALSE)
        r4 == Linea(a, 1, 0, 1, TRUE)
    IN  {<<r1, r2>>, <<r1, r3>>, <<r1, r4, r2>>}
=============================================================================
