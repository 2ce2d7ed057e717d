----------------------------- MODULE MCReservas -----------------------------
(* Reservas with two importing tasks. *)
EXTENDS Reservas, TLC

CONSTANTS i1, i2, k1, k2

\* Both pairs reserved, and the amount of one changes up and down.
MCHojas == {{<<k1, 1>>, <<k2, 1>>}, {<<k1, 2>>, <<k2, 1>>}}
=============================================================================
