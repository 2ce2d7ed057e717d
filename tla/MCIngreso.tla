----------------------------- MODULE MCIngreso ------------------------------
(* Ingreso on five files and one other entry; f1 and f2 have lines. *)
EXTENDS Ingreso, TLC

CONSTANTS i1, i2, f1, f2, f3, f4, f5, x, l1, l2, l3

MCArchivoDe == [l \in Linea |-> IF l = l3 THEN f2 ELSE f1]

Simetria == Permutations(Importador) \cup Permutations({f3, f4, f5})
                \cup Permutations({l1, l2})
=============================================================================
