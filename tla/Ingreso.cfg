\* Two overlapping imports of five files, three of which are always skipped.
SPECIFICATION Spec
CONSTANTS
    i1 = i1
    i2 = i2
    f1 = f1
    f2 = f2
    f3 = f3
    f4 = f4
    f5 = f5
    x = x
    l1 = l1
    l2 = l2
    l3 = l3
    Importador = {i1, i2}
    Archivo = {f1, f2, f3, f4, f5}
    Otros = {x}
    Linea = {l1, l2, l3}
    ArchivoDe <- MCArchivoDe
    MaxFallos = 1
SYMMETRY Simetria
INVARIANTS TypeOK CompletoSinFallos UnicoSinSolape
PROPERTIES Definitivo
CHECK_DEADLOCK FALSE
