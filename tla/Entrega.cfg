\* Two orders due on different days, two days, one line each of two products.
SPECIFICATION Spec
CONSTANTS
    u1 = u1
    u2 = u2
    u3 = u3
    v1 = v1
    a = a
    b = b
    l1 = l1
    l2 = l2
    l3 = l3
    Unidades = {u1, u2, u3, v1}
    Skus = {a, b}
    SkuDe <- MCSkuDe
    Archivo = {1, 2}
    Linea = {l1, l2, l3}
    ArchivoDe <- MCArchivoDe
    SkuLinea <- MCSkuLinea
    CantLinea <- MCCantLinea
    Fecha <- MCFecha
    MaxDia = 1
SYMMETRY Simetria
INVARIANTS TypeOK SalidaJustificada UnaVezPorDia
CHECK_DEADLOCK FALSE
