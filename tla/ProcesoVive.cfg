\* Two orders, one with two lines of a product: whether every order is processed.
SPECIFICATION Spec
CONSTANTS
    u1 = u1
    u2 = u2
    u3 = u3
    v1 = v1
    a = a
    b = b
    l1 = l1
    l2 = l2
    l3 = l3
    c1 = c1
    c2 = c2
    Unidades = {u1, u2}
    Skus = {a, b}
    SkuDe <- MCSkuDe
    Archivo = {1, 2}
    Linea = {l1, l2, l3}
    ArchivoDe <- MCArchivoDosLineas
    SkuLinea <- MCSkuLinea
    CantLinea <- MCCantLinea
    Cliente = {c1, c2}
    ClienteDe <- MCClienteDe
    Reservado <- MCReservado
    NumSocios = 1
    MaxFallos = 1
    MaxAjenos = 1
PROPERTIES SeProcesa
