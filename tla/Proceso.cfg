\* Two orders, three lines, two products; the task is stopped at most once.
SPECIFICATION Spec
CONSTANTS
    u1 = u1
    u2 = u2
    u3 = u3
    v1 = v1
    a = a
    b = b
    l1 = l1
    l2 = l2
    l3 = l3
    c1 = c1
    c2 = c2
    Unidades = {u1, u2, v1}
    Skus = {a, b}
    SkuDe <- MCSkuDe
    Archivo = {1, 2}
    Linea = {l1, l2, l3}
    ArchivoDe <- MCArchivoDe
    SkuLinea <- MCSkuLinea
    CantLinea <- MCCantLinea
    Cliente = {c1, c2}
    ClienteDe <- MCClienteDe
    Reservado <- MCReservado
    NumSocios = 2
    MaxFallos = 1
    MaxAjenos = 2
SYMMETRY Simetria
INVARIANTS TypeOK UnaVez QuiebreConsistente UsoRespaldado ExcesoSoloSinStock RespetaReservas
