\* Two orders due on two days and a request, over two units of one product.
SPECIFICATION Spec
CONSTANTS
    u1 = u1
    u2 = u2
    u3 = u3
    a = a
    l1 = l1
    l2 = l2
    c1 = c1
    r1 = r1
    Unidades = {u1, u2}
    Skus = {a}
    SkuDe <- MCSkuDe
    Archivo = {1, 2}
    Linea = {l1, l2}
    ArchivoDe <- MCArchivoDe
    SkuLinea <- MCSkuLinea
    CantLinea <- MCCantLinea
    Cliente = {c1}
    ClienteDe <- MCClienteDe
    Reservado <- MCReservado
    NumSocios = 0
    Fecha <- MCFecha
    MaxDia = 1
    Pedido = {r1}
    Cantidades = {1}
    MaxFallos = 1
SYMMETRY Simetria
INVARIANTS UnSoloReceptor EntregaCompleta
PROPERTIES PedidosComoAjenos CumpleEntrega CumpleEnvios
CHECK_DEADLOCK FALSE
