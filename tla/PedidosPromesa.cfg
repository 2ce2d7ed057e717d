\* Two concurrent requests over two units, whether each ends and what it promises.
SPECIFICATION Spec
CONSTANTS
    r1 = r1
    r2 = r2
    u1 = u1
    u2 = u2
    u3 = u3
    v1 = v1
    a = a
    b = b
    Pedido = {r1, r2}
    Unidades = {u1, u2}
    Skus = {a}
    SkuDe <- MCSkuDe
    Cantidades = {1, 2}
PROPERTIES TodoPedidoTermina CumpleEnvios
CHECK_DEADLOCK FALSE
