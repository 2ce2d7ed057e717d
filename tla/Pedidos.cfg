\* Two concurrent requests over three units of one product.
SPECIFICATION Spec
CONSTANTS
    r1 = r1
    r2 = r2
    u1 = u1
    u2 = u2
    u3 = u3
    v1 = v1
    a = a
    b = b
    Pedido = {r1, r2}
    Unidades = {u1, u2, u3}
    Skus = {a}
    SkuDe <- MCSkuDe
    Cantidades = {0, 1, 2}
SYMMETRY Simetria
INVARIANTS TypeOK LibroDeEnvios ExcesoSoloSinSacar CuentaClara SinVarados EnvioTodoSiSolo
CHECK_DEADLOCK FALSE
