\* Three offers of two products over four periods; the task is stopped at most once.
SPECIFICATION Spec
CONSTANTS
    a = a
    b = b
    NumOfertas = 3
    Skus = {a, b}
    SkuDe <- MCSkuDe
    Precio <- MCPrecio
    Inicio <- MCInicio
    Fin <- MCFin
    PrecioNormal <- MCPrecioNormal
    MaxHora = 4
    MaxFallos = 1
INVARIANTS TypeOK PerdidaSoloPorFallo AvisoPrevio TuitUnaVez BaseRecuperada
CHECK_DEADLOCK FALSE
