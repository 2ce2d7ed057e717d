\* A product with two prices over two days, three price files, three changes.
SPECIFICATION Spec
CONSTANTS
    a = a
    Skus = {a}
    Precio = {1, 2}
    Archivos <- MCArchivos
    MaxDia = 1
    MaxCambios = 3
INVARIANTS PrecioAlDia TablaFiel
PROPERTIES PrecioSoloPorLectura
CHECK_DEADLOCK FALSE
