\* Two importing tasks, two pairs, amounts 1 and 2, two days, a window of this day only,
\* a sheet replaced twice.
SPECIFICATION Spec
CONSTANTS
    i1 = i1
    i2 = i2
    k1 = k1
    k2 = k2
    Importador = {i1, i2}
    Diario = i2
    Clave = {k1, k2}
    Montos = {1, 2}
    Hojas <- MCHojas
    Ventana = 0
    MaxDia = 1
    MaxCambios = 2
    MaxImportes = 2
INVARIANTS UnaVigente UsoAcotado NoMasVieja ImportaTodo
PROPERTIES UsoNoVuelve
CHECK_DEADLOCK FALSE
