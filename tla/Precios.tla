------------------------------ MODULE Precios -------------------------------
(***************************************************************************)
(* The price of a dispatch.  Stock.despachar looks it up in the table      *)
(* Product, that Product.readcsv fills from the file the Access importer   *)
(* writes, and failing that in the table WebProduct, that WebProduct.read  *)
(* fills from productos.json.  my_taskDia reads both once a day; offers    *)
(* change rows of WebProduct and the importer rewrites its file meanwhile. *)
(***************************************************************************)
EXTENDS Integers, Sequences, FiniteSets

CONSTANTS
    Skus,       \* the product codes
    Precio,     \* the prices
    Archivos,   \* what outputJava.csv may hold, line by line
    MaxDia,     \* bound: the last day
    MaxCambios  \* bound: how often the catalogue or an offer changes a price

\* A line of the file: a price of a product from a day to a day.  A bad one
\* cannot be split into columns.
Registro == [sku: Skus, precio: Precio, desde: 0..MaxDia, hasta: 0..MaxDia,
             mala: BOOLEAN]

ASSUME PreciosAssumption ==
    /\ Skus # {} /\ IsFiniteSet(Skus) /\ Precio \subseteq Nat \ {0}
    /\ Archivos \subseteq Seq(Registro) /\ MaxDia \in Nat /\ MaxCambios \in Nat

VARIABLES
    hoy,        \* Date.current
    catalogo,   \* productos.json: the normal and the internet price of each product
    archivo,    \* outputJava.csv
    web,        \* the rows of WebProduct of each product, by id
    tabla,      \* the rows of Product, by id
    t,          \* the local state of the task
    cambios,    \* history: how often the catalogue or an offer changed a price
    leido,      \* history: the normal price of each product when last read, or 0
    vistos,     \* history: the normal prices each product had in the catalogue
    vuelve      \* history: the products that had a normal price again

vars == <<hoy, catalogo, archivo, web, tabla, t, cambios, leido, vistos, vuelve>>

Par == [normal: Precio, internet: Precio]
Columnas == [cita: BOOLEAN, valor: Skus \cup Nat]
Filas == [sku: Columnas, precio: Columnas, desde: Columnas, hasta: Columnas]

TypeOK ==
    /\ hoy \in 0..MaxDia
    /\ catalogo \in [Skus -> Par] /\ archivo \in Archivos
    /\ web \in [Skus -> Seq(Par)]
    /\ tabla \in Seq(Filas)
    /\ t \in [pc: {"libre", "productos", "precios"}, cola: SUBSET Skus, n: Nat,
              errores: SUBSET Filas, quieto: BOOLEAN]
    /\ cambios \in 0..MaxCambios
    /\ leido \in [Skus -> Precio \cup {0}] /\ vistos \in [Skus -> SUBSET Precio]
    /\ vuelve \subseteq Skus

\* errores is @errors, what this reading could not look up or insert; quieto
\* tells whether the file is still as it was when the reading began.
Ocioso == [pc |-> "libre", cola |-> {}, n |-> 0, errores |-> {}, quieto |-> TRUE]

Init ==
    /\ hoy = 0
    /\ catalogo \in [Skus -> Par] /\ archivo \in Archivos
    /\ web = [s \in Skus |-> <<>>] /\ tabla = <<>>
    /\ t = Ocioso /\ cambios = 0
    /\ leido = [s \in Skus |-> 0]
    /\ vistos = [s \in Skus |-> {catalogo[s].normal}] /\ vuelve = {}

-----------------------------------------------------------------------------
(* What others write meanwhile *)

\* A new productos.json, in which the prices of one product changed.
CambiarCatalogo(s) ==
    /\ t.pc # "productos"    \* the file is read in one piece
    /\ cambios < MaxCambios /\ cambios' = cambios + 1
    /\ \E p \in Par :
           /\ p # catalogo[s]
           /\ catalogo' = [catalogo EXCEPT ![s] = p]
           /\ vistos' = [vistos EXCEPT ![s] = @ \cup {p.normal}]
           /\ vuelve' = IF p.normal # catalogo[s].normal /\ p.normal \in vistos[s]
                        THEN vuelve \cup {s} ELSE vuelve
    /\ UNCHANGED <<hoy, archivo, web, tabla, t, leido>>

\* my_task5 rewrites the file, under the eyes of a reader if there is one.
RehacerArchivo ==
    /\ archivo' \in Archivos \ {archivo}
    /\ t' = [t EXCEPT !.quieto = (t.pc # "precios")]
    /\ UNCHANGED <<hoy, catalogo, web, tabla, cambios, leido, vistos, vuelve>>

OfertaNormal(fila, p) == [fila EXCEPT !.normal = p]    \* (mutant)

\* An offer begins or ends: the newest row of the product gets another
\* internet price (Offer.publicarTwitter, Offer.cambiarPrecio).
FilaEnOferta(fila, p) == [fila EXCEPT !.internet = p]

Oferta(s, p) ==
    /\ cambios < MaxCambios /\ web[s] # <<>>
    /\ web' = [web EXCEPT ![s][Len(web[s])] = FilaEnOferta(@, p)]
    /\ cambios' = cambios + 1
    /\ UNCHANGED <<hoy, catalogo, archivo, tabla, t, leido, vistos, vuelve>>

NuevoDia ==
    /\ hoy < MaxDia /\ hoy' = hoy + 1
    /\ UNCHANGED <<catalogo, archivo, web, tabla, t, cambios, leido, vistos, vuelve>>

-----------------------------------------------------------------------------
(* WebProduct.read *)

Iniciar ==
    /\ t.pc = "libre"
    /\ t' = [Ocioso EXCEPT !.pc = "productos", !.cola = Skus]
    /\ UNCHANGED <<hoy, catalogo, archivo, web, tabla, cambios, leido, vistos, vuelve>>

SiHayFila(s) == web[s] # <<>>    \* (mutant) any row of the product will do

\* The product has a row with exactly these values, however old.
HayFila(s) == \E n \in DOMAIN web[s] : web[s][n] = catalogo[s]

LeerProducto(s) ==
    /\ t.pc = "productos" /\ s \in t.cola
    /\ web' = IF HayFila(s) THEN web
              ELSE [web EXCEPT ![s] = Append(@, catalogo[s])]
    /\ leido' = [leido EXCEPT ![s] = catalogo[s].normal]
    /\ t' = [t EXCEPT !.cola = @ \ {s}]
    /\ UNCHANGED <<hoy, catalogo, archivo, tabla, cambios, vistos, vuelve>>

\* The reading is over, or a product raised: its rescue raises too, and those
\* behind it are not read.
ProductosListos ==
    /\ t.pc = "productos"
    /\ t' = [Ocioso EXCEPT !.pc = "precios"]
    /\ UNCHANGED <<hoy, catalogo, archivo, web, tabla, cambios, leido, vistos, vuelve>>

-----------------------------------------------------------------------------
(* Product.readcsv *)

ColumnaLimpia(v) == [cita |-> FALSE, valor |-> v]    \* (mutant) without the quotes

\* row.split(',') leaves a column between the quotes the file has around it.
Columna(v) == [cita |-> TRUE, valor |-> v]

Fila(r) == [sku |-> Columna(r.sku), precio |-> Columna(r.precio),
            desde |-> Columna(r.desde), hasta |-> Columna(r.hasta)]

SinPrecio(f) == \E n \in DOMAIN tabla :    \* (mutant) the price is not compared
    [tabla[n] EXCEPT !.precio = f.precio] = f

\* The table has exactly this row.
EnTabla(f) == \E n \in DOMAIN tabla : tabla[n] = f

LeerLinea ==
    /\ t.pc = "precios" /\ t.n < Len(archivo) /\ ~archivo[t.n + 1].mala
    /\ LET f == Fila(archivo[t.n + 1])
       IN  tabla' = IF EnTabla(f) THEN tabla ELSE Append(tabla, f)
    /\ t' = [t EXCEPT !.n = @ + 1]
    /\ UNCHANGED <<hoy, catalogo, archivo, web, cambios, leido, vistos, vuelve>>

\* The database refuses the query or the insert of a line: the rescue notes it
\* and the reading goes on with the next one.
LineaRechazada ==
    /\ t.pc = "precios" /\ t.n < Len(archivo) /\ ~archivo[t.n + 1].mala
    /\ t' = [t EXCEPT !.n = @ + 1, !.errores = @ \cup {Fila(archivo[t.n + 1])}]
    /\ UNCHANGED <<hoy, catalogo, archivo, web, tabla, cambios, leido, vistos, vuelve>>

\* The end of the file, or a line that cannot be split: split is outside the
\* rescue, so the reading ends there.
TerminarArchivo ==
    /\ t.pc = "precios"
    /\ t.n < Len(archivo) => archivo[t.n + 1].mala
    /\ t' = Ocioso
    /\ UNCHANGED <<hoy, catalogo, archivo, web, tabla, cambios, leido, vistos, vuelve>>

\* The process is killed, or a file cannot be opened.
Fallar ==
    /\ t.pc # "libre"
    /\ t' = Ocioso
    /\ UNCHANGED <<hoy, catalogo, archivo, web, tabla, cambios, leido, vistos, vuelve>>

Tarea == Iniciar \/ ProductosListos \/ LeerLinea \/ LineaRechazada
         \/ TerminarArchivo \/ \E s \in Skus : LeerProducto(s)

Next ==
    \/ Tarea \/ Fallar \/ RehacerArchivo \/ NuevoDia
    \/ \E s \in Skus : CambiarCatalogo(s) \/ \E p \in Precio : Oferta(s, p)

Spec == Init /\ [][Next]_vars

-----------------------------------------------------------------------------
(* Stock.despachar: the look-up of the price *)

\* SQL compares text: a quote equals no digit and sorts before every digit.
Igual(c, v)       == ~c.cita /\ c.valor = v
NoDespues(c, dia) == c.cita \/ c.valor <= dia
NoAntes(c, dia)   == ~c.cita /\ c.valor >= dia

Validas(s) == {n \in DOMAIN tabla : /\ NoDespues(tabla[n].desde, hoy)
                                    /\ NoAntes(tabla[n].hasta, hoy)
                                    /\ Igual(tabla[n].sku, s)}

Ultima(N) == CHOOSE n \in N : \A m \in N : m <= n

\* price_prod: the newest row that is valid today, or else the normal price in
\* the newest row of the catalogue, or else nothing.
price_prod(s) ==
    IF Validas(s) # {} THEN tabla[Ultima(Validas(s))].precio.valor
    ELSE IF web[s] # <<>> THEN web[s][Len(web[s])].normal
    ELSE 0

-----------------------------------------------------------------------------
(* Properties *)

\* A dispatch is charged at the normal price the catalogue had when it was last
\* read, whatever offers did to the rows and whatever the price table holds: its
\* rows never match.  A product whose price returned to an earlier value is
\* the exception: the old row is found, none is created, and the newest row
\* keeps the other price for good (web_product.rb:15, stock.rb:212-222).
PrecioAlDia == \A s \in Skus \ vuelve : price_prod(s) = leido[s]

\* Only the daily reading of the catalogue changes what a dispatch is charged:
\* neither an offer, nor the file of the importer, nor a new day does
\* (offer.rb:20, product.rb:12, stock.rb:212).
PrecioSoloPorLectura ==
    [][\A s \in Skus : price_prod(s)' # price_prod(s) =>
           t.pc = "productos" /\ s \in t.cola]_vars

\* As long as nobody rewrites the file, every line gone past is in the price
\* table exactly once, however often the file was read before and wherever the
\* readings were cut short; only a line whose own query or insert was refused in
\* this reading may be missing, and that one is not there twice either
\* (product.rb:7-17).
TablaFiel ==
    t.pc = "precios" /\ t.quieto =>
        \A k \in 1..t.n :
            LET f == Fila(archivo[k])
                veces == Cardinality({n \in DOMAIN tabla : tabla[n] = f})
            IN  veces <= 1 /\ (f \notin t.errores => veces = 1)
=============================================================================
