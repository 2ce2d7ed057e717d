---------------------------- MODULE PreciosProofs ---------------------------
(***************************************************************************)
(* Theorems about Precios, for any products, prices, files and days.       *)
(***************************************************************************)
EXTENDS Precios, FiniteSetTheorems, TLAPS

-----------------------------------------------------------------------------
(* Type correctness *)

LEMMA PrecioNat == \A p \in Precio : p \in Nat /\ p # 0
BY PreciosAssumption

LEMMA FilaTipo ==
    ASSUME NEW r \in Registro
    PROVE  Fila(r) \in Filas
<1>1. /\ r.sku \in Skus /\ r.precio \in Nat /\ r.desde \in Nat /\ r.hasta \in Nat
  <2>1. MaxDia \in Nat  BY PreciosAssumption
  <2> QED BY <2>1, PrecioNat DEF Registro
<1> QED BY <1>1 DEF Fila, Columna, Filas, Columnas

\* A line that is read is one of the file.
LEMMA LineaTipo ==
    ASSUME TypeOK, NEW n \in Nat, n < Len(archivo)
    PROVE  archivo[n + 1] \in Registro
<1>1. archivo \in Seq(Registro)  BY PreciosAssumption DEF TypeOK
<1> QED BY <1>1

LEMMA Anexo ==
    ASSUME NEW S, NEW q \in Seq(S), NEW e \in S
    PROVE  /\ Append(q, e) \in Seq(S)
           /\ Append(q, e) # <<>> /\ Len(Append(q, e)) \in DOMAIN Append(q, e)
           /\ Append(q, e)[Len(Append(q, e))] = e
           /\ \A m \in DOMAIN Append(q, e) :
                  (m \in DOMAIN q /\ Append(q, e)[m] = q[m]) \/ Append(q, e)[m] = e
OBVIOUS

LEMMA InitTypeOK == Init => TypeOK
<1> SUFFICES ASSUME Init PROVE TypeOK  OBVIOUS
<1>1. 0 \in 0..MaxDia /\ 0 \in 0..MaxCambios  BY PreciosAssumption
<1>2. [s \in Skus |-> {catalogo[s].normal}] \in [Skus -> SUBSET Precio]
  BY DEF Init, Par
<1> QED BY <1>1, <1>2 DEF Init, TypeOK, Ocioso

LEMMA NextTypeOK == TypeOK /\ [Next]_vars => TypeOK'
<1> SUFFICES ASSUME TypeOK, [Next]_vars PROVE TypeOK'  OBVIOUS
<1>a. MaxDia \in Nat /\ MaxCambios \in Nat  BY PreciosAssumption
<1> USE <1>a DEF TypeOK, Ocioso
<1>1. ASSUME NEW s \in Skus, CambiarCatalogo(s) PROVE TypeOK'
  <2>1. PICK p \in Par :
            /\ catalogo' = [catalogo EXCEPT ![s] = p]
            /\ vistos' = [vistos EXCEPT ![s] = @ \cup {p.normal}]
            /\ (vuelve' = vuelve \cup {s} \/ vuelve' = vuelve)
    BY <1>1 DEF CambiarCatalogo
  <2>2. p.normal \in Precio  BY DEF Par
  <2>3. vistos' \in [Skus -> SUBSET Precio]  BY <2>1, <2>2
  <2> QED BY <1>1, <2>1, <2>3 DEF CambiarCatalogo
<1>2. CASE RehacerArchivo
  <2>1. t' = [t EXCEPT !.quieto = (t.pc # "precios")] /\ (t.pc # "precios") \in BOOLEAN
    BY <1>2 DEF RehacerArchivo
  <2> QED BY <1>2, <2>1 DEF RehacerArchivo
<1>3. ASSUME NEW s \in Skus, NEW p \in Precio, Oferta(s, p) PROVE TypeOK'
  <2> DEFINE n == Len(web[s])  w == [web[s] EXCEPT ![n] = FilaEnOferta(web[s][n], p)]
  <2>1. web[s] \in Seq(Par) /\ n \in 1..Len(web[s])  BY <1>3 DEF Oferta
  <2>2. web[s][n] \in Par  BY <2>1
  <2>3. FilaEnOferta(web[s][n], p) \in Par  BY <2>2 DEF FilaEnOferta, Par
  <2>4. w \in Seq(Par)  BY <2>1, <2>3
  <2>5. web' = [web EXCEPT ![s] = w]  BY <1>3 DEF Oferta
  <2>6. cambios' \in 0..MaxCambios  BY <1>3 DEF Oferta
  <2> HIDE DEF w
  <2> QED BY <1>3, <2>4, <2>5, <2>6 DEF Oferta
<1>4. CASE NuevoDia  BY <1>4 DEF NuevoDia
<1>5. CASE Iniciar  BY <1>5 DEF Iniciar
<1>6. ASSUME NEW s \in Skus, LeerProducto(s) PROVE TypeOK'
  <2>1. catalogo[s] \in Par /\ catalogo[s].normal \in Precio  BY DEF Par
  <2>2. Append(web[s], catalogo[s]) \in Seq(Par)  BY <2>1
  <2>3. web' \in [Skus -> Seq(Par)]  BY <1>6, <2>2 DEF LeerProducto
  <2>4. leido' \in [Skus -> Precio \cup {0}]  BY <1>6, <2>1 DEF LeerProducto
  <2> QED BY <1>6, <2>3, <2>4 DEF LeerProducto
<1>7. CASE ProductosListos  BY <1>7 DEF ProductosListos
<1>8. CASE LeerLinea
  <2>1. Fila(archivo[t.n + 1]) \in Filas  BY <1>8, LineaTipo, FilaTipo DEF LeerLinea
  <2>2. tabla' = tabla \/ tabla' = Append(tabla, Fila(archivo[t.n + 1]))
    BY <1>8 DEF LeerLinea
  <2>3. tabla \in Seq(Filas)  BY DEF Filas
  <2>4. tabla' \in Seq(Filas)
    <3>1. Append(tabla, Fila(archivo[t.n + 1])) \in Seq(Filas)  BY <2>1, <2>3, Anexo
    <3> QED BY <2>2, <2>3, <3>1, Zenon
  <2>5. t' \in [pc: {"libre", "productos", "precios"}, cola: SUBSET Skus, n: Nat,
                errores: SUBSET Filas, quieto: BOOLEAN]
    <3>1. t.n \in Nat /\ t.n + 1 \in Nat  OBVIOUS
    <3>2. t' = [t EXCEPT !.n = t.n + 1]  BY <1>8 DEF LeerLinea
    <3> QED BY <3>1, <3>2
  <2> QED BY <1>8, <2>4, <2>5 DEF LeerLinea, Filas
<1>11. CASE LineaRechazada
  <2>1. Fila(archivo[t.n + 1]) \in Filas
    BY <1>11, LineaTipo, FilaTipo DEF LineaRechazada
  <2>2. t.n \in Nat /\ t.n + 1 \in Nat /\ t.errores \in SUBSET Filas  OBVIOUS
  <2>3. t' = [t EXCEPT !.n = t.n + 1,
                       !.errores = t.errores \cup {Fila(archivo[t.n + 1])}]
    BY <1>11 DEF LineaRechazada
  <2>4. t.errores \cup {Fila(archivo[t.n + 1])} \in SUBSET Filas  BY <2>1, <2>2
  <2>5. t' \in [pc: {"libre", "productos", "precios"}, cola: SUBSET Skus, n: Nat,
                errores: SUBSET Filas, quieto: BOOLEAN]
    BY <2>2, <2>3, <2>4
  <2> QED BY <1>11, <2>5 DEF LineaRechazada
<1>9. CASE TerminarArchivo \/ Fallar
  <2>1. CASE TerminarArchivo  BY <2>1 DEF TerminarArchivo
  <2>2. CASE Fallar  BY <2>2 DEF Fallar
  <2> QED BY <1>9, <2>1, <2>2
<1>10. CASE UNCHANGED vars  BY <1>10 DEF vars
<1> QED
  BY <1>1, <1>2, <1>3, <1>4, <1>5, <1>6, <1>7, <1>8, <1>9, <1>10, <1>11
  DEF Next, Tarea

\* Every state is well typed, however the files change.
THEOREM TypeCorrect == Spec => []TypeOK
<1> QED BY InitTypeOK, NextTypeOK, PTL DEF Spec

-----------------------------------------------------------------------------
(* The price of a dispatch *)

\* All columns of the price table have quotes: no row is ever valid.
Citada == \A n \in DOMAIN tabla : tabla[n].hasta.cita

LEMMA NextCitada == TypeOK /\ Citada /\ [Next]_vars => Citada'
<1> SUFFICES ASSUME TypeOK, Citada, [Next]_vars PROVE Citada'  OBVIOUS
<1>1. CASE tabla' = tabla  BY <1>1 DEF Citada
<1>2. CASE LeerLinea
  <2> DEFINE f == Fila(archivo[t.n + 1])
  <2>1. f.hasta.cita  BY DEF Fila, Columna
  <2>2. tabla \in Seq(Filas)  BY DEF TypeOK
  <2>3. tabla' = tabla \/ tabla' = Append(tabla, f)  BY <1>2 DEF LeerLinea
  <2> HIDE DEF f
  <2>4. \A n \in DOMAIN tabla' :
            (n \in DOMAIN tabla /\ tabla'[n] = tabla[n]) \/ tabla'[n] = f
    BY <2>2, <2>3
  <2> QED BY <2>1, <2>4 DEF Citada
<1>3. tabla' = tabla \/ LeerLinea
  BY DEF Next, Tarea, CambiarCatalogo, RehacerArchivo, Oferta, NuevoDia, Iniciar,
         LeerProducto, ProductosListos, LineaRechazada, TerminarArchivo, Fallar, vars
<1> QED BY <1>1, <1>2, <1>3

\* The price is then the normal one of the newest row of the catalogue.
LEMMA PrecioDeLaWeb ==
    ASSUME Citada, NEW s
    PROVE  price_prod(s) = IF web[s] # <<>> THEN web[s][Len(web[s])].normal ELSE 0
<1>1. Validas(s) = {}  BY DEF Validas, NoAntes, Citada
<1> QED BY <1>1 DEF price_prod

\* It is the one last read; while the normal price of a product does not return
\* to an earlier value, an old row of it cannot hide the newest one.
AlDia ==
    /\ Citada
    /\ \A s \in Skus :
           /\ catalogo[s].normal \in vistos[s]
           /\ \A n \in DOMAIN web[s] : web[s][n].normal \in vistos[s]
           /\ s \notin vuelve =>
                  /\ web[s] = <<>> => leido[s] = 0
                  /\ web[s] # <<>> => leido[s] = web[s][Len(web[s])].normal
                  /\ \A n \in DOMAIN web[s] :
                         web[s][n].normal = catalogo[s].normal
                             => web[s][Len(web[s])].normal = catalogo[s].normal

LEMMA NextAlDia == TypeOK /\ AlDia /\ [Next]_vars => AlDia'
<1> SUFFICES ASSUME TypeOK, AlDia, [Next]_vars PROVE AlDia'  OBVIOUS
<1>0. /\ catalogo \in [Skus -> Par] /\ web \in [Skus -> Seq(Par)]
      /\ leido \in [Skus -> Precio \cup {0}] /\ vistos \in [Skus -> SUBSET Precio]
  BY DEF TypeOK
<1>a. Citada'  BY NextCitada DEF AlDia
<1> USE <1>0, <1>a DEF AlDia
<1>1. ASSUME NEW s \in Skus, CambiarCatalogo(s) PROVE AlDia'
  <2>1. PICK p \in Par :
            /\ catalogo' = [catalogo EXCEPT ![s] = p]
            /\ vistos' = [vistos EXCEPT ![s] = @ \cup {p.normal}]
            /\ vuelve' = IF p.normal # catalogo[s].normal /\ p.normal \in vistos[s]
                         THEN vuelve \cup {s} ELSE vuelve
    BY <1>1 DEF CambiarCatalogo
  <2>2. web' = web /\ leido' = leido  BY <1>1 DEF CambiarCatalogo
  <2> QED BY <2>1, <2>2
<1>2. ASSUME NEW s \in Skus, NEW p \in Precio, Oferta(s, p) PROVE AlDia'
  <2> DEFINE n == Len(web[s])  w == [web[s] EXCEPT ![n] = FilaEnOferta(web[s][n], p)]
  <2>1. web[s] \in Seq(Par) /\ n \in 1..Len(web[s])  BY <1>2 DEF Oferta
  <2>2. web[s][n] \in Par  BY <2>1
  <2>3. FilaEnOferta(web[s][n], p).normal = web[s][n].normal
    BY <2>2 DEF FilaEnOferta, Par
  <2>4. /\ w # <<>> /\ Len(w) = n /\ DOMAIN w = DOMAIN web[s]
        /\ \A m \in DOMAIN w : w[m].normal = web[s][m].normal
    BY <2>1, <2>3
  <2>5. /\ web' = [web EXCEPT ![s] = w] /\ web[s] # <<>>
        /\ catalogo' = catalogo /\ vistos' = vistos /\ vuelve' = vuelve /\ leido' = leido
    BY <1>2 DEF Oferta
  <2>6. n \in DOMAIN w  BY <2>1
  <2> HIDE DEF w, n
  <2>7. /\ \A m \in DOMAIN w : w[m].normal \in vistos[s]
        /\ s \notin vuelve => /\ leido[s] = w[n].normal
                              /\ \A m \in DOMAIN w : w[m].normal = catalogo[s].normal
                                     => w[n].normal = catalogo[s].normal
    BY <2>4, <2>5, <2>6 DEF n
  <2> QED BY <2>4, <2>5, <2>7
<1>3. ASSUME NEW s \in Skus, LeerProducto(s) PROVE AlDia'
  <2>1. /\ leido' = [leido EXCEPT ![s] = catalogo[s].normal]
        /\ catalogo' = catalogo /\ vistos' = vistos /\ vuelve' = vuelve
    BY <1>3 DEF LeerProducto
  <2>2. CASE HayFila(s)
    <3>1. web' = web  BY <1>3, <2>2 DEF LeerProducto
    <3>2. PICK n \in DOMAIN web[s] : web[s][n] = catalogo[s]  BY <2>2 DEF HayFila
    <3>3. web[s] # <<>>  BY <3>2
    <3>4. s \notin vuelve => web[s][Len(web[s])].normal = catalogo[s].normal  BY <3>2
    <3> QED BY <2>1, <3>1, <3>3, <3>4
  <2>3. CASE ~HayFila(s)
    <3> DEFINE w == Append(web[s], catalogo[s])
    <3>1. web' = [web EXCEPT ![s] = w]  BY <1>3, <2>3 DEF LeerProducto
    <3>2. /\ w # <<>> /\ w[Len(w)] = catalogo[s]
          /\ \A m \in DOMAIN w : w[m] = catalogo[s]
                                 \/ (m \in DOMAIN web[s] /\ w[m] = web[s][m])
      <4>1. web[s] \in Seq(Par) /\ catalogo[s] \in Par  BY <1>0
      <4> QED BY <4>1, Anexo
    <3> HIDE DEF w
    <3> QED BY <2>1, <3>1, <3>2
  <2> QED BY <2>2, <2>3
<1>4. CASE UNCHANGED <<catalogo, web, leido, vistos, vuelve>>  BY <1>4
<1>5. \/ UNCHANGED <<catalogo, web, leido, vistos, vuelve>>
      \/ \E s \in Skus : \/ CambiarCatalogo(s) \/ LeerProducto(s)
                         \/ \E p \in Precio : Oferta(s, p)
  BY DEF Next, Tarea, RehacerArchivo, NuevoDia, Iniciar, ProductosListos, LeerLinea,
         LineaRechazada, TerminarArchivo, Fallar, vars
<1> QED BY <1>1, <1>2, <1>3, <1>4, <1>5

LEMMA InitAlDia == Init => AlDia
BY DEF Init, AlDia, Citada

\* A dispatch is charged at the normal price last read, for every product whose
\* price never returned to an earlier value.
THEOREM AlDiaSiempre == Spec => []PrecioAlDia
<1>1. AlDia => PrecioAlDia  BY PrecioDeLaWeb DEF AlDia, PrecioAlDia
<1> QED BY <1>1, TypeCorrect, InitAlDia, NextAlDia, PTL DEF Spec

\* Offers, the price file and the calendar do not change what is charged.
THEOREM LecturaSiempre == Spec => PrecioSoloPorLectura
<1> DEFINE Solo == \A s \in Skus : price_prod(s)' # price_prod(s) =>
                                       t.pc = "productos" /\ s \in t.cola
<1>1. TypeOK /\ Citada /\ [Next]_vars => [Solo]_vars
  <2> SUFFICES ASSUME TypeOK, Citada, [Next]_vars, NEW s \in Skus,
                      price_prod(s)' # price_prod(s)
               PROVE  t.pc = "productos" /\ s \in t.cola
    OBVIOUS
  <2>0. Citada'  BY NextCitada
  <2>a. price_prod(s) = IF web[s] # <<>> THEN web[s][Len(web[s])].normal ELSE 0
    BY PrecioDeLaWeb
  <2>b. price_prod(s)' = IF web'[s] # <<>> THEN web'[s][Len(web'[s])].normal ELSE 0
    <3>1. (Validas(s))' = {}  BY <2>0 DEF Validas, NoAntes, Citada
    <3> QED BY <3>1 DEF price_prod
  <2>c. web \in [Skus -> Seq(Par)]  BY DEF TypeOK
  <2>1. ASSUME NEW r \in Skus, NEW p \in Precio, Oferta(r, p) PROVE FALSE
    <3> DEFINE n == Len(web[r])  w == [web[r] EXCEPT ![n] = FilaEnOferta(web[r][n], p)]
    <3>1. web[r] \in Seq(Par) /\ n \in 1..Len(web[r])  BY <2>1, <2>c DEF Oferta
    <3>2. web[r][n] \in Par  BY <3>1
    <3>3. FilaEnOferta(web[r][n], p).normal = web[r][n].normal
      BY <3>2 DEF FilaEnOferta, Par
    <3>4. w # <<>> /\ web[r] # <<>> /\ Len(w) = n /\ w[n].normal = web[r][n].normal
      BY <3>1, <3>3
    <3>5. web' = [web EXCEPT ![r] = w]  BY <2>1 DEF Oferta
    <3> HIDE DEF w
    <3> QED BY <2>a, <2>b, <2>c, <3>4, <3>5
  <2>2. ASSUME NEW r \in Skus, LeerProducto(r)
        PROVE  t.pc = "productos" /\ s \in t.cola
    <3>1. r # s => web'[s] = web[s]  BY <2>2, <2>c DEF LeerProducto
    <3> QED BY <2>2, <2>a, <2>b, <3>1 DEF LeerProducto
  <2>3. CASE web' = web  BY <2>3, <2>a, <2>b
  <2>4. \/ web' = web
        \/ \E r \in Skus : LeerProducto(r) \/ \E p \in Precio : Oferta(r, p)
    BY DEF Next, Tarea, CambiarCatalogo, RehacerArchivo, NuevoDia, Iniciar,
           ProductosListos, LeerLinea, LineaRechazada, TerminarArchivo, Fallar, vars
  <2> QED BY <2>1, <2>2, <2>3, <2>4
<1>2. AlDia => Citada  BY DEF AlDia
<1> QED
  BY <1>1, <1>2, TypeCorrect, InitAlDia, NextAlDia, PTL DEF Spec, PrecioSoloPorLectura

-----------------------------------------------------------------------------
(* The price table *)

\* No row is there twice, and what was read of an untouched file is there or
\* was refused.
SinRepetir ==
    /\ \A m, n \in DOMAIN tabla : tabla[m] = tabla[n] => m = n
    /\ t.pc = "precios" /\ t.quieto =>
           \A k \in 1..t.n : \/ EnTabla(Fila(archivo[k]))
                             \/ Fila(archivo[k]) \in t.errores

LEMMA NextSinRepetir == TypeOK /\ SinRepetir /\ [Next]_vars => SinRepetir'
<1> SUFFICES ASSUME TypeOK, SinRepetir, [Next]_vars PROVE SinRepetir'  OBVIOUS
<1>0. t \in [pc: {"libre", "productos", "precios"}, cola: SUBSET Skus, n: Nat,
             errores: SUBSET Filas, quieto: BOOLEAN]
  BY DEF TypeOK
<1>1. CASE LeerLinea
  <2> DEFINE f == Fila(archivo[t.n + 1])
  <2>1. /\ tabla' = IF EnTabla(f) THEN tabla ELSE Append(tabla, f)
        /\ t'.n = t.n + 1 /\ t'.quieto = t.quieto /\ t.pc = "precios"
        /\ t'.errores = t.errores /\ archivo' = archivo
    BY <1>0, <1>1 DEF LeerLinea
  <2>2. tabla \in Seq(Filas)  BY DEF TypeOK
  <2>3. f \in Filas  BY <1>0, <1>1, LineaTipo, FilaTipo DEF LeerLinea
  <2> HIDE DEF f
  <2>4. /\ \E n \in DOMAIN tabla' : tabla'[n] = f
        /\ \A n \in DOMAIN tabla : n \in DOMAIN tabla' /\ tabla'[n] = tabla[n]
        /\ \A m, n \in DOMAIN tabla' : tabla'[m] = tabla'[n] => m = n
    <3>1. CASE EnTabla(f)
      <4>1. tabla' = tabla  BY <2>1, <3>1
      <4> QED BY <3>1, <4>1 DEF EnTabla, SinRepetir
    <3>2. CASE ~EnTabla(f)
      <4>0. tabla' = Append(tabla, f)  BY <2>1, <3>2
      <4>1. /\ DOMAIN tabla' = DOMAIN tabla \cup {Len(tabla) + 1}
            /\ tabla'[Len(tabla) + 1] = f
            /\ \A n \in DOMAIN tabla : tabla'[n] = tabla[n]
        BY <2>2, <2>3, <4>0
      <4> QED BY <3>2, <4>1 DEF EnTabla, SinRepetir
    <3> QED BY <3>1, <3>2
  <2>5. \A k \in 1..(t.n + 1) : k \in 1..t.n \/ k = t.n + 1  BY <1>0
  <2>6. ASSUME t.quieto, NEW k \in 1..(t.n + 1)
        PROVE  \/ \E n \in DOMAIN tabla' : tabla'[n] = Fila(archivo[k])
               \/ Fila(archivo[k]) \in t.errores
    <3>1. CASE k \in 1..t.n
      <4>1. EnTabla(Fila(archivo[k])) \/ Fila(archivo[k]) \in t.errores
        BY <2>1, <2>6, <3>1 DEF SinRepetir
      <4> QED BY <2>4, <4>1 DEF EnTabla
    <3>2. CASE k = t.n + 1  BY <2>4, <3>2 DEF f
    <3> QED BY <2>5, <3>1, <3>2
  <2>7. t'.quieto => \A k \in 1..t'.n : \/ EnTabla(Fila(archivo[k]))'
                                         \/ (Fila(archivo[k]) \in t.errores)'
    BY <2>1, <2>6 DEF EnTabla, Fila, Columna
  <2> QED BY <2>4, <2>7 DEF SinRepetir
<1>2. CASE RehacerArchivo
  <2>1. tabla' = tabla /\ t'.pc = t.pc /\ (t'.pc = "precios" => ~t'.quieto)
    BY <1>0, <1>2 DEF RehacerArchivo
  <2> QED BY <2>1 DEF SinRepetir
<1>3. CASE ProductosListos
  BY <1>3 DEF ProductosListos, Ocioso, SinRepetir
<1>4. CASE tabla' = tabla /\ t'.pc # "precios"  BY <1>4 DEF SinRepetir
<1>5. CASE UNCHANGED <<tabla, archivo, t>>  BY <1>5 DEF SinRepetir, EnTabla
<1>7. CASE LineaRechazada
  <2> DEFINE f == Fila(archivo[t.n + 1])
  <2>1. /\ tabla' = tabla /\ archivo' = archivo /\ t.pc = "precios"
        /\ t'.n = t.n + 1 /\ t'.quieto = t.quieto /\ t'.errores = t.errores \cup {f}
    BY <1>0, <1>7 DEF LineaRechazada
  <2>2. \A k \in 1..(t.n + 1) : k \in 1..t.n \/ k = t.n + 1  BY <1>0
  <2>3. ASSUME t.quieto, NEW k \in 1..(t.n + 1)
        PROVE  EnTabla(Fila(archivo[k])) \/ Fila(archivo[k]) \in t.errores \cup {f}
    <3>1. CASE k \in 1..t.n  BY <2>1, <2>3, <3>1 DEF SinRepetir
    <3>2. CASE k = t.n + 1  BY <3>2
    <3> QED BY <2>2, <3>1, <3>2
  <2> HIDE DEF f
  <2> QED BY <2>1, <2>3 DEF SinRepetir, EnTabla, Fila, Columna
<1>6. (tabla' = tabla /\ t'.pc # "precios") \/ UNCHANGED <<tabla, archivo, t>>
      \/ ProductosListos \/ RehacerArchivo \/ LeerLinea \/ LineaRechazada
  <2>1. ASSUME NEW s \in Skus, LeerProducto(s)
        PROVE  tabla' = tabla /\ t'.pc # "precios"
    BY <1>0, <2>1 DEF LeerProducto
  <2>2. ASSUME Iniciar \/ TerminarArchivo \/ Fallar
        PROVE  tabla' = tabla /\ t'.pc # "precios"
    <3>1. CASE Iniciar  BY <3>1 DEF Iniciar, Ocioso
    <3>2. CASE TerminarArchivo  BY <3>2 DEF TerminarArchivo, Ocioso
    <3>3. CASE Fallar  BY <3>3 DEF Fallar, Ocioso
    <3> QED BY <2>2, <3>1, <3>2, <3>3
  <2>3. ASSUME \/ NuevoDia \/ UNCHANGED vars
               \/ \E s \in Skus : CambiarCatalogo(s) \/ \E p \in Precio : Oferta(s, p)
        PROVE  UNCHANGED <<tabla, archivo, t>>
    BY <2>3 DEF NuevoDia, CambiarCatalogo, Oferta, vars
  <2> QED BY <2>1, <2>2, <2>3 DEF Next, Tarea
<1> QED BY <1>1, <1>2, <1>3, <1>4, <1>5, <1>6, <1>7

LEMMA InitSinRepetir == Init => SinRepetir
BY DEF Init, SinRepetir, Ocioso

\* A line gone past is in the table exactly once, or it was refused and is there
\* at most once.
THEOREM TablaSiempre == Spec => []TablaFiel
<1>1. SinRepetir => TablaFiel
  <2> SUFFICES ASSUME SinRepetir, t.pc = "precios", t.quieto, NEW k \in 1..t.n,
                      NEW f, f = Fila(archivo[k]), NEW c,
                      c = Cardinality({n \in DOMAIN tabla : tabla[n] = f})
               PROVE  c <= 1 /\ (f \notin t.errores => c = 1)
    BY DEF TablaFiel
  <2>1. CASE EnTabla(f)
    <3>1. PICK n \in DOMAIN tabla : tabla[n] = f  BY <2>1 DEF EnTabla
    <3>2. {m \in DOMAIN tabla : tabla[m] = f} = {n}  BY <3>1 DEF SinRepetir
    <3>3. Cardinality({n}) = 1  BY FS_Singleton
    <3> QED BY <3>2, <3>3
  <2>2. CASE ~EnTabla(f)
    <3>1. {n \in DOMAIN tabla : tabla[n] = f} = {}  BY <2>2 DEF EnTabla
    <3>2. c = 0  BY <3>1, FS_EmptySet
    <3>3. f \in t.errores  BY <2>2 DEF SinRepetir
    <3> QED BY <3>2, <3>3
  <2> QED BY <2>1, <2>2
<1> QED BY <1>1, TypeCorrect, InitSinRepetir, NextSinRepetir, PTL DEF Spec

=============================================================================
