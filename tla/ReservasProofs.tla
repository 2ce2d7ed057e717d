--------------------------- MODULE ReservasProofs ---------------------------
(***************************************************************************)
(* Theorems about Reservas, for any sheets, imports, days and window.      *)
(***************************************************************************)
EXTENDS Reservas, FiniteSetTheorems, TLAPS

-----------------------------------------------------------------------------
(* Type correctness *)

LEMMA MontoNat == \A n \in Montos : n \in Nat
BY ReservasAssumption

LEMMA Vacios ==
    /\ Parado \in Imports /\ NingunaE \in Entrada
    /\ SinUso \in [pc: {"libre", "escribir"}, clave: Clave, used: Nat]
<1>1. \E e \in Entrada : TRUE
  <2>1. PICK k \in Clave : TRUE  BY ReservasAssumption
  <2>2. PICK n \in Montos : TRUE  BY ReservasAssumption
  <2>3. <<k, n>> \in Entrada  BY DEF Entrada
  <2> QED BY <2>3
<1>2. NingunaE \in Entrada  BY <1>1 DEF NingunaE
<1>3. (CHOOSE k \in Clave : TRUE) \in Clave  BY ReservasAssumption
<1>4. 0 \in 0..MaxDia  BY ReservasAssumption
<1> QED BY <1>2, <1>3, <1>4 DEF Parado, SinUso, Imports

LEMMA UsadoNat ==
    ASSUME NEW f \in Fila, NEW n \in Montos
    PROVE  Usado(f, n) \in Nat
<1>1. f.used \in Nat /\ f.monto \in Nat /\ n \in Nat  BY MontoNat DEF Fila
<1> QED BY <1>1 DEF Usado

LEMMA InitTypeOK == Init => TypeOK
<1> SUFFICES ASSUME Init PROVE TypeOK  OBVIOUS
<1>1. 0 \in 0..MaxDia /\ 0 \in 0..MaxCambios /\ 0 \in 0..MaxImportes
  BY ReservasAssumption
<1>2. PICK H \in Hojas : hoja = [fecha |-> 0, filas |-> H]  BY DEF Init
<1>3. H \subseteq Entrada  BY ReservasAssumption DEF Entrada
<1>4. hojas \subseteq (0..MaxDia) \X Entrada  BY <1>1, <1>2, <1>3 DEF Init
<1>5. hoja \in [fecha: 0..MaxDia, filas: SUBSET Entrada]  BY <1>1, <1>2, <1>3
<1>6. imp \in [Importador -> Imports]  BY Vacios DEF Init
<1>7. uso \in [pc: {"libre", "escribir"}, clave: Clave, used: Nat]
  BY Vacios DEF Init
<1>8. filas \in Seq(Fila)  BY DEF Init
<1> QED BY <1>1, <1>4, <1>5, <1>6, <1>7, <1>8 DEF Init, TypeOK

LEMMA NextTypeOK == TypeOK /\ [Next]_vars => TypeOK'
<1> SUFFICES ASSUME TypeOK, [Next]_vars PROVE TypeOK'  OBVIOUS
<1> USE Vacios DEF TypeOK, historia
<1>a. /\ MaxDia \in Nat /\ MaxCambios \in Nat /\ MaxImportes \in Nat
      /\ Hojas \subseteq SUBSET (Clave \X Montos)
  BY ReservasAssumption
<1> USE <1>a
<1>1. CASE CambiarHoja
  <2>1. PICK H \in Hojas : /\ hoja' = [fecha |-> hoy, filas |-> H]
                           /\ hojas' = hojas \cup {<<hoy, e>> : e \in H}
    BY <1>1 DEF CambiarHoja
  <2>2. H \subseteq Entrada  BY DEF Entrada
  <2>3. hoja' \in [fecha: 0..MaxDia, filas: SUBSET Entrada]  BY <2>1, <2>2
  <2>4. hojas' \subseteq (0..MaxDia) \X Entrada  BY <2>1, <2>2
  <2>5. rota' \in BOOLEAN /\ cambios' \in 0..MaxCambios  BY <1>1 DEF CambiarHoja
  <2> QED BY <1>1, <2>3, <2>4, <2>5 DEF CambiarHoja
<1>2. CASE NuevoDia  BY <1>2 DEF NuevoDia
<1>3. ASSUME NEW i \in Importador, LeerFecha(i) PROVE TypeOK'
  <2>1. [Parado EXCEPT !.pc = "filas", !.fecha = hoja.fecha, !.dia = hoy] \in Imports
    BY DEF Imports
  <2>2. imp' \in [Importador -> Imports]  BY <1>3, <2>1 DEF LeerFecha
  <2>3. importes' \in 0..MaxImportes /\ solape' \in BOOLEAN  BY <1>3 DEF LeerFecha
  <2> QED BY <1>3, <2>2, <2>3 DEF LeerFecha
<1>4. ASSUME NEW i \in Importador, LeerFilas(i) PROVE TypeOK'
  <2>1. [imp[i] EXCEPT !.pc = "fila", !.cola = hoja.filas, !.leidas = hoja.filas]
            \in Imports
    BY DEF Imports
  <2>2. imp' \in [Importador -> Imports]  BY <1>4, <2>1 DEF LeerFilas
  <2> QED BY <1>4, <2>2 DEF LeerFilas
<1>5. ASSUME NEW i \in Importador, NEW e \in Entrada, BuscarIgual(i, e) PROVE TypeOK'
  BY <1>5 DEF BuscarIgual, Imports
<1>6. ASSUME NEW i \in Importador, BuscarVigente(i) PROVE TypeOK'
  <2> DEFINE r == [imp[i] EXCEPT !.pc = "fila", !.e = NingunaE,
                                 !.cola = imp[i].cola \ {imp[i].e}]
             q == [imp[i] EXCEPT !.pc = "crear"]
  <2>1. r \in Imports /\ q \in Imports  BY DEF Imports
  <2>2. imp' = [imp EXCEPT ![i] = r] \/ imp' = [imp EXCEPT ![i] = q]
    BY <1>6 DEF BuscarVigente, TrasRescate
  <2>3. imp' \in [Importador -> Imports]  BY <2>1, <2>2
  <2> QED BY <1>6, <2>3 DEF BuscarVigente
<1>12. ASSUME NEW i \in Importador, NEW e \in Entrada, Rescatar(i, e) PROVE TypeOK'
  <2> DEFINE r == [imp[i] EXCEPT !.pc = "fila", !.cola = imp[i].cola \ {e},
                                 !.fallidas = imp[i].fallidas \cup {e}, !.e = NingunaE]
  <2>1. r \in Imports  BY DEF Imports
  <2>2. imp' = [imp EXCEPT ![i] = r]  BY <1>12 DEF Rescatar, TrasRescate
  <2>3. imp' \in [Importador -> Imports]  BY <2>1, <2>2
  <2> QED BY <1>12, <2>3 DEF Rescatar
<1>7. ASSUME NEW i \in Importador, Crear(i) PROVE TypeOK'
  <2>1. FilaNueva(i) \in Fila  BY DEF FilaNueva, Fila, Imports, Entrada
  <2>2. filas' \in Seq(Fila)  BY <1>7, <2>1 DEF Crear
  <2>3. imp' \in [Importador -> Imports]
    <3>1. [imp[i] EXCEPT !.pc = "fila", !.cola = imp[i].cola \ {imp[i].e},
                         !.e = NingunaE] \in Imports
      BY DEF Imports
    <3>2. imp' = [imp EXCEPT ![i].pc = "fila", ![i].cola = imp[i].cola \ {imp[i].e},
                             ![i].e = NingunaE]
      BY <1>7 DEF Crear
    <3> QED BY <3>1, <3>2
  <2> QED BY <1>7, <2>2, <2>3 DEF Crear
<1>8. ASSUME NEW i \in Importador, Terminar(i) \/ Fallar(i) PROVE TypeOK'
  BY <1>8 DEF Terminar, Fallar
<1>9. ASSUME NEW k \in Clave, NEW n \in Montos, LeerReserva(k, n) PROVE TypeOK'
  <2>1. PICK m \in Vigentes(k) :
            uso' = [pc |-> "escribir", clave |-> k, used |-> Usado(filas[m], n)]
    BY <1>9 DEF LeerReserva
  <2>a. filas[m] \in Fila  BY DEF Vigentes
  <2>2. Usado(filas[m], n) \in Nat  BY <2>a, UsadoNat
  <2>3. uso' \in [pc: {"libre", "escribir"}, clave: Clave, used: Nat]
    BY <2>1, <2>2
  <2> QED BY <1>9, <2>2, <2>3 DEF LeerReserva
<1>10. CASE EscribirReserva
  <2>1. \A n \in DOMAIN filas : filas[n] \in Fila  OBVIOUS
  <2>a. uso.used \in Nat  OBVIOUS
  <2>b. \A f \in Fila : [f EXCEPT !.used = uso.used] \in Fila  BY <2>a DEF Fila
  <2>2. \A n \in DOMAIN filas : [filas[n] EXCEPT !.used = uso.used] \in Fila
    BY <2>1, <2>b
  <2>3. DOMAIN filas = 1..Len(filas) /\ Len(filas) \in Nat  OBVIOUS
  <2>4. filas' = [n \in DOMAIN filas |->
                    IF n \in Vigentes(uso.clave) THEN [filas[n] EXCEPT !.used = uso.used]
                                                 ELSE filas[n]]
    BY <1>10 DEF EscribirReserva
  <2>5. filas' \in [1..Len(filas) -> Fila]  BY <2>1, <2>2, <2>3, <2>4
  <2>6. filas' \in Seq(Fila)  BY <2>3, <2>5
  <2> QED BY <1>10, <2>6 DEF EscribirReserva
<1>11. CASE UNCHANGED vars  BY <1>11 DEF vars
<1> QED
  BY <1>1, <1>2, <1>3, <1>4, <1>5, <1>6, <1>7, <1>8, <1>9, <1>10, <1>11, <1>12
  DEF Next, Importa

\* Every state of the reservations is well typed; no use is negative.
THEOREM TypeCorrect == Spec => []TypeOK
<1> QED BY InitTypeOK, NextTypeOK, PTL DEF Spec

-----------------------------------------------------------------------------
(* What a step does to the table *)

\* Rows keep their place, date, pair and amount.
Conserva ==
    /\ DOMAIN filas \subseteq DOMAIN filas'
    /\ \A n \in DOMAIN filas :
           /\ filas'[n].fecha = filas[n].fecha
           /\ filas'[n].clave = filas[n].clave /\ filas'[n].monto = filas[n].monto

\* A row is added by Crear only, and used changes in EscribirReserva only.
LEMMA Tabla ==
    ASSUME TypeOK, [Next]_vars
    PROVE  /\ Conserva
           /\ \/ filas' = filas
              \/ \E i \in Importador : Crear(i)
              \/ EscribirReserva
<1>0. filas \in Seq(Fila) /\ DOMAIN filas = 1..Len(filas) /\ Len(filas) \in Nat
  BY DEF TypeOK
<1>1. ASSUME NEW i \in Importador, Crear(i) PROVE Conserva
  <2>1. filas' = Append(filas, FilaNueva(i))  BY <1>1 DEF Crear
  <2> QED BY <1>0, <2>1 DEF Conserva
<1>2. ASSUME EscribirReserva PROVE Conserva
  <2>1. filas' = [n \in DOMAIN filas |->
                    IF n \in Vigentes(uso.clave) THEN [filas[n] EXCEPT !.used = uso.used]
                                                 ELSE filas[n]]
    BY <1>2 DEF EscribirReserva
  <2>2. \A n \in DOMAIN filas : filas[n] \in Fila  BY <1>0
  <2>3. \A f \in Fila : /\ [f EXCEPT !.used = uso.used].fecha = f.fecha
                        /\ [f EXCEPT !.used = uso.used].clave = f.clave
                        /\ [f EXCEPT !.used = uso.used].monto = f.monto
    BY DEF Fila
  <2>4. DOMAIN filas' = DOMAIN filas  BY <2>1
  <2>5. ASSUME NEW n \in DOMAIN filas
        PROVE  /\ filas'[n].fecha = filas[n].fecha
               /\ filas'[n].clave = filas[n].clave
               /\ filas'[n].monto = filas[n].monto
    <3>1. filas'[n] = filas[n] \/ filas'[n] = [filas[n] EXCEPT !.used = uso.used]
      BY <2>1
    <3> QED BY <2>2, <2>3, <3>1
  <2>6. DOMAIN filas \subseteq DOMAIN filas'  BY <2>4
  <2>7. \A n \in DOMAIN filas :
            /\ filas'[n].fecha = filas[n].fecha
            /\ filas'[n].clave = filas[n].clave
            /\ filas'[n].monto = filas[n].monto
    BY <2>5
  <2> QED BY <2>6, <2>7 DEF Conserva
<1>3. ASSUME filas' = filas PROVE Conserva  BY <1>3 DEF Conserva
<1>4. \/ filas' = filas \/ EscribirReserva \/ \E i \in Importador : Crear(i)
  BY DEF Next, Importa, CambiarHoja, NuevoDia, LeerFecha, LeerFilas, BuscarIgual,
         BuscarVigente, Rescatar, Terminar, Fallar, LeerReserva, vars, historia
<1> QED BY <1>1, <1>2, <1>3, <1>4

\* An append adds one row.
LEMMA TrasCrear ==
    ASSUME TypeOK, NEW i \in Importador, Crear(i)
    PROVE  /\ DOMAIN filas' = DOMAIN filas \cup {Len(filas) + 1}
           /\ filas'[Len(filas) + 1] = FilaNueva(i)
           /\ \A n \in DOMAIN filas : filas'[n] = filas[n]
           /\ hoy' = hoy
           /\ \A k : k # imp[i].e[1] => Vigentes(k)' = Vigentes(k)
           /\ \A k : Vigentes(k) \subseteq Vigentes(k)'
           /\ \A k : Vigentes(k)' \subseteq Vigentes(k) \cup {Len(filas) + 1}
<1>1. filas \in Seq(Fila) /\ DOMAIN filas = 1..Len(filas) /\ Len(filas) \in Nat
  BY DEF TypeOK
<1>2. filas' = Append(filas, FilaNueva(i)) /\ hoy' = hoy  BY DEF Crear
<1>3. /\ DOMAIN filas' = DOMAIN filas \cup {Len(filas) + 1}
      /\ filas'[Len(filas) + 1] = FilaNueva(i)
      /\ \A n \in DOMAIN filas : filas'[n] = filas[n]
  BY <1>1, <1>2
<1>4. FilaNueva(i).clave = imp[i].e[1]  BY DEF FilaNueva
<1> QED BY <1>2, <1>3, <1>4 DEF Vigentes

-----------------------------------------------------------------------------
(* How old a row is *)

\* An import works on a date and rows that the sheet had together.
Fechada ==
    /\ NoMasVieja
    /\ \A e \in hoja.filas : <<hoja.fecha, e>> \in hojas
    /\ \A i \in Importador :
           /\ imp[i].pc \in {"vigente", "crear"} => imp[i].e \in imp[i].leidas
           /\ ~rota => /\ imp[i].pc = "filas" => imp[i].fecha = hoja.fecha
                       /\ imp[i].pc \in {"fila", "vigente", "crear"} =>
                              \A e \in imp[i].leidas : <<imp[i].fecha, e>> \in hojas
           /\ imp[i].cola \subseteq imp[i].leidas

LEMMA NextFechada == TypeOK /\ Fechada /\ [Next]_vars => Fechada'
<1> SUFFICES ASSUME TypeOK, Fechada, [Next]_vars PROVE Fechada'  OBVIOUS
<1>0. imp \in [Importador -> Imports]  BY DEF TypeOK
<1> USE <1>0 DEF Fechada, Imports
<1>1. CASE CambiarHoja
  <2>1. PICK H \in Hojas : /\ hoja' = [fecha |-> hoy, filas |-> H]
                           /\ hojas' = hojas \cup {<<hoy, e>> : e \in H}
    BY <1>1 DEF CambiarHoja
  <2> QED BY <1>1, <2>1 DEF CambiarHoja, NoMasVieja
<1>2. CASE NuevoDia  BY <1>2 DEF NuevoDia, NoMasVieja
<1>3. ASSUME NEW i \in Importador, LeerFecha(i) PROVE Fechada'
  BY <1>3 DEF LeerFecha, NoMasVieja, Parado
<1>4. ASSUME NEW i \in Importador, LeerFilas(i) PROVE Fechada'
  BY <1>4 DEF LeerFilas, NoMasVieja, historia
<1>5. ASSUME NEW i \in Importador, NEW e \in Entrada, BuscarIgual(i, e) PROVE Fechada'
  BY <1>5 DEF BuscarIgual, NoMasVieja, historia
<1>6. ASSUME NEW i \in Importador, BuscarVigente(i) PROVE Fechada'
  BY <1>6 DEF BuscarVigente, TrasRescate, NoMasVieja, historia
<1>12. ASSUME NEW i \in Importador, NEW e \in Entrada, Rescatar(i, e) PROVE Fechada'
  BY <1>12 DEF Rescatar, TrasRescate, NoMasVieja, historia
<1>7. ASSUME NEW i \in Importador, Crear(i) PROVE Fechada'
  <2>1. imp[i].pc = "crear" /\ rota' = rota /\ hojas' = hojas
    BY <1>7 DEF Crear, historia
  <2>2. <<imp[i].e[1], imp[i].e[2]>> = imp[i].e  BY DEF Entrada
  <2>3. NoMasVieja'
    <3> DEFINE N == Len(filas) + 1
    <3>0. filas'[N] = FilaNueva(i)  BY <1>7, TrasCrear
    <3>1. /\ filas'[N].fecha = imp[i].fecha
          /\ filas'[N].clave = imp[i].e[1] /\ filas'[N].monto = imp[i].e[2]
      <4>1. /\ FilaNueva(i).fecha = imp[i].fecha
            /\ FilaNueva(i).clave = imp[i].e[1] /\ FilaNueva(i).monto = imp[i].e[2]
        BY DEF FilaNueva
      <4> QED BY <3>0, <4>1
    <3>2. ~rota => <<filas'[N].fecha, <<filas'[N].clave, filas'[N].monto>>>> \in hojas
      BY <2>1, <2>2, <3>1
    <3>3. /\ DOMAIN filas' = DOMAIN filas \cup {N}
          /\ \A n \in DOMAIN filas : filas'[n] = filas[n]
      BY <1>7, TrasCrear
    <3> HIDE DEF N
    <3> QED BY <2>1, <3>2, <3>3 DEF NoMasVieja
  <2> QED BY <1>7, <2>1, <2>3 DEF Crear, historia
<1>8. ASSUME NEW i \in Importador, Terminar(i) \/ Fallar(i) PROVE Fechada'
  BY <1>8 DEF Terminar, Fallar, Parado, NoMasVieja, historia
<1>9. ASSUME NEW k \in Clave, NEW n \in Montos, LeerReserva(k, n) PROVE Fechada'
  BY <1>9 DEF LeerReserva, NoMasVieja, historia
<1>10. CASE EscribirReserva
  <2>1. DOMAIN filas' = DOMAIN filas  BY <1>10 DEF EscribirReserva
  <2>2. NoMasVieja'
    BY <1>10, <2>1, Tabla DEF Conserva, NoMasVieja, EscribirReserva, historia
  <2> QED BY <1>10, <2>2 DEF EscribirReserva, historia
<1>11. CASE UNCHANGED vars  BY <1>11 DEF vars, NoMasVieja
<1> QED
  BY <1>1, <1>2, <1>3, <1>4, <1>5, <1>6, <1>7, <1>8, <1>9, <1>10, <1>11, <1>12
  DEF Next, Importa

LEMMA InitFechada == Init => Fechada
BY DEF Init, Fechada, NoMasVieja, Parado

\* A row has the date and the amount that the sheet had together, unless it was
\* replaced between the two reads of an import.
THEOREM NoMasViejaSiempre == Spec => []NoMasVieja
<1>1. Fechada => NoMasVieja  BY DEF Fechada
<1> QED BY <1>1, TypeCorrect, InitFechada, NextFechada, PTL DEF Spec


-----------------------------------------------------------------------------
(* How many rows count *)

\* Without overlap one import runs at most, what it is about to create does not
\* count yet, and one row of a pair counts at most.
Unica ==
    ~solape =>
        /\ \A i, j \in Importador : Corriendo(i) /\ Corriendo(j) => i = j
        /\ \A i \in Importador : imp[i].pc = "crear" => Vigentes(imp[i].e[1]) = {}
        /\ \A k \in Clave : \A m, n \in Vigentes(k) : m = n

LEMMA NextUnica == TypeOK /\ Unica /\ [Next]_vars => Unica'
<1> SUFFICES ASSUME TypeOK, Unica, [Next]_vars PROVE Unica'  OBVIOUS
<1>0. imp \in [Importador -> Imports] /\ hoy \in Nat /\ Ventana \in Nat
  BY ReservasAssumption DEF TypeOK
<1>a. \A e \in Entrada : e[1] \in Clave  BY DEF Entrada
<1> USE <1>0 DEF Unica, Imports, Corriendo
<1>1. CASE CambiarHoja
  <2>1. \A k : Vigentes(k)' = Vigentes(k)
    BY <1>1 DEF CambiarHoja, Vigentes
  <2> QED BY <1>1, <2>1 DEF CambiarHoja
<1>2. CASE NuevoDia
  <2>1. \A k : Vigentes(k)' \subseteq Vigentes(k)
    <3>1. filas' = filas /\ hoy' = hoy + 1  BY <1>2 DEF NuevoDia
    <3>2. \A n \in DOMAIN filas : filas[n].fecha \in Nat
      <4>1. \A n \in DOMAIN filas : filas[n] \in Fila  BY DEF TypeOK
      <4>2. \A f \in Fila : f.fecha \in Nat  BY DEF Fila
      <4> QED BY <4>1, <4>2
    <3> QED BY <3>1, <3>2 DEF Vigentes
  <2> QED BY <1>2, <2>1 DEF NuevoDia
<1>3. ASSUME NEW i \in Importador, LeerFecha(i) PROVE Unica'
  <2>1. \A k : Vigentes(k)' = Vigentes(k)  BY <1>3 DEF LeerFecha, Vigentes
  <2>2. ~solape' => ~solape /\ \A j \in Importador : ~Corriendo(j)
    BY <1>3 DEF LeerFecha, TypeOK
  <2>3. \A j \in Importador \ {i} : imp'[j] = imp[j]  BY <1>3 DEF LeerFecha
  <2>4. imp'[i].pc = "filas"  BY <1>3 DEF LeerFecha, Parado
  <2> QED BY <2>1, <2>2, <2>3, <2>4
<1>4. ASSUME NEW i \in Importador, LeerFilas(i) PROVE Unica'
  BY <1>4 DEF LeerFilas, Vigentes, historia
<1>5. ASSUME NEW i \in Importador, NEW e \in Entrada, BuscarIgual(i, e) PROVE Unica'
  BY <1>5 DEF BuscarIgual, Vigentes, historia
<1>6. ASSUME NEW i \in Importador, BuscarVigente(i) PROVE Unica'
  BY <1>6 DEF BuscarVigente, TrasRescate, Vigente, Vigentes, historia
<1>12. ASSUME NEW i \in Importador, NEW e \in Entrada, Rescatar(i, e) PROVE Unica'
  BY <1>12 DEF Rescatar, TrasRescate, Vigentes, historia
<1>7. ASSUME NEW i \in Importador, Crear(i) PROVE Unica'
  <2>1. /\ imp[i].pc = "crear" /\ solape' = solape /\ imp'[i].pc = "fila"
        /\ \A j \in Importador \ {i} : imp'[j] = imp[j]
    BY <1>7 DEF Crear, historia
  <2>2. ~solape => \A j \in Importador : imp'[j].pc # "crear"  BY <2>1
  <2>3. ~solape => \A k \in Clave : \A m, n \in Vigentes(k)' : m = n
    <3>1. ~solape => Vigentes(imp[i].e[1]) = {}  BY <2>1
    <3> QED BY <1>7, <3>1, TrasCrear
  <2>4. ~solape => \A j, k \in Importador :
                       imp'[j].pc # "libre" /\ imp'[k].pc # "libre" => j = k
    BY <2>1
  <2> QED BY <2>1, <2>2, <2>3, <2>4
<1>8. ASSUME NEW i \in Importador, Terminar(i) \/ Fallar(i) PROVE Unica'
  BY <1>8 DEF Terminar, Fallar, Parado, Vigentes, historia
<1>9. ASSUME NEW k \in Clave, NEW n \in Montos, LeerReserva(k, n) PROVE Unica'
  BY <1>9 DEF LeerReserva, Vigentes, historia
<1>10. CASE EscribirReserva
  <2>1. \A k : Vigentes(k)' = Vigentes(k)
    <3>1. DOMAIN filas' = DOMAIN filas /\ hoy' = hoy  BY <1>10 DEF EscribirReserva
    <3> QED BY <3>1, Tabla DEF Conserva, Vigentes
  <2> QED BY <1>10, <2>1 DEF EscribirReserva, historia
<1>11. CASE UNCHANGED vars  BY <1>11 DEF vars, Vigentes
<1> QED
  BY <1>1, <1>2, <1>3, <1>4, <1>5, <1>6, <1>7, <1>8, <1>9, <1>10, <1>11, <1>12
  DEF Next, Importa

LEMMA InitUnica == Init => Unica
BY DEF Init, Unica, Parado, Corriendo, Vigentes

\* A reservation counts once unless two imports overlapped.
THEOREM UnaSiempre == Spec => []UnaVigente
<1>1. Unica => UnaVigente
  <2> SUFFICES ASSUME Unica, ~solape, NEW k \in Clave
               PROVE  Cardinality(Vigentes(k)) <= 1
    BY DEF UnaVigente
  <2>1. CASE Vigentes(k) = {}  BY <2>1, FS_EmptySet
  <2>2. CASE Vigentes(k) # {}
    <3>1. PICK n \in Vigentes(k) : TRUE  BY <2>2
    <3>2. Vigentes(k) = {n}  BY <3>1 DEF Unica
    <3>3. Cardinality({n}) = 1  BY FS_Singleton
    <3> QED BY <3>2, <3>3
  <2> QED BY <2>1, <2>2
<1> QED BY <1>1, TypeCorrect, InitUnica, NextUnica, PTL DEF Spec


-----------------------------------------------------------------------------
(* The uses *)

\* What is about to be written lies between what the row that counts has used
\* and its amount.
EnUso ==
    ~solape /\ ~cruce =>
        /\ \A n \in DOMAIN filas : filas[n].used <= filas[n].monto
        /\ uso.pc = "escribir" => \E n \in Vigentes(uso.clave) :
               filas[n].used <= uso.used /\ uso.used <= filas[n].monto

\* A write sets rows to a number that is no less than they had and no more than
\* they may have.
LEMMA Escritura ==
    ASSUME TypeOK, Unica, EnUso, EscribirReserva, ~solape, ~cruce
    PROVE  \A n \in DOMAIN filas :
               filas[n].used <= filas'[n].used /\ filas'[n].used <= filas[n].monto
<1>1. uso.clave \in Clave /\ uso.used \in Nat /\ uso.pc = "escribir"
  BY DEF TypeOK, EscribirReserva
<1>2. PICK m \in Vigentes(uso.clave) :
          filas[m].used <= uso.used /\ uso.used <= filas[m].monto
  BY <1>1 DEF EnUso
<1>3. \A n \in Vigentes(uso.clave) : n = m  BY <1>1, <1>2 DEF Unica
<1>4. \A n \in DOMAIN filas : filas[n] \in Fila  BY DEF TypeOK
<1>5. \A f \in Fila : f.used \in Nat /\ [f EXCEPT !.used = uso.used].used = uso.used
  BY DEF Fila
<1>6. \A n \in DOMAIN filas :
          filas'[n] = IF n \in Vigentes(uso.clave)
                      THEN [filas[n] EXCEPT !.used = uso.used] ELSE filas[n]
  BY DEF EscribirReserva
<1> SUFFICES ASSUME NEW n \in DOMAIN filas
             PROVE  filas[n].used <= filas'[n].used /\ filas'[n].used <= filas[n].monto
  OBVIOUS
<1>7. CASE n \in Vigentes(uso.clave)
  <2>1. filas'[n].used = uso.used  BY <1>4, <1>5, <1>6, <1>7
  <2> QED BY <1>2, <1>3, <1>7, <2>1
<1>8. CASE n \notin Vigentes(uso.clave)
  <2>1. filas'[n] = filas[n] /\ filas[n].used \in Nat  BY <1>4, <1>5, <1>6, <1>8
  <2> QED BY <2>1 DEF EnUso
<1> QED BY <1>7, <1>8

\* The history of the disturbances only grows.
LEMMA Historia ==
    ASSUME TypeOK, [Next]_vars
    PROVE  (~solape' => ~solape) /\ (~cruce' => ~cruce)
<1>0. solape \in BOOLEAN /\ cruce \in BOOLEAN  BY DEF TypeOK
<1>1. ASSUME NEW i \in Importador, Importa(i) \/ Fallar(i)
      PROVE  (~solape' => ~solape) /\ cruce' = cruce
  BY <1>0, <1>1 DEF Importa, LeerFecha, LeerFilas, BuscarIgual, BuscarVigente,
                    Rescatar, Crear, Terminar, Fallar, historia
<1>2. ASSUME \/ CambiarHoja \/ NuevoDia \/ EscribirReserva \/ UNCHANGED vars
             \/ \E k \in Clave, n \in Montos : LeerReserva(k, n)
      PROVE  solape' = solape /\ (~cruce' => ~cruce)
  BY <1>0, <1>2 DEF CambiarHoja, NuevoDia, EscribirReserva, LeerReserva, vars, historia
<1> QED BY <1>1, <1>2 DEF Next

LEMMA NextEnUso == TypeOK /\ Unica /\ EnUso /\ [Next]_vars => EnUso'
<1> SUFFICES ASSUME TypeOK, Unica, EnUso, [Next]_vars, ~solape', ~cruce'
             PROVE  EnUso'
  BY DEF EnUso
<1>0. ~solape /\ ~cruce  BY Historia
<1>a. /\ \A n \in DOMAIN filas : filas[n].used <= filas[n].monto
      /\ uso.pc = "escribir" => \E n \in Vigentes(uso.clave) :
             filas[n].used <= uso.used /\ uso.used <= filas[n].monto
  BY <1>0 DEF EnUso
<1>1. ASSUME NEW i \in Importador, Crear(i) PROVE EnUso'
  <2> DEFINE N == Len(filas) + 1
  <2>1. filas'[N].used <= filas'[N].monto
    <3>1. imp[i].e[2] \in Nat  BY MontoNat DEF TypeOK, Imports, Entrada
    <3>2. FilaNueva(i).used = 0 /\ FilaNueva(i).monto = imp[i].e[2]  BY DEF FilaNueva
    <3>3. filas'[N] = FilaNueva(i)  BY <1>1, TrasCrear
    <3> QED BY <3>1, <3>2, <3>3
  <2>2. /\ DOMAIN filas' = DOMAIN filas \cup {N}
        /\ \A n \in DOMAIN filas : filas'[n] = filas[n]
        /\ \A k : Vigentes(k) \subseteq Vigentes(k)'
    BY <1>1, TrasCrear
  <2>3. uso' = uso  BY <1>1 DEF Crear
  <2>4. \A k : Vigentes(k) \subseteq DOMAIN filas  BY DEF Vigentes
  <2> HIDE DEF N
  <2> QED BY <1>a, <2>1, <2>2, <2>3, <2>4 DEF EnUso
<1>2. CASE EscribirReserva
  <2>1. uso'.pc = "libre" /\ DOMAIN filas' = DOMAIN filas
    BY <1>2 DEF EscribirReserva, SinUso
  <2>2. \A n \in DOMAIN filas : filas'[n].used <= filas[n].monto
    BY <1>0, <1>2, Escritura
  <2>3. \A n \in DOMAIN filas : filas'[n].monto = filas[n].monto
    BY Tabla DEF Conserva
  <2> QED BY <2>1, <2>2, <2>3 DEF EnUso
<1>3. ASSUME NEW k \in Clave, NEW c \in Montos, LeerReserva(k, c) PROVE EnUso'
  <2>1. filas' = filas /\ hoy' = hoy  BY <1>3 DEF LeerReserva
  <2>2. PICK n \in Vigentes(k) :
            uso' = [pc |-> "escribir", clave |-> k, used |-> Usado(filas[n], c)]
    BY <1>3 DEF LeerReserva
  <2>3. filas[n].used \in Nat /\ filas[n].monto \in Nat /\ c \in Nat
    <3>1. n \in DOMAIN filas  BY DEF Vigentes
    <3>2. filas[n] \in Fila  BY <3>1 DEF TypeOK
    <3> QED BY <3>2, MontoNat DEF Fila
  <2>4. filas[n].used <= filas[n].monto  BY <1>a DEF Vigentes
  <2>5. filas[n].used <= Usado(filas[n], c) /\ Usado(filas[n], c) <= filas[n].monto
    BY <2>3, <2>4 DEF Usado
  <2>7. uso'.clave = k /\ uso'.used = Usado(filas[n], c)  BY <2>2
  <2>8. n \in Vigentes(uso.clave)'  BY <2>1, <2>7 DEF Vigentes
  <2> QED BY <1>a, <2>1, <2>5, <2>7, <2>8 DEF EnUso
<1>4. CASE NuevoDia
  <2>1. filas' = filas /\ uso' = uso /\ uso.pc = "libre"
    BY <1>4 DEF NuevoDia, TypeOK
  <2> QED BY <1>a, <2>1 DEF EnUso
<1>5. CASE /\ filas' = filas /\ hoy' = hoy /\ uso' = uso
  <2>1. \A k : Vigentes(k)' = Vigentes(k)  BY <1>5 DEF Vigentes
  <2> QED BY <1>a, <1>5, <2>1 DEF EnUso
<1>6. \/ \E i \in Importador : Crear(i)
      \/ EscribirReserva
      \/ \E k \in Clave, c \in Montos : LeerReserva(k, c)
      \/ NuevoDia
      \/ filas' = filas /\ hoy' = hoy /\ uso' = uso
  <2>1. ASSUME NEW i \in Importador, Importa(i) \/ Fallar(i)
        PROVE  Crear(i) \/ (filas' = filas /\ hoy' = hoy /\ uso' = uso)
    BY <2>1 DEF Importa, LeerFecha, LeerFilas, BuscarIgual, BuscarVigente, Rescatar,
                Terminar, Fallar
  <2>2. CambiarHoja \/ UNCHANGED vars => filas' = filas /\ hoy' = hoy /\ uso' = uso
    BY DEF CambiarHoja, vars
  <2> QED BY <2>1, <2>2 DEF Next
<1> QED BY <1>1, <1>2, <1>3, <1>4, <1>5, <1>6

LEMMA InitEnUso == Init => EnUso
BY DEF Init, EnUso, SinUso

\* Uses never exceed the amount, unless imports overlapped or midnight came in
\* between.
THEOREM UsoSiempre == Spec => []UsoAcotado
<1>1. EnUso => UsoAcotado  BY DEF EnUso, UsoAcotado
<1> QED BY <1>1, TypeCorrect, InitUnica, NextUnica, InitEnUso, NextEnUso, PTL DEF Spec

\* Nor does a row ever lose a use.
THEOREM NoVuelveSiempre == Spec => UsoNoVuelve
<1> DEFINE Crece == ~solape' /\ ~cruce' =>
                        \A n \in DOMAIN filas : filas'[n].used >= filas[n].used
<1>1. TypeOK /\ Unica /\ EnUso /\ [Next]_vars => [Crece]_vars
  <2> SUFFICES ASSUME TypeOK, Unica, EnUso, [Next]_vars, ~solape', ~cruce',
                      NEW n \in DOMAIN filas
               PROVE  filas'[n].used >= filas[n].used
    OBVIOUS
  <2>1. filas[n].used \in Nat
    <3>1. filas[n] \in Fila  BY DEF TypeOK
    <3> QED BY <3>1 DEF Fila
  <2>2. CASE EscribirReserva
    <3>1. filas[n].used <= filas'[n].used  BY <2>2, Historia, Escritura
    <3>2. filas'[n].used \in Nat
      <4>1. TypeOK'  BY NextTypeOK
      <4>2. n \in DOMAIN filas'  BY Tabla DEF Conserva
      <4>3. filas'[n] \in Fila  BY <4>1, <4>2 DEF TypeOK
      <4> QED BY <4>3 DEF Fila
    <3> QED BY <2>1, <3>1, <3>2
  <2>3. CASE filas' = filas  BY <2>1, <2>3
  <2>4. ASSUME NEW i \in Importador, Crear(i) PROVE filas'[n].used >= filas[n].used
    BY <2>1, <2>4, TrasCrear
  <2> QED BY <2>2, <2>3, <2>4, Tabla
<1> QED
  BY <1>1, TypeCorrect, InitUnica, NextUnica, InitEnUso, NextEnUso, PTL
  DEF Spec, UsoNoVuelve


-----------------------------------------------------------------------------
(* What an import leaves behind *)

\* The pair of e has a row that counted when the import began, or e itself.
Tiene(i, e) ==
    \E n \in DOMAIN filas :
        /\ filas[n].clave = e[1]
        /\ \/ filas[n].fecha >= imp[i].dia - Ventana
           \/ filas[n].fecha = imp[i].fecha /\ filas[n].monto = e[2]

\* So have all entries that an import is through with and that did not fail.
Hechas(r) == r.leidas \ (r.cola \cup r.fallidas)

Importado ==
    \A i \in Importador :
        /\ imp[i].dia <= hoy
        /\ imp[i].pc \in {"fila", "vigente", "crear"} =>
               \A e \in Hechas(imp[i]) : Tiene(i, e)

LEMMA TieneSigue ==
    ASSUME TypeOK, [Next]_vars, NEW i \in Importador, NEW e, Tiene(i, e),
           imp'[i].dia = imp[i].dia, imp'[i].fecha = imp[i].fecha
    PROVE  Tiene(i, e)'
BY Tabla DEF Tiene, Conserva

LEMMA NextImportado == TypeOK /\ Importado /\ [Next]_vars => Importado'
<1> SUFFICES ASSUME TypeOK, Importado, [Next]_vars, NEW i \in Importador
             PROVE  /\ imp'[i].dia <= hoy'
                    /\ imp'[i].pc \in {"fila", "vigente", "crear"} =>
                           \A e \in Hechas(imp'[i]) : Tiene(i, e)'
  BY DEF Importado
<1>0. /\ imp \in [Importador -> Imports] /\ hoy \in Nat /\ Ventana \in Nat
      /\ imp[i] \in Imports /\ imp[i].dia \in Nat /\ imp[i].dia <= hoy
      /\ imp[i].pc \in {"fila", "vigente", "crear"} =>
             \A e \in Hechas(imp[i]) : Tiene(i, e)
  BY ReservasAssumption DEF TypeOK, Imports, Importado
<1> DEFINE Igual == /\ imp'[i].dia = imp[i].dia /\ imp'[i].fecha = imp[i].fecha
                    /\ imp'[i].leidas = imp[i].leidas /\ hoy' = hoy
                    /\ imp'[i].fallidas = imp[i].fallidas
<1>1. CASE imp'[i] = imp[i]
  <2>a. hoy' = hoy \/ hoy' = hoy + 1
    BY DEF Next, Importa, CambiarHoja, NuevoDia, LeerFecha, LeerFilas,
       BuscarIgual, BuscarVigente, Rescatar, Crear, Terminar, Fallar, LeerReserva,
       EscribirReserva, vars, historia
  <2>1. hoy' \in Nat /\ hoy <= hoy'  BY <1>0, <2>a
  <2> QED BY <1>0, <1>1, <2>1, TieneSigue
<1>2. CASE LeerFecha(i)
  <2>1. imp'[i] = [Parado EXCEPT !.pc = "filas", !.fecha = hoja.fecha, !.dia = hoy]
    BY <1>0, <1>2 DEF LeerFecha
  <2>2. imp'[i].pc = "filas" /\ imp'[i].dia = hoy /\ hoy' = hoy
    BY <1>2, <2>1 DEF Parado, LeerFecha
  <2> QED BY <1>0, <2>2
<1>3. CASE LeerFilas(i)
  <2>1. /\ imp'[i].cola = hoja.filas /\ imp'[i].leidas = hoja.filas
        /\ imp'[i].dia = imp[i].dia /\ hoy' = hoy
    BY <1>0, <1>3 DEF LeerFilas, Imports
  <2> QED BY <1>0, <2>1 DEF Hechas
<1>4. ASSUME NEW e \in Entrada, BuscarIgual(i, e)
      PROVE  /\ imp'[i].dia <= hoy'
             /\ imp'[i].pc \in {"fila", "vigente", "crear"} =>
                    \A d \in Hechas(imp'[i]) : Tiene(i, d)'
  <2>1. Igual /\ imp[i].pc = "fila"
    BY <1>0, <1>4 DEF BuscarIgual, Imports
  <2>2. imp'[i].cola = imp[i].cola \/ (YaEsta(i, e) /\ imp'[i].cola = imp[i].cola \ {e})
    BY <1>0, <1>4 DEF BuscarIgual, Imports
  <2>3. YaEsta(i, e) => Tiene(i, e)  BY DEF YaEsta, Tiene
  <2> QED BY <1>0, <2>1, <2>2, <2>3, TieneSigue DEF Hechas
<1>5. CASE BuscarVigente(i)
  <2>1. Igual /\ imp[i].pc = "vigente"  BY <1>0, <1>5 DEF BuscarVigente, Imports
  <2>2. \/ imp'[i].cola = imp[i].cola
        \/ Vigente(i) /\ imp'[i].cola = imp[i].cola \ {imp[i].e}
    BY <1>0, <1>5 DEF BuscarVigente, TrasRescate, Imports
  <2>3. Vigente(i) => Tiene(i, imp[i].e)
    <3>1. \A n \in DOMAIN filas : filas[n].fecha \in Nat
      <4>1. \A n \in DOMAIN filas : filas[n] \in Fila  BY DEF TypeOK
      <4>2. \A f \in Fila : f.fecha \in Nat  BY DEF Fila
      <4> QED BY <4>1, <4>2
    <3> QED BY <1>0, <3>1 DEF Vigente, Vigentes, Tiene
  <2> QED BY <1>0, <2>1, <2>2, <2>3, TieneSigue DEF Hechas
<1>6. CASE Crear(i)
  <2>1. Igual /\ imp[i].pc = "crear" /\ imp'[i].cola = imp[i].cola \ {imp[i].e}
    BY <1>0, <1>6 DEF Crear, Imports
  <2>2. Tiene(i, imp[i].e)'
    <3>1. /\ FilaNueva(i).clave = imp[i].e[1] /\ FilaNueva(i).fecha = imp[i].fecha
          /\ FilaNueva(i).monto = imp[i].e[2]
      BY DEF FilaNueva
    <3>2. \E n \in DOMAIN filas' : filas'[n] = FilaNueva(i)  BY <1>6, TrasCrear
    <3>3. \E n \in DOMAIN filas' :
              /\ filas'[n].clave = imp[i].e[1] /\ filas'[n].fecha = imp[i].fecha
              /\ filas'[n].monto = imp[i].e[2]
      BY <3>1, <3>2
    <3>4. imp'[i].fecha = imp[i].fecha /\ imp'[i].e = imp[i].e
      BY <1>0, <1>6 DEF Crear, Imports
    <3> QED BY <3>3, <3>4 DEF Tiene
  <2>3. imp'[i].e = imp[i].e  BY <1>0, <1>6 DEF Crear, Imports
  <2> QED BY <1>0, <2>1, <2>2, <2>3, TieneSigue DEF Hechas
<1>10. ASSUME NEW e \in Entrada, Rescatar(i, e)
       PROVE  /\ imp'[i].dia <= hoy'
              /\ imp'[i].pc \in {"fila", "vigente", "crear"} =>
                     \A d \in Hechas(imp'[i]) : Tiene(i, d)'
  <2>1. /\ imp'[i].dia = imp[i].dia /\ imp'[i].fecha = imp[i].fecha /\ hoy' = hoy
        /\ imp'[i].leidas = imp[i].leidas /\ imp'[i].cola = imp[i].cola \ {e}
        /\ imp'[i].fallidas = imp[i].fallidas \cup {e}
        /\ imp[i].pc \in {"fila", "vigente", "crear"}
    BY <1>0, <1>10 DEF Rescatar, TrasRescate, Imports
  <2>2. Hechas(imp'[i]) \subseteq Hechas(imp[i])  BY <2>1 DEF Hechas
  <2> QED BY <1>0, <2>1, <2>2, TieneSigue
<1>7. CASE Terminar(i) \/ Fallar(i)
  <2>1. imp'[i].pc = "libre" /\ imp'[i].dia = 0 /\ hoy' = hoy
    BY <1>0, <1>7 DEF Terminar, Fallar, Parado
  <2> QED BY <1>0, <2>1
<1>8. ASSUME NEW j \in Importador \ {i}, Importa(j) \/ Fallar(j)
      PROVE  imp'[i] = imp[i]
  BY <1>0, <1>8 DEF Importa, LeerFecha, LeerFilas, BuscarIgual, BuscarVigente, Rescatar,
                    Crear, Terminar, Fallar
<1>9. CASE ~\E j \in Importador : Importa(j) \/ Fallar(j)
  BY <1>1, <1>9
  DEF Next, CambiarHoja, NuevoDia, LeerReserva, EscribirReserva, vars
<1> QED
  BY <1>1, <1>2, <1>3, <1>4, <1>5, <1>6, <1>7, <1>8, <1>9, <1>10 DEF Importa

LEMMA InitImportado == Init => Importado
BY DEF Init, Importado, Parado

\* An entry of the sheet is kept out by a failure of its own only, never by
\* another one that raises.
THEOREM ImportaSiempre == Spec => []ImportaTodo
<1>1. Importado => ImportaTodo  BY DEF Importado, ImportaTodo, Tiene, Hechas
<1> QED BY <1>1, TypeCorrect, InitImportado, NextImportado, PTL DEF Spec

=============================================================================
