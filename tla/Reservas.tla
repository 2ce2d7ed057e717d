------------------------------ MODULE Reservas ------------------------------
(***************************************************************************)
(* The reservations of clients (app/models/gdoc.rb).  Gdoc.obtain_info     *)
(* copies a spreadsheet into the table Reservation; my_task3 runs it every *)
(* ten minutes and Schedule.new_reservations once a day, so two imports    *)
(* may overlap.  Gdoc.use_reservation is what Schedule.main calls for each *)
(* line it prepares.  Each read of the sheet and each statement is a step. *)
(***************************************************************************)
EXTENDS Integers, Sequences, FiniteSets

CONSTANTS
    Importador,   \* the tasks that import
    Diario,       \* the one of them that then runs Schedule.main
    Clave,        \* the (product, client) pairs
    Montos,       \* the amounts a client may reserve
    Hojas,        \* the contents of the sheet: its (pair, amount) entries
    Ventana,      \* how many days a row counts (7 in the code)
    MaxDia,       \* bound: the last day
    MaxCambios,   \* bound: how often the sheet is replaced
    MaxImportes   \* bound: how many imports are started

ASSUME ReservasAssumption ==
    /\ Diario \in Importador
    /\ Clave # {} /\ Montos # {} /\ Montos \subseteq Nat \ {0}
    /\ Hojas \subseteq SUBSET (Clave \X Montos)
    /\ \A H \in Hojas : \A d, e \in H : d[1] = e[1] => d = e    \* a pair once
    /\ Ventana \in Nat /\ MaxDia \in Nat /\ MaxCambios \in Nat /\ MaxImportes \in Nat

VARIABLES
    hoy,      \* Date.current
    hoja,     \* the sheet: its date and the amount of each pair in it
    filas,    \* the rows of Reservation, in the order of their ids
    imp,      \* the local state of each import
    uso,      \* the local state of use_reservation
    cambios,  \* history: how often the sheet was replaced
    importes, \* history: how many imports were started
    hojas,    \* history: the (date, pair, amount) entries the sheet has had
    solape,   \* history: two imports were running at once
    rota,     \* history: the sheet changed between two reads of an import
    cruce     \* history: midnight fell between two statements of a use

vars == <<hoy, hoja, filas, imp, uso, cambios, importes, hojas, solape, rota, cruce>>
historia == <<cambios, importes, hojas, solape, rota, cruce>>

Entrada == Clave \X Montos
Fila == [fecha: 0..MaxDia, clave: Clave, monto: Montos, used: Nat]
Imports == [pc: {"libre", "filas", "fila", "vigente", "crear"},
            fecha: 0..MaxDia, dia: 0..MaxDia,    \* @datee, and when it was read
            cola: SUBSET Entrada, leidas: SUBSET Entrada,   \* @rows left, and all
            e: Entrada,                                     \* the one at hand
            fallidas: SUBSET Entrada]    \* history: those a statement of which raised

TypeOK ==
    /\ hoy \in 0..MaxDia
    /\ hoja \in [fecha: 0..MaxDia, filas: SUBSET Entrada]
    /\ filas \in Seq(Fila)
    /\ imp \in [Importador -> Imports]
    /\ uso \in [pc: {"libre", "escribir"}, clave: Clave, used: Nat]
    /\ cambios \in 0..MaxCambios /\ importes \in 0..MaxImportes
    /\ hojas \subseteq (0..MaxDia) \X Entrada
    /\ solape \in BOOLEAN /\ rota \in BOOLEAN /\ cruce \in BOOLEAN

NingunaE == CHOOSE e \in Entrada : TRUE    \* between two entries
Parado == [pc |-> "libre", fecha |-> 0, dia |-> 0, cola |-> {}, leidas |-> {},
           e |-> NingunaE, fallidas |-> {}]
SinUso == [pc |-> "libre", clave |-> CHOOSE k \in Clave : TRUE, used |-> 0]

Init ==
    /\ hoy = 0
    /\ \E H \in Hojas : hoja = [fecha |-> 0, filas |-> H]
    /\ filas = <<>>
    /\ imp = [i \in Importador |-> Parado] /\ uso = SinUso
    /\ cambios = 0 /\ importes = 0 /\ hojas = {<<0, e>> : e \in hoja.filas}
    /\ solape = FALSE /\ rota = FALSE /\ cruce = FALSE

Corriendo(i) == imp[i].pc # "libre"

-----------------------------------------------------------------------------
(* The sheet and the calendar *)

\* The owner of the sheet replaces it: today's date, other reservations.
CambiarHoja ==
    /\ cambios < MaxCambios /\ cambios' = cambios + 1
    /\ \E H \in Hojas :
           /\ hoja' = [fecha |-> hoy, filas |-> H]
           /\ hojas' = hojas \cup {<<hoy, e>> : e \in H}
    /\ rota' = (rota \/ \E i \in Importador : imp[i].pc = "filas")
    /\ UNCHANGED <<hoy, filas, imp, uso, importes, solape, cruce>>

NuevoDia ==
    /\ hoy < MaxDia
    /\ hoy' = hoy + 1
    /\ cruce' = (cruce \/ uso.pc # "libre")
    /\ UNCHANGED <<hoja, filas, imp, uso, cambios, importes, hojas, solape, rota>>

-----------------------------------------------------------------------------
(* Gdoc.obtain_info *)

\* The rows of a pair that count today, by their place in the table.
Vigentes(k) == {n \in DOMAIN filas : filas[n].clave = k /\ filas[n].fecha >= hoy - Ventana}

\* Gdoc.obtain_date and Gdoc.obtain_rows open the sheet one after the other.
LeerFecha(i) ==
    /\ importes < MaxImportes /\ importes' = importes + 1
    /\ imp[i].pc = "libre" /\ (i = Diario => uso.pc = "libre")
    /\ imp' = [imp EXCEPT ![i] = [Parado EXCEPT !.pc = "filas", !.fecha = hoja.fecha,
                                                !.dia = hoy]]
    /\ solape' = (solape \/ \E j \in Importador : Corriendo(j))
    /\ UNCHANGED <<hoy, hoja, filas, uso, cambios, hojas, rota, cruce>>

LeerFilas(i) ==
    /\ imp[i].pc = "filas"
    /\ imp' = [imp EXCEPT ![i].pc = "fila", ![i].cola = hoja.filas,
                          ![i].leidas = hoja.filas]
    /\ UNCHANGED <<hoy, hoja, filas, uso, historia>>

\* The row is there already, with this date and amount.
YaEsta(i, e) == \E n \in DOMAIN filas :
    /\ filas[n].fecha = imp[i].fecha
    /\ filas[n].clave = e[1] /\ filas[n].monto = e[2]

BuscarIgual(i, e) ==
    /\ imp[i].pc = "fila" /\ e \in imp[i].cola
    /\ imp' = IF YaEsta(i, e) THEN [imp EXCEPT ![i].cola = @ \ {e}]
                              ELSE [imp EXCEPT ![i].pc = "vigente", ![i].e = e]
    /\ UNCHANGED <<hoy, hoja, filas, uso, historia>>

TrasError(i, e) == {}    \* (mutant) the rescue is around the loop
SinMirar(i) == FALSE     \* (mutant) the rows of the last days are not looked at

\* The entries left after one that raised: its rescue is inside the loop.
TrasRescate(i, e) == imp[i].cola \ {e}

\* Another row of the pair counts still.  The branch that would update it
\* names variables that do not exist: it raises and changes nothing.
Vigente(i) == Vigentes(imp[i].e[1]) # {}

BuscarVigente(i) ==
    /\ imp[i].pc = "vigente"
    /\ imp' = IF Vigente(i)
              THEN [imp EXCEPT ![i].pc = "fila", ![i].e = NingunaE,
                               ![i].cola = TrasRescate(i, imp[i].e)]
              ELSE [imp EXCEPT ![i].pc = "crear"]
    /\ UNCHANGED <<hoy, hoja, filas, uso, historia>>

FilaDeHoy(i) == [fecha |-> hoy, clave |-> imp[i].e[1],    \* (mutant) today's date
                 monto |-> imp[i].e[2], used |-> 0]
FilaNueva(i) == [fecha |-> imp[i].fecha, clave |-> imp[i].e[1],
                 monto |-> imp[i].e[2], used |-> 0]

Crear(i) ==
    /\ imp[i].pc = "crear"
    /\ filas' = Append(filas, FilaNueva(i))
    /\ imp' = [imp EXCEPT ![i].pc = "fila", ![i].cola = @ \ {imp[i].e},
                          ![i].e = NingunaE]
    /\ UNCHANGED <<hoy, hoja, uso, historia>>

\* Any statement about an entry may raise before that: the date that cannot be
\* parsed and the query of BuscarIgual, the query of BuscarVigente, the create
\* of Crear.  The rescue skips the entry and the next one is taken.
Rescatar(i, e) ==
    /\ \/ imp[i].pc = "fila" /\ e \in imp[i].cola
       \/ imp[i].pc \in {"vigente", "crear"} /\ e = imp[i].e
    /\ imp' = [imp EXCEPT ![i].pc = "fila", ![i].cola = TrasRescate(i, e),
                          ![i].fallidas = @ \cup {e}, ![i].e = NingunaE]
    /\ UNCHANGED <<hoy, hoja, filas, uso, historia>>

Terminar(i) ==
    /\ imp[i].pc = "fila" /\ imp[i].cola = {}
    /\ imp' = [imp EXCEPT ![i] = Parado]
    /\ UNCHANGED <<hoy, hoja, filas, uso, historia>>

\* The sheet cannot be read, or the process is killed.
Fallar(i) ==
    /\ Corriendo(i)
    /\ imp' = [imp EXCEPT ![i] = Parado]
    /\ UNCHANGED <<hoy, hoja, filas, uso, historia>>

-----------------------------------------------------------------------------
(* Gdoc.use_reservation *)

UsadoSinTope(r, cant) == r.used + cant  \* (mutant)
UsadoAhora(r, cant) ==                  \* (mutant) forgets the earlier uses
    IF cant < r.monto - r.used THEN cant ELSE r.monto - r.used

\* What a row will have used: at most its amount.
Usado(r, cant) == IF cant < r.monto - r.used THEN cant + r.used ELSE r.monto

\* The newest row that counts is read, and what it will have used is computed;
\* without one nothing is done.
LeerReserva(k, cant) ==
    /\ uso.pc = "libre" /\ ~Corriendo(Diario)
    /\ \E n \in Vigentes(k) :
           /\ \A m \in Vigentes(k) : m <= n
           /\ uso' = [pc |-> "escribir", clave |-> k, used |-> Usado(filas[n], cant)]
    /\ UNCHANGED <<hoy, hoja, filas, imp, historia>>

\* All rows that count by then get it.
EscribirReserva ==
    /\ uso.pc = "escribir"
    /\ filas' = [n \in DOMAIN filas |->
                    IF n \in Vigentes(uso.clave) THEN [filas[n] EXCEPT !.used = uso.used]
                                                 ELSE filas[n]]
    /\ uso' = SinUso
    /\ UNCHANGED <<hoy, hoja, imp, historia>>

Importa(i) ==
    \/ LeerFecha(i) \/ LeerFilas(i) \/ BuscarVigente(i) \/ Crear(i) \/ Terminar(i)
    \/ \E e \in Entrada : BuscarIgual(i, e) \/ Rescatar(i, e)

Next ==
    \/ CambiarHoja \/ NuevoDia \/ EscribirReserva
    \/ \E i \in Importador : Importa(i) \/ Fallar(i)
    \/ \E k \in Clave, cant \in Montos : LeerReserva(k, cant)

Spec == Init /\ [][Next]_vars

-----------------------------------------------------------------------------
(* Properties *)

\* One row at most counts for a pair, so that return_reservation counts what a
\* client reserved once, unless two imports overlapped (gdoc.rb:73-78, 93).
UnaVigente == ~solape => \A k \in Clave : Cardinality(Vigentes(k)) <= 1

\* No row has more used than reserved, although one write sets all rows of the
\* pair, unless imports overlapped or the rows that count changed at midnight
\* between the read and the write (gdoc.rb:106-113).
UsoAcotado ==
    ~solape /\ ~cruce => \A n \in DOMAIN filas : filas[n].used <= filas[n].monto

\* What a row has used never shrinks, with the same exceptions: no import sets
\* it back, and no late write undoes a use.
UsoNoVuelve ==
    [][~solape' /\ ~cruce' =>
           \A n \in DOMAIN filas : filas'[n].used >= filas[n].used]_vars

\* A row that counts has the amount that the sheet of its date had, so it is
\* Ventana days behind the sheet at most; only a sheet replaced between the
\* two reads of an import breaks this (gdoc.rb:67-78).
NoMasVieja ==
    ~rota => \A n \in DOMAIN filas :
        <<filas[n].fecha, <<filas[n].clave, filas[n].monto>>>> \in hojas

\* Of the entries an import has gone past, each one has a row that counted when
\* the import began or that is exactly the entry, except those a statement of
\* which failed itself: an entry that raises, in the branch that updates or in
\* any other statement, keeps no other one out (gdoc.rb:70-87).
ImportaTodo ==
    \A i \in Importador : imp[i].pc = "fila" =>
        \A e \in imp[i].leidas \ (imp[i].cola \cup imp[i].fallidas) :
            \E n \in DOMAIN filas :
                /\ filas[n].clave = e[1]
                /\ \/ filas[n].fecha >= imp[i].dia - Ventana
                   \/ filas[n].fecha = imp[i].fecha /\ filas[n].monto = e[2]
=============================================================================
