------------------------------ MODULE Ingreso -------------------------------
(***************************************************************************)
(* The import of orders from the SFTP server: Sftp.orders.  The task       *)
(* my_task10 runs it (Schedule.new_orders) and so does every GET /sftps    *)
(* (SftpsController#index): imports overlap.  They create the order and    *)
(* its lines one statement at a time, in no transaction, and nothing       *)
(* rescues what they raise.                                                *)
(***************************************************************************)
EXTENDS Integers, FiniteSets, SequencesExt

CONSTANTS
    Importador,   \* the threads and tasks that import
    Archivo,      \* the files pedido_<n>.xml
    Otros,        \* the other entries of the directory
    Linea,        \* the lines of all files
    ArchivoDe,    \* the file of each line
    MaxFallos     \* bound: how often an import is stopped half way

ASSUME IngresoAssumption ==
    /\ IsFiniteSet(Importador) /\ IsFiniteSet(Archivo) /\ IsFiniteSet(Otros)
    /\ Archivo \cap Otros = {}
    /\ ArchivoDe \in [Linea -> Archivo] /\ MaxFallos \in Nat

VARIABLES
    remoto,   \* the files that are on the server
    filas,    \* how many rows of FileOrder each order has,
    lineas,   \* and how many of Order each line
    t,        \* the local state of each import
    solape,   \* history: whether two imports ever ran at the same time
    fallos    \* history: how often an import was stopped half way

vars == <<remoto, filas, lineas, t, solape, fallos>>

Estados ==
    [pc: {"libre", "mirar", "crear", "lineas"},
     lista: Seq(Archivo),       \* the entries left, the first is at hand
     todo: SUBSET Linea]        \* chld: the lines of the file not created yet

TypeOK ==
    /\ remoto \subseteq Archivo
    /\ filas \in [Archivo -> Nat] /\ lineas \in [Linea -> Nat]
    /\ t \in [Importador -> Estados]
    /\ \A i \in Importador : t[i].pc \in {"crear", "lineas"} =>
           /\ t[i].lista # <<>>
           /\ \A l \in t[i].todo : ArchivoDe[l] = Head(t[i].lista)
    /\ solape \in BOOLEAN /\ fallos \in 0..MaxFallos

Ocioso == [pc |-> "libre", lista |-> <<>>, todo |-> {}]

Init ==
    /\ remoto = {}
    /\ filas = [f \in Archivo |-> 0] /\ lineas = [l \in Linea |-> 0]
    /\ t = [i \in Importador |-> Ocioso]
    /\ solape = FALSE /\ fallos = 0

-----------------------------------------------------------------------------

Llegar(f) ==
    /\ f \notin remoto
    /\ remoto' = remoto \cup {f}
    /\ UNCHANGED <<filas, lineas, t, solape, fallos>>

\* What an import may look at when the files R are on the server, in the order
\* of its listing: not the first three entries (count > 2), and none from the
\* first name on that is not split into a number: that ends the import.
Listados(R) ==
    LET n == Max({Cardinality(R) - 3, 0})
    IN  UNION {SetToSeqs(S) : S \in {S \in SUBSET R :
            IF Otros = {} THEN Cardinality(S) = n ELSE Cardinality(S) <= n}}

Listar(i) ==
    /\ t[i].pc = "libre"
    /\ \E s \in Listados(remoto) :
           t' = [t EXCEPT ![i].pc = "mirar", ![i].lista = s]
    /\ solape' = (solape \/ \E j \in Importador \ {i} : t[j].pc # "libre")
    /\ UNCHANGED <<remoto, filas, lineas, fallos>>

ExisteNunca(f) == FALSE    \* (mutant) the check for the order is left out
existe(f) == filas[f] > 0

MirarYAvanzar(i) ==    \* (mutant) the loop goes on before the file is imported
    /\ t[i].pc = "mirar" /\ t[i].lista # <<>>
    /\ LET f == Head(t[i].lista) IN
       t' = [t EXCEPT ![i].lista = Tail(@),
                      ![i].pc = IF existe(f) THEN "mirar" ELSE "crear",
                      ![i].todo = {l \in Linea : ArchivoDe[l] = f /\ ~existe(f)}]
    /\ UNCHANGED <<remoto, filas, lineas, solape, fallos>>

\* FileOrder.exists?; the file is read and parsed when the order is new.
Mirar(i) ==
    /\ t[i].pc = "mirar" /\ t[i].lista # <<>>
    /\ LET f == Head(t[i].lista) IN
       t' = IF existe(f)
            THEN [t EXCEPT ![i].lista = Tail(@)]
            ELSE [t EXCEPT ![i].pc = "crear",
                           ![i].todo = {l \in Linea : ArchivoDe[l] = f}]
    /\ UNCHANGED <<remoto, filas, lineas, solape, fallos>>

CrearPedido(i) ==
    /\ t[i].pc = "crear"
    /\ filas' = [filas EXCEPT ![Head(t[i].lista)] = @ + 1]
    /\ t' = [t EXCEPT ![i].pc = "lineas"]
    /\ UNCHANGED <<remoto, lineas, solape, fallos>>

CrearLinea(i, l) ==
    /\ t[i].pc = "lineas" /\ l \in t[i].todo
    /\ lineas' = [lineas EXCEPT ![l] = @ + 1]
    /\ t' = [t EXCEPT ![i].todo = @ \ {l}]
    /\ UNCHANGED <<remoto, filas, solape, fallos>>

SiguienteYa(i) ==    \* (mutant) moves on although a line is left
    /\ t[i].pc = "lineas" /\ Cardinality(t[i].todo) <= 1
    /\ t' = [t EXCEPT ![i].pc = "mirar", ![i].lista = Tail(@), ![i].todo = {}]
    /\ UNCHANGED <<remoto, filas, lineas, solape, fallos>>

Siguiente(i) ==
    /\ t[i].pc = "lineas" /\ t[i].todo = {}
    /\ t' = [t EXCEPT ![i].pc = "mirar", ![i].lista = Tail(@)]
    /\ UNCHANGED <<remoto, filas, lineas, solape, fallos>>

Terminar(i) ==
    /\ t[i].pc = "mirar" /\ t[i].lista = <<>>
    /\ t' = [t EXCEPT ![i] = Ocioso]
    /\ UNCHANGED <<remoto, filas, lineas, solape, fallos>>

\* A statement or a call raises, a file does not parse, the process is killed.
Fallar(i) ==
    /\ t[i].pc # "libre" /\ fallos < MaxFallos
    /\ t' = [t EXCEPT ![i] = Ocioso] /\ fallos' = fallos + 1
    /\ UNCHANGED <<remoto, filas, lineas, solape>>

Importar(i) ==
    \/ Listar(i) \/ Mirar(i) \/ CrearPedido(i) \/ Siguiente(i) \/ Terminar(i)
    \/ \E l \in Linea : CrearLinea(i, l)

Next ==
    \/ \E i \in Importador : Importar(i) \/ Fallar(i)
    \/ \E f \in Archivo : Llegar(f)

Spec == Init /\ [][Next]_vars

-----------------------------------------------------------------------------
(* Properties *)

\* An import is at a file it found no row for.
EnCurso(f) ==
    \E i \in Importador :
        t[i].pc \in {"crear", "lineas"} /\ Head(t[i].lista) = f

\* A line is never there without its order, and never more often than it: what
\* Schedule.main reads belongs to an order, whatever imports overlap or stop
\* (sftp.rb:41-48).
LineasConPedido == \A l \in Linea : lineas[l] <= filas[ArchivoDe[l]]

\* It has each of its lines as often as it has rows itself once no import is at
\* it, as long as no import was stopped (sftp.rb:43-48).
CompletoSinFallos ==
    /\ LineasConPedido
    /\ fallos = 0 =>
        \A l \in Linea : ~EnCurso(ArchivoDe[l]) => lineas[l] = filas[ArchivoDe[l]]

\* An order has a second row only when two imports overlapped, and never more
\* rows than there are imports at once (sftp.rb:23-41).
UnicoSinSolape ==
    \A f \in Archivo :
        /\ filas[f] <= Cardinality(Importador)
        /\ filas[f] > 1 => solape

\* Once an order has a row and no import is at it, no import gets at it again and
\* its rows and lines stay: a repeated import does not add to it, and one that
\* was stopped half way is never made up for (sftp.rb:23).
Definitivo ==
    [][\A f \in Archivo : filas[f] > 0 /\ ~EnCurso(f) =>
           /\ ~EnCurso(f)' /\ filas'[f] = filas[f]
           /\ \A l \in Linea : ArchivoDe[l] = f => lineas'[l] = lineas[l]]_vars
=============================================================================
