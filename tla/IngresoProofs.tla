--------------------------- MODULE IngresoProofs ----------------------------
(***************************************************************************)
(* Theorems about Ingreso, for any number of imports, files and lines and  *)
(* any number of stops.                                                    *)
(***************************************************************************)
EXTENDS Ingreso, FiniteSetTheorems, TLAPS

-----------------------------------------------------------------------------
(* Type correctness *)

\* What an import may look at is a sequence of files of the server.
LEMMA ListadosTipo ==
    ASSUME NEW R \in SUBSET Archivo, NEW s \in Listados(R)
    PROVE  s \in Seq(Archivo)
<1>1. PICK S \in SUBSET R : s \in SetToSeqs(S)  BY DEF Listados
<1>2. IsFiniteSet(S)  BY FS_Subset, IngresoAssumption
<1>3. Cardinality(S) \in Nat  BY <1>2, FS_CardinalityType
<1>4. s \in [1..Cardinality(S) -> S]  BY <1>1 DEF SetToSeqs
<1> QED BY <1>3, <1>4

LEMMA OciosoTipo == Ocioso \in Estados
<1>1. <<>> \in Seq(Archivo)  OBVIOUS
<1> QED BY <1>1 DEF Ocioso, Estados

\* The fields of an import keep their types one by one.
LEMMA PasoTipo ==
    ASSUME NEW e \in Estados
    PROVE  /\ e.pc \in {"libre", "mirar", "crear", "lineas"}
           /\ e.lista \in Seq(Archivo) /\ e.todo \in SUBSET Linea
           /\ \A p \in {"libre", "mirar", "crear", "lineas"} :
                  [e EXCEPT !.pc = p] \in Estados
           /\ \A s \in Seq(Archivo) : [e EXCEPT !.lista = s] \in Estados
           /\ \A T \in SUBSET Linea : [e EXCEPT !.todo = T] \in Estados
BY DEF Estados

\* What TypeOK says of an import at a file.
EnArchivo(e) == e.pc \in {"crear", "lineas"} =>
                    /\ e.lista # <<>>
                    /\ \A l \in e.todo : ArchivoDe[l] = Head(e.lista)

LEMMA UnPaso ==
    ASSUME TypeOK, NEW i \in Importador, NEW e \in Estados, EnArchivo(e),
           t' = [t EXCEPT ![i] = e]
    PROVE  /\ t' \in [Importador -> Estados]
           /\ \A j \in Importador : EnArchivo(t'[j])
BY DEF TypeOK, EnArchivo

LEMMA InitTypeOK == Init => TypeOK
<1> SUFFICES ASSUME Init PROVE TypeOK  OBVIOUS
<1>1. t \in [Importador -> Estados]  BY OciosoTipo DEF Init
<1>2. \A i \in Importador : t[i].pc = "libre"  BY DEF Init, Ocioso
<1>3. filas \in [Archivo -> Nat] /\ lineas \in [Linea -> Nat]  BY DEF Init
<1>4. solape \in BOOLEAN /\ remoto \subseteq Archivo  BY DEF Init
<1>5. MaxFallos \in Nat  BY IngresoAssumption
<1>6. fallos \in 0..MaxFallos  BY <1>5 DEF Init
<1> QED BY <1>1, <1>2, <1>3, <1>4, <1>6 DEF TypeOK

\* The import i goes on to the local state e, and nothing else of t changes.
LEMMA PasoTypeOK ==
    ASSUME TypeOK, NEW i \in Importador, NEW e \in Estados, EnArchivo(e),
           t' = [t EXCEPT ![i] = e],
           remoto' = remoto, filas' \in [Archivo -> Nat], lineas' \in [Linea -> Nat],
           solape' \in BOOLEAN, fallos' \in 0..MaxFallos
    PROVE  TypeOK'
<1>1. /\ t' \in [Importador -> Estados]
      /\ \A j \in Importador : EnArchivo(t'[j])
  BY UnPaso
<1> QED BY <1>1 DEF TypeOK, EnArchivo

LEMMA NextTypeOK == TypeOK /\ [Next]_vars => TypeOK'
<1> SUFFICES ASSUME TypeOK, [Next]_vars PROVE TypeOK'  OBVIOUS
<1>a. /\ remoto \subseteq Archivo /\ solape \in BOOLEAN /\ fallos \in 0..MaxFallos
      /\ filas \in [Archivo -> Nat] /\ lineas \in [Linea -> Nat]
      /\ t \in [Importador -> Estados]
  BY DEF TypeOK
<1>b. ASSUME NEW i \in Importador
      PROVE  t[i] \in Estados /\ EnArchivo(t[i])
  BY DEF TypeOK, EnArchivo
<1>c. ASSUME NEW i \in Importador, t[i].pc \in {"crear", "lineas"}
      PROVE  Head(t[i].lista) \in Archivo /\ Tail(t[i].lista) \in Seq(Archivo)
  <2>1. t[i].lista \in Seq(Archivo)  BY <1>b, PasoTipo
  <2>2. t[i].lista # <<>>  BY <1>b, <1>c DEF EnArchivo
  <2> QED BY <2>1, <2>2
<1>1. ASSUME NEW f \in Archivo, Llegar(f) PROVE TypeOK'
  BY <1>1 DEF Llegar, TypeOK
<1>2. ASSUME NEW i \in Importador, Listar(i) PROVE TypeOK'
  <2>1. PICK s \in Listados(remoto) :
            t' = [t EXCEPT ![i].pc = "mirar", ![i].lista = s]
    BY <1>2 DEF Listar
  <2>2. s \in Seq(Archivo)  BY <1>a, ListadosTipo
  <2> DEFINE e == [[t[i] EXCEPT !.pc = "mirar"] EXCEPT !.lista = s]
  <2>3. e \in Estados  BY <1>b, <2>2, PasoTipo
  <2>4. EnArchivo(e)  BY <1>b DEF EnArchivo, Estados
  <2>5. t' = [t EXCEPT ![i] = e]  BY <2>1, <1>a
  <2> HIDE DEF e
  <2>6. /\ remoto' = remoto /\ filas' = filas /\ lineas' = lineas
        /\ solape' \in BOOLEAN /\ fallos' = fallos
    BY <1>2 DEF Listar
  <2> QED BY <1>a, <2>3, <2>4, <2>5, <2>6, PasoTypeOK
<1>3. ASSUME NEW i \in Importador, Mirar(i) PROVE TypeOK'
  <2> DEFINE f == Head(t[i].lista)
             e == [t[i] EXCEPT !.lista = Tail(t[i].lista)]
             n == [t[i] EXCEPT !.pc = "crear",
                               !.todo = {l \in Linea : ArchivoDe[l] = f}]
  <2>1. t[i].lista \in Seq(Archivo) /\ t[i].lista # <<>> /\ t[i].pc = "mirar"
    BY <1>3, <1>b, PasoTipo DEF Mirar
  <2>2. Tail(t[i].lista) \in Seq(Archivo)  BY <2>1
  <2>3. t' = [t EXCEPT ![i] = e] \/ t' = [t EXCEPT ![i] = n]
    <3>1. CASE existe(f)  BY <1>3, <1>a, <3>1 DEF Mirar
    <3>2. CASE ~existe(f)  BY <1>3, <1>a, <3>2 DEF Mirar
    <3> QED BY <3>1, <3>2
  <2>4. e \in Estados /\ n \in Estados
    <3>1. {l \in Linea : ArchivoDe[l] = f} \in SUBSET Linea  OBVIOUS
    <3>2. n = [[t[i] EXCEPT !.pc = "crear"]
                   EXCEPT !.todo = {l \in Linea : ArchivoDe[l] = f}]
      OBVIOUS
    <3> QED BY <1>b, <2>2, <3>1, <3>2, PasoTipo
  <2>5. EnArchivo(e) /\ EnArchivo(n)  BY <1>b, <2>1 DEF EnArchivo, Estados
  <2> HIDE DEF e, n
  <2>6. /\ remoto' = remoto /\ filas' = filas /\ lineas' = lineas
        /\ solape' = solape /\ fallos' = fallos
    BY <1>3 DEF Mirar
  <2> QED BY <1>a, <2>3, <2>4, <2>5, <2>6, PasoTypeOK
<1>4. ASSUME NEW i \in Importador, CrearPedido(i) PROVE TypeOK'
  <2> DEFINE e == [t[i] EXCEPT !.pc = "lineas"]
  <2>1. t[i].pc = "crear"  BY <1>4 DEF CrearPedido
  <2>2. filas' \in [Archivo -> Nat]  BY <1>4, <1>a, <1>c, <2>1 DEF CrearPedido
  <2>3. e \in Estados  BY <1>b, PasoTipo
  <2>4. EnArchivo(e)  BY <1>b, <2>1 DEF EnArchivo, Estados
  <2>5. t' = [t EXCEPT ![i] = e]  BY <1>4, <1>a DEF CrearPedido
  <2> HIDE DEF e
  <2>6. remoto' = remoto /\ lineas' = lineas /\ solape' = solape /\ fallos' = fallos
    BY <1>4 DEF CrearPedido
  <2> QED BY <1>a, <2>2, <2>3, <2>4, <2>5, <2>6, PasoTypeOK
<1>5. ASSUME NEW i \in Importador, NEW l \in Linea, CrearLinea(i, l) PROVE TypeOK'
  <2> DEFINE e == [t[i] EXCEPT !.todo = t[i].todo \ {l}]
  <2>1. lineas' \in [Linea -> Nat]  BY <1>5, <1>a DEF CrearLinea
  <2>2. t[i].todo \ {l} \in SUBSET Linea  BY <1>b, PasoTipo
  <2>3. e \in Estados  BY <1>b, <2>2, PasoTipo
  <2>4. EnArchivo(e)  BY <1>b DEF EnArchivo, Estados
  <2>5. t' = [t EXCEPT ![i] = e]  BY <1>5, <1>a DEF CrearLinea
  <2> HIDE DEF e
  <2>6. remoto' = remoto /\ filas' = filas /\ solape' = solape /\ fallos' = fallos
    BY <1>5 DEF CrearLinea
  <2> QED BY <1>a, <2>1, <2>3, <2>4, <2>5, <2>6, PasoTypeOK
<1>6. ASSUME NEW i \in Importador, Siguiente(i) PROVE TypeOK'
  <2> DEFINE e == [[t[i] EXCEPT !.pc = "mirar"] EXCEPT !.lista = Tail(t[i].lista)]
  <2>1. t[i].pc = "lineas"  BY <1>6 DEF Siguiente
  <2>2. e \in Estados  BY <1>b, <1>c, <2>1, PasoTipo
  <2>3. EnArchivo(e)  BY <1>b DEF EnArchivo, Estados
  <2>4. t' = [t EXCEPT ![i] = e]  BY <1>6, <1>a DEF Siguiente
  <2> HIDE DEF e
  <2>5. /\ remoto' = remoto /\ filas' = filas /\ lineas' = lineas
        /\ solape' = solape /\ fallos' = fallos
    BY <1>6 DEF Siguiente
  <2> QED BY <1>a, <2>2, <2>3, <2>4, <2>5, PasoTypeOK
<1>7. ASSUME NEW i \in Importador, Terminar(i) \/ Fallar(i) PROVE TypeOK'
  <2>1. t' = [t EXCEPT ![i] = Ocioso]  BY <1>7 DEF Terminar, Fallar
  <2>2. EnArchivo(Ocioso)  BY DEF EnArchivo, Ocioso
  <2>3. remoto' = remoto /\ filas' = filas /\ lineas' = lineas /\ solape' = solape
    BY <1>7 DEF Terminar, Fallar
  <2>4. MaxFallos \in Nat  BY IngresoAssumption
  <2>5. fallos' \in 0..MaxFallos  BY <1>7, <1>a, <2>4 DEF Terminar, Fallar
  <2> QED BY <1>a, <2>1, <2>2, <2>3, <2>5, OciosoTipo, PasoTypeOK
<1>8. CASE UNCHANGED vars  BY <1>8 DEF vars, TypeOK
<1> QED
  BY <1>1, <1>2, <1>3, <1>4, <1>5, <1>6, <1>7, <1>8 DEF Next, Importar

\* Every state of the imports is well typed: an import that creates an order or
\* its lines has that order at hand.
THEOREM TypeCorrect == Spec => []TypeOK
<1> QED BY InitTypeOK, NextTypeOK, PTL DEF Spec

-----------------------------------------------------------------------------
(* What one step does to the state of an import *)

\* No other import takes part in the step of one.
LEMMA UnoSolo ==
    ASSUME TypeOK, NEW i \in Importador, Importar(i) \/ Fallar(i)
    PROVE  \A j \in Importador \ {i} : t'[j] = t[j]
<1>1. t \in [Importador -> Estados]  BY DEF TypeOK
<1>2. ASSUME NEW l \in Linea, CrearLinea(i, l)
      PROVE  \A j \in Importador \ {i} : t'[j] = t[j]
  BY <1>1, <1>2 DEF CrearLinea
<1>3. CASE Mirar(i)
  <2>1. CASE existe(Head(t[i].lista))  BY <1>1, <1>3, <2>1 DEF Mirar
  <2>2. CASE ~existe(Head(t[i].lista))  BY <1>1, <1>3, <2>2 DEF Mirar
  <2> QED BY <2>1, <2>2
<1>4. CASE Listar(i)  BY <1>1, <1>4 DEF Listar
<1>5. CASE CrearPedido(i)  BY <1>1, <1>5 DEF CrearPedido
<1>6. CASE Siguiente(i)  BY <1>1, <1>6 DEF Siguiente
<1>7. CASE Terminar(i) \/ Fallar(i)  BY <1>1, <1>7 DEF Terminar, Fallar
<1> QED BY <1>2, <1>3, <1>4, <1>5, <1>6, <1>7 DEF Importar

\* What a step does to the import i that takes it: it is at a new file only
\* when that has no row, it creates the row and the lines of the file it is
\* at, and no other step makes it be at a file.
LEMMA PasoPropio ==
    ASSUME TypeOK, NEW i \in Importador
    PROVE  /\ Mirar(i) => \/ t'[i].pc = "mirar"
                          \/ /\ t'[i].pc = "crear"
                             /\ t'[i].lista = t[i].lista
                             /\ filas[Head(t[i].lista)] = 0
                             /\ t'[i].todo =
                                    {l \in Linea : ArchivoDe[l] = Head(t[i].lista)}
           /\ CrearPedido(i) => /\ t'[i].pc = "lineas"
                                /\ t'[i].lista = t[i].lista
                                /\ t'[i].todo = t[i].todo
           /\ \A l \in Linea : CrearLinea(i, l) => /\ t'[i].pc = "lineas"
                                                   /\ t'[i].lista = t[i].lista
                                                   /\ t'[i].todo = t[i].todo \ {l}
           /\ Siguiente(i) \/ Listar(i) => t'[i].pc = "mirar"
           /\ Terminar(i) \/ Fallar(i) => t'[i].pc = "libre"
<1>1. t \in [Importador -> Estados] /\ t[i] \in Estados  BY DEF TypeOK
<1>2. filas \in [Archivo -> Nat]  BY DEF TypeOK
<1>3. ASSUME Mirar(i)
      PROVE  \/ t'[i].pc = "mirar"
             \/ /\ t'[i].pc = "crear"
                /\ t'[i].lista = t[i].lista
                /\ filas[Head(t[i].lista)] = 0
                /\ t'[i].todo = {l \in Linea : ArchivoDe[l] = Head(t[i].lista)}
  <2>0. t[i].pc = "mirar" /\ t[i].lista # <<>> /\ t[i].lista \in Seq(Archivo)
    BY <1>1, <1>3, PasoTipo DEF Mirar
  <2>1. CASE existe(Head(t[i].lista))
    <3>1. t' = [t EXCEPT ![i].lista = Tail(@)]  BY <1>3, <2>1 DEF Mirar
    <3>2. t'[i].pc = "mirar"  BY <1>1, <2>0, <3>1 DEF Estados
    <3> QED BY <3>2
  <2>2. CASE ~existe(Head(t[i].lista))
    <3> DEFINE T == {l \in Linea : ArchivoDe[l] = Head(t[i].lista)}
    <3>1. t' = [t EXCEPT ![i].pc = "crear", ![i].todo = T]
      BY <1>3, <2>2 DEF Mirar
    <3>2. Head(t[i].lista) \in Archivo  BY <2>0
    <3>3. filas[Head(t[i].lista)] = 0  BY <1>2, <2>2, <3>2 DEF existe
    <3> HIDE DEF T
    <3>4. t'[i].pc = "crear" /\ t'[i].lista = t[i].lista /\ t'[i].todo = T
      BY <1>1, <3>1 DEF Estados
    <3> QED BY <3>3, <3>4 DEF T
  <2> QED BY <2>1, <2>2
<1>4. ASSUME CrearPedido(i)
      PROVE  t'[i].pc = "lineas" /\ t'[i].lista = t[i].lista /\ t'[i].todo = t[i].todo
  BY <1>1, <1>4 DEF CrearPedido, Estados
<1>5. ASSUME NEW l \in Linea, CrearLinea(i, l)
      PROVE  /\ t'[i].pc = "lineas" /\ t'[i].lista = t[i].lista
             /\ t'[i].todo = t[i].todo \ {l}
  BY <1>1, <1>5 DEF CrearLinea, Estados
<1>6. ASSUME Siguiente(i) \/ Listar(i) PROVE t'[i].pc = "mirar"
  BY <1>1, <1>6 DEF Siguiente, Listar, Estados
<1>7. ASSUME Terminar(i) \/ Fallar(i) PROVE t'[i].pc = "libre"
  BY <1>1, <1>7 DEF Terminar, Fallar, Ocioso
<1> QED BY <1>3, <1>4, <1>5, <1>6, <1>7

-----------------------------------------------------------------------------
(* An order that has a row and that no import is at is left as it is *)

LEMMA NextDefinitivo ==
    ASSUME TypeOK, [Next]_vars, NEW f \in Archivo, filas[f] > 0, ~EnCurso(f)
    PROVE  /\ ~EnCurso(f)' /\ filas'[f] = filas[f]
           /\ \A l \in Linea : ArchivoDe[l] = f => lineas'[l] = lineas[l]
<1>0. \A i \in Importador : t[i].pc \in {"crear", "lineas"} => Head(t[i].lista) # f
  BY DEF EnCurso
<1>1. ASSUME NEW i \in Importador, Importar(i) \/ Fallar(i)
      PROVE  ~EnCurso(f)'
  <2>1. \A j \in Importador \ {i} : t'[j] = t[j]  BY <1>1, UnoSolo
  <2>2. ~(t'[i].pc \in {"crear", "lineas"} /\ Head(t'[i].lista) = f)
    <3>1. CASE Mirar(i)  BY <3>1, PasoPropio
    <3>2. CASE CrearPedido(i)
      <4>1. t[i].pc = "crear"  BY <3>2 DEF CrearPedido
      <4> QED BY <1>0, <3>2, <4>1, PasoPropio
    <3>3. ASSUME NEW l \in Linea, CrearLinea(i, l)
          PROVE  ~(t'[i].pc \in {"crear", "lineas"} /\ Head(t'[i].lista) = f)
      <4>1. t[i].pc = "lineas"  BY <3>3 DEF CrearLinea
      <4> QED BY <1>0, <3>3, <4>1, PasoPropio
    <3>4. CASE Siguiente(i) \/ Listar(i) \/ Terminar(i) \/ Fallar(i)
      BY <3>4, PasoPropio
    <3> QED BY <1>1, <3>1, <3>2, <3>3, <3>4 DEF Importar
  <2> QED BY <1>0, <2>1, <2>2 DEF EnCurso
<1>2. ASSUME NEW i \in Importador, Importar(i) \/ Fallar(i)
      PROVE  filas'[f] = filas[f]
  <2>1. CASE CrearPedido(i)
    <3>1. Head(t[i].lista) # f  BY <1>0, <2>1 DEF CrearPedido
    <3> QED BY <2>1, <3>1 DEF CrearPedido, TypeOK
  <2>2. CASE ~CrearPedido(i)
    BY <1>2, <2>2 DEF Importar, Mirar, Listar, CrearLinea, Siguiente, Terminar, Fallar
  <2> QED BY <2>1, <2>2
<1>3. ASSUME NEW i \in Importador, Importar(i) \/ Fallar(i),
             NEW k \in Linea, ArchivoDe[k] = f
      PROVE  lineas'[k] = lineas[k]
  <2>1. ASSUME NEW l \in Linea, CrearLinea(i, l) PROVE lineas'[k] = lineas[k]
    <3>1. t[i].pc = "lineas" /\ l \in t[i].todo  BY <2>1 DEF CrearLinea
    <3>2. ArchivoDe[l] = Head(t[i].lista)  BY <3>1 DEF TypeOK
    <3>3. l # k  BY <1>0, <1>3, <3>1, <3>2
    <3> QED BY <2>1, <3>3 DEF CrearLinea, TypeOK
  <2>2. CASE ~\E l \in Linea : CrearLinea(i, l)
    BY <1>3, <2>2
    DEF Importar, Mirar, Listar, CrearPedido, Siguiente, Terminar, Fallar
  <2> QED BY <2>1, <2>2
<1>4. ASSUME (\E g \in Archivo : Llegar(g)) \/ UNCHANGED vars
      PROVE  t' = t /\ filas' = filas /\ lineas' = lineas
  BY <1>4 DEF Llegar, vars
<1> QED BY <1>1, <1>2, <1>3, <1>4 DEF Next, EnCurso

\* However many imports run, stop and start again, an order that was imported
\* is never imported again, and one that was left half way stays so.
THEOREM DefinitivoSiempre == Spec => Definitivo
<1>1. TypeOK /\ [Next]_vars =>
          [\A f \in Archivo : filas[f] > 0 /\ ~EnCurso(f) =>
               /\ ~EnCurso(f)' /\ filas'[f] = filas[f]
               /\ \A l \in Linea : ArchivoDe[l] = f => lineas'[l] = lineas[l]]_vars
  BY NextDefinitivo
<1> QED BY <1>1, TypeCorrect, PTL DEF Spec, Definitivo

-----------------------------------------------------------------------------
(* Each line against its order *)

\* The imports that still have to create l for a row they created.
Pendientes(l) == {i \in Importador : t[i].pc = "lineas" /\ l \in t[i].todo}

\* An import that is to create an order will create all its lines.
TodoEntero ==
    \A i \in Importador : t[i].pc = "crear" =>
        t[i].todo = {l \in Linea : ArchivoDe[l] = Head(t[i].lista)}

\* The rows of a line, and those imports still have to create, make up the rows
\* of its order; a stop takes away what an import had to create.
Cuadra ==
    \A l \in Linea :
        /\ lineas[l] + Cardinality(Pendientes(l)) <= filas[ArchivoDe[l]]
        /\ fallos = 0 =>
               lineas[l] + Cardinality(Pendientes(l)) = filas[ArchivoDe[l]]

LEMMA PendientesFinito ==
    ASSUME NEW l
    PROVE  IsFiniteSet(Pendientes(l)) /\ Cardinality(Pendientes(l)) \in Nat
<1>1. Pendientes(l) \subseteq Importador  BY DEF Pendientes
<1>2. IsFiniteSet(Pendientes(l))  BY <1>1, FS_Subset, IngresoAssumption
<1> QED BY <1>2, FS_CardinalityType

LEMMA NextTodoEntero == TypeOK /\ TodoEntero /\ [Next]_vars => TodoEntero'
<1> SUFFICES ASSUME TypeOK, TodoEntero, [Next]_vars PROVE TodoEntero'  OBVIOUS
<1>1. ASSUME NEW i \in Importador, Importar(i) \/ Fallar(i) PROVE TodoEntero'
  <2>1. \A j \in Importador \ {i} : t'[j] = t[j]  BY <1>1, UnoSolo
  <2>2. t'[i].pc = "crear" =>
            t'[i].todo = {l \in Linea : ArchivoDe[l] = Head(t'[i].lista)}
    <3>1. CASE Mirar(i)  BY <3>1, PasoPropio
    <3>2. CASE ~Mirar(i)
      <4>1. t'[i].pc # "crear"  BY <1>1, <3>2, PasoPropio DEF Importar
      <4> QED BY <4>1
    <3> QED BY <3>1, <3>2
  <2> QED BY <2>1, <2>2 DEF TodoEntero
<1>2. ASSUME (\E f \in Archivo : Llegar(f)) \/ UNCHANGED vars PROVE TodoEntero'
  BY <1>2 DEF TodoEntero, Llegar, vars
<1> QED BY <1>1, <1>2 DEF Next

\* What a step of an import changes of the balance of a line.
LEMMA PasoCuadra ==
    ASSUME TypeOK, TodoEntero, NEW i \in Importador, Importar(i) \/ Fallar(i),
           NEW l \in Linea
    PROVE  \/ /\ Pendientes(l)' = Pendientes(l) /\ lineas'[l] = lineas[l]
              /\ filas'[ArchivoDe[l]] = filas[ArchivoDe[l]] /\ fallos' = fallos
           \/ /\ Pendientes(l)' = Pendientes(l) \cup {i} /\ i \notin Pendientes(l)
              /\ filas'[ArchivoDe[l]] = filas[ArchivoDe[l]] + 1
              /\ lineas'[l] = lineas[l] /\ fallos' = fallos
           \/ /\ Pendientes(l)' = Pendientes(l) \ {i} /\ i \in Pendientes(l)
              /\ lineas'[l] = lineas[l] + 1
              /\ filas'[ArchivoDe[l]] = filas[ArchivoDe[l]] /\ fallos' = fallos
           \/ /\ Pendientes(l)' \subseteq Pendientes(l) /\ lineas'[l] = lineas[l]
              /\ filas'[ArchivoDe[l]] = filas[ArchivoDe[l]] /\ fallos' > 0
<1> DEFINE f == ArchivoDe[l]
           Mio == t[i].pc = "lineas" /\ l \in t[i].todo
           MioLuego == t'[i].pc = "lineas" /\ l \in t'[i].todo
<1>0. f \in Archivo /\ t[i] \in Estados  BY IngresoAssumption DEF TypeOK
<1>1. \A j \in Importador \ {i} : t'[j] = t[j]  BY UnoSolo
<1>2. /\ Mio /\ MioLuego => Pendientes(l)' = Pendientes(l)
      /\ ~Mio /\ ~MioLuego => Pendientes(l)' = Pendientes(l)
      /\ ~Mio /\ MioLuego => /\ Pendientes(l)' = Pendientes(l) \cup {i}
                             /\ i \notin Pendientes(l)
      /\ Mio /\ ~MioLuego => /\ Pendientes(l)' = Pendientes(l) \ {i}
                             /\ i \in Pendientes(l)
  BY <1>1 DEF Pendientes
<1>3. CASE Mirar(i)
  <2>1. t[i].pc = "mirar" /\ t'[i].pc # "lineas"
        /\ filas' = filas /\ lineas' = lineas /\ fallos' = fallos
    BY <1>3, PasoPropio DEF Mirar
  <2> QED BY <1>2, <2>1
<1>4. CASE CrearPedido(i)
  <2>1. /\ t[i].pc = "crear" /\ t'[i].pc = "lineas" /\ t'[i].todo = t[i].todo
        /\ lineas' = lineas /\ fallos' = fallos
        /\ filas' = [filas EXCEPT ![Head(t[i].lista)] = @ + 1]
    BY <1>4, PasoPropio DEF CrearPedido
  <2>2. t[i].todo = {k \in Linea : ArchivoDe[k] = Head(t[i].lista)}
    BY <2>1 DEF TodoEntero
  <2>3. CASE Head(t[i].lista) = f
    <3>1. filas'[f] = filas[f] + 1  BY <1>0, <2>1, <2>3 DEF TypeOK
    <3> QED BY <1>2, <2>1, <2>2, <2>3, <3>1
  <2>4. CASE Head(t[i].lista) # f
    <3>1. filas'[f] = filas[f]  BY <1>0, <2>1, <2>4 DEF TypeOK
    <3> QED BY <1>2, <2>1, <2>2, <2>4, <3>1
  <2> QED BY <2>3, <2>4
<1>5. ASSUME NEW k \in Linea, CrearLinea(i, k), k # l
      PROVE  /\ Pendientes(l)' = Pendientes(l) /\ lineas'[l] = lineas[l]
             /\ filas'[f] = filas[f] /\ fallos' = fallos
  <2>1. /\ t[i].pc = "lineas" /\ t'[i].pc = "lineas"
        /\ t'[i].todo = t[i].todo \ {k} /\ filas' = filas /\ fallos' = fallos
    BY <1>5, PasoPropio DEF CrearLinea
  <2>2. lineas'[l] = lineas[l]  BY <1>5 DEF CrearLinea, TypeOK
  <2> QED BY <1>2, <1>5, <2>1, <2>2
<1>6. CASE CrearLinea(i, l)
  <2>1. /\ Mio /\ t'[i].todo = t[i].todo \ {l} /\ filas' = filas /\ fallos' = fallos
    BY <1>6, PasoPropio DEF CrearLinea
  <2>2. lineas'[l] = lineas[l] + 1  BY <1>6 DEF CrearLinea, TypeOK
  <2> QED BY <1>2, <2>1, <2>2
<1>7. CASE Siguiente(i) \/ Listar(i) \/ Terminar(i)
  <2>1. /\ ~Mio /\ filas' = filas /\ lineas' = lineas /\ fallos' = fallos
    BY <1>7 DEF Siguiente, Listar, Terminar
  <2>2. ~MioLuego  BY <1>7, PasoPropio
  <2> QED BY <1>2, <2>1, <2>2
<1>8. CASE Fallar(i)
  <2>1. filas' = filas /\ lineas' = lineas /\ fallos' > 0
    BY <1>8 DEF Fallar, TypeOK
  <2>2. ~MioLuego  BY <1>8, PasoPropio
  <2> QED BY <1>2, <2>1, <2>2
<1> QED BY <1>3, <1>4, <1>5, <1>6, <1>7, <1>8 DEF Importar

LEMMA NextCuadra == TypeOK /\ TodoEntero /\ Cuadra /\ [Next]_vars => Cuadra'
<1> SUFFICES ASSUME TypeOK, TodoEntero, Cuadra, [Next]_vars, NEW l \in Linea
             PROVE  /\ lineas'[l] + Cardinality(Pendientes(l)') <= filas'[ArchivoDe[l]]
                    /\ fallos' = 0 => lineas'[l] + Cardinality(Pendientes(l)')
                                          = filas'[ArchivoDe[l]]
  BY DEF Cuadra
<1>0. /\ lineas[l] \in Nat /\ filas[ArchivoDe[l]] \in Nat
      /\ lineas[l] + Cardinality(Pendientes(l)) <= filas[ArchivoDe[l]]
      /\ fallos = 0 => lineas[l] + Cardinality(Pendientes(l)) = filas[ArchivoDe[l]]
  BY IngresoAssumption DEF TypeOK, Cuadra
<1>1. IsFiniteSet(Pendientes(l)) /\ Cardinality(Pendientes(l)) \in Nat
  BY PendientesFinito
<1>2. ASSUME NEW i \in Importador, Importar(i) \/ Fallar(i)
      PROVE  /\ lineas'[l] + Cardinality(Pendientes(l)') <= filas'[ArchivoDe[l]]
             /\ fallos' = 0 => lineas'[l] + Cardinality(Pendientes(l)')
                                   = filas'[ArchivoDe[l]]
  <2>1. i \notin Pendientes(l) =>
            Cardinality(Pendientes(l) \cup {i}) = Cardinality(Pendientes(l)) + 1
    BY <1>1, FS_AddElement
  <2>2. i \in Pendientes(l) =>
            Cardinality(Pendientes(l) \ {i}) = Cardinality(Pendientes(l)) - 1
    BY <1>1, FS_RemoveElement
  <2>3. Pendientes(l)' \subseteq Pendientes(l) =>
            /\ Cardinality(Pendientes(l)') \in Nat
            /\ Cardinality(Pendientes(l)') <= Cardinality(Pendientes(l))
    BY <1>1, FS_Subset, FS_CardinalityType
  <2> DEFINE P == Pendientes(l)  Q == Pendientes(l)'
             f == ArchivoDe[l]
  <2>5. CASE Q = P /\ lineas'[l] = lineas[l] /\ filas'[f] = filas[f] /\ fallos' = fallos
    BY <1>0, <2>5
  <2>6. CASE /\ Q = P \cup {i} /\ i \notin P /\ filas'[f] = filas[f] + 1
             /\ lineas'[l] = lineas[l] /\ fallos' = fallos
    <3>1. Cardinality(Q) = Cardinality(P) + 1  BY <2>1, <2>6
    <3> QED BY <1>0, <1>1, <2>6, <3>1
  <2>7. CASE /\ Q = P \ {i} /\ i \in P /\ lineas'[l] = lineas[l] + 1
             /\ filas'[f] = filas[f] /\ fallos' = fallos
    <3>1. Cardinality(Q) = Cardinality(P) - 1  BY <2>2, <2>7
    <3> QED BY <1>0, <1>1, <2>7, <3>1
  <2>8. CASE /\ Q \subseteq P /\ lineas'[l] = lineas[l] /\ filas'[f] = filas[f]
             /\ fallos' > 0
    <3>1. Cardinality(Q) \in Nat /\ Cardinality(Q) <= Cardinality(P)
      BY <2>3, <2>8
    <3>2. fallos' # 0  BY <2>8
    <3> QED BY <1>0, <1>1, <2>8, <3>1, <3>2
  <2> QED BY <1>2, <2>5, <2>6, <2>7, <2>8, PasoCuadra
<1>3. ASSUME (\E f \in Archivo : Llegar(f)) \/ UNCHANGED vars
      PROVE  /\ Pendientes(l)' = Pendientes(l) /\ lineas' = lineas
             /\ filas' = filas /\ fallos' = fallos
  BY <1>3 DEF Llegar, vars, Pendientes
<1> QED BY <1>0, <1>2, <1>3 DEF Next

LEMMA InitCuadra == Init => TodoEntero /\ Cuadra
<1> SUFFICES ASSUME Init PROVE TodoEntero /\ Cuadra  OBVIOUS
<1>1. \A i \in Importador : t[i].pc = "libre"  BY DEF Init, Ocioso
<1>2. \A l \in Linea : Pendientes(l) = {}  BY <1>1 DEF Pendientes
<1>3. \A l \in Linea : lineas[l] = 0 /\ filas[ArchivoDe[l]] = 0
  BY IngresoAssumption DEF Init
<1> QED BY <1>1, <1>2, <1>3, FS_EmptySet DEF TodoEntero, Cuadra

LEMMA CuadraCompleto == TypeOK /\ Cuadra => CompletoSinFallos
<1> SUFFICES ASSUME TypeOK, Cuadra, NEW l \in Linea
             PROVE  /\ lineas[l] <= filas[ArchivoDe[l]]
                    /\ fallos = 0 /\ ~EnCurso(ArchivoDe[l]) =>
                           lineas[l] = filas[ArchivoDe[l]]
  BY DEF CompletoSinFallos, LineasConPedido
<1>1. Cardinality(Pendientes(l)) \in Nat  BY PendientesFinito
<1>2. lineas[l] \in Nat /\ filas[ArchivoDe[l]] \in Nat
  BY IngresoAssumption DEF TypeOK
<1>3. ~EnCurso(ArchivoDe[l]) => Pendientes(l) = {}
  BY DEF TypeOK, EnCurso, Pendientes
<1> QED BY <1>1, <1>2, <1>3, FS_EmptySet DEF Cuadra

\* However many imports overlap, no line is ever without its order, and as long
\* as none was stopped each order no import is at has all its lines.
THEOREM CompletoSiempre == Spec => []CompletoSinFallos
<1>1. TypeOK /\ TodoEntero /\ Cuadra /\ [Next]_vars => (TodoEntero /\ Cuadra)'
  BY NextTodoEntero, NextCuadra
<1> QED BY <1>1, InitCuadra, CuadraCompleto, TypeCorrect, PTL DEF Spec

-----------------------------------------------------------------------------
(* How often an order is created *)

\* The imports that found no row for f and have not created theirs yet.
Creando(f) == {i \in Importador : t[i].pc = "crear" /\ Head(t[i].lista) = f}

\* The rows of an order, and those that imports are about to create, are no
\* more than the imports: they all found no row, each once.  Without overlap
\* one import runs at a time, and they are one at most.
Sitio ==
    /\ \A f \in Archivo :
           filas[f] + Cardinality(Creando(f)) <= Cardinality(Importador)
    /\ ~solape =>
           /\ \A i, j \in Importador : t[i].pc # "libre" /\ t[j].pc # "libre" => i = j
           /\ \A f \in Archivo : filas[f] + Cardinality(Creando(f)) <= 1

LEMMA CreandoFinito ==
    ASSUME NEW f
    PROVE  /\ Creando(f) \subseteq Importador
           /\ IsFiniteSet(Creando(f)) /\ Cardinality(Creando(f)) \in Nat
<1>1. Creando(f) \subseteq Importador  BY DEF Creando
<1>2. IsFiniteSet(Creando(f))  BY <1>1, FS_Subset, IngresoAssumption
<1> QED BY <1>1, <1>2, FS_CardinalityType

\* A step enters Creando only of an order without rows, and creates a row only
\* when it leaves it.
LEMMA PasoSitio ==
    ASSUME TypeOK, NEW i \in Importador, Importar(i) \/ Fallar(i), NEW f \in Archivo
    PROVE  \/ Creando(f)' \subseteq Creando(f) /\ filas'[f] = filas[f]
           \/ /\ t[i].pc # "libre" /\ Creando(f)' \subseteq Creando(f) \cup {i}
              /\ filas[f] = 0 /\ filas'[f] = 0
           \/ /\ i \in Creando(f) /\ Creando(f)' \subseteq Creando(f) \ {i}
              /\ filas'[f] = filas[f] + 1
<1>1. \A j \in Importador \ {i} : t'[j] = t[j]  BY UnoSolo
<1>2. Creando(f)' \subseteq Creando(f) \cup {i}  BY <1>1 DEF Creando
<1>3. t'[i].pc # "crear" => Creando(f)' \subseteq Creando(f) \ {i}
  BY <1>1 DEF Creando
<1>4. CASE Mirar(i)
  <2>1. t[i].pc = "mirar" /\ filas' = filas  BY <1>4 DEF Mirar
  <2>2. CASE t'[i].pc = "mirar"  BY <1>3, <2>1, <2>2
  <2>3. CASE /\ t'[i].pc = "crear" /\ t'[i].lista = t[i].lista
             /\ filas[Head(t[i].lista)] = 0
    <3>1. CASE Head(t[i].lista) = f  BY <1>2, <2>1, <2>3, <3>1
    <3>2. CASE Head(t[i].lista) # f
      <4>1. Creando(f)' \subseteq Creando(f)  BY <1>1, <2>3, <3>2 DEF Creando
      <4> QED BY <2>1, <4>1
    <3> QED BY <3>1, <3>2
  <2> QED BY <1>4, <2>2, <2>3, PasoPropio
<1>5. CASE CrearPedido(i)
  <2>1. t[i].pc = "crear" /\ t'[i].pc = "lineas"  BY <1>5, PasoPropio DEF CrearPedido
  <2>2. filas' = [filas EXCEPT ![Head(t[i].lista)] = @ + 1]  BY <1>5 DEF CrearPedido
  <2>3. CASE Head(t[i].lista) = f
    <3>1. filas'[f] = filas[f] + 1  BY <2>2, <2>3 DEF TypeOK
    <3>2. i \in Creando(f)  BY <2>1, <2>3 DEF Creando
    <3> QED BY <1>3, <2>1, <3>1, <3>2
  <2>4. CASE Head(t[i].lista) # f
    <3>1. filas'[f] = filas[f]  BY <2>2, <2>4 DEF TypeOK
    <3> QED BY <1>3, <2>1, <3>1
  <2> QED BY <2>3, <2>4
<1>6. ASSUME ~Mirar(i), ~CrearPedido(i)
      PROVE  Creando(f)' \subseteq Creando(f) /\ filas'[f] = filas[f]
  <2>1. t'[i].pc # "crear"  BY <1>6, PasoPropio DEF Importar
  <2>2. filas' = filas
    BY <1>6 DEF Importar, Listar, CrearLinea, Siguiente, Terminar, Fallar
  <2> QED BY <1>3, <2>1, <2>2
<1> QED BY <1>4, <1>5, <1>6

LEMMA NextSitio == TypeOK /\ Sitio /\ [Next]_vars => Sitio'
<1> SUFFICES ASSUME TypeOK, Sitio, [Next]_vars PROVE Sitio'  OBVIOUS
<1>0. ASSUME NEW f \in Archivo
      PROVE  /\ filas[f] \in Nat /\ IsFiniteSet(Creando(f))
             /\ Cardinality(Creando(f)) \in Nat
  BY <1>0, CreandoFinito DEF TypeOK
<1>1. ASSUME NEW i \in Importador, Importar(i) \/ Fallar(i) PROVE Sitio'
  <2> DEFINE N == Cardinality(Importador)
  <2>0. N \in Nat  BY IngresoAssumption, FS_CardinalityType
  <2>1. \A j \in Importador \ {i} : t'[j] = t[j]  BY <1>1, UnoSolo
  <2>2. ~solape' =>
            /\ ~solape
            /\ \A j \in Importador : t[j].pc # "libre" => j = i
    <3>1. CASE Listar(i)  BY <3>1 DEF Listar, TypeOK
    <3>2. CASE ~Listar(i)
      <4>1. t[i].pc # "libre" /\ solape' = solape
        BY <1>1, <3>2
        DEF Importar, Mirar, CrearPedido, CrearLinea, Siguiente, Terminar, Fallar
      <4> QED BY <4>1 DEF Sitio
    <3> QED BY <3>1, <3>2
  <2>3. ~solape' => \A j, k \in Importador :
                        t'[j].pc # "libre" /\ t'[k].pc # "libre" => j = k
    BY <2>1, <2>2
  <2>4. ASSUME NEW f \in Archivo
        PROVE  /\ filas'[f] + Cardinality(Creando(f)') <= N
               /\ ~solape' => filas'[f] + Cardinality(Creando(f)') <= 1
    <3> DEFINE C == Creando(f)  D == Creando(f)'
    <3>1. /\ filas[f] + Cardinality(C) <= N
          /\ ~solape' => filas[f] + Cardinality(C) <= 1
      BY <2>2 DEF Sitio
    <3>2. CASE D \subseteq C /\ filas'[f] = filas[f]
      <4>1. Cardinality(D) \in Nat /\ Cardinality(D) <= Cardinality(C)
        BY <1>0, <3>2, FS_Subset, FS_CardinalityType
      <4> QED BY <1>0, <2>0, <3>1, <3>2, <4>1
    <3>3. CASE t[i].pc # "libre" /\ D \subseteq C \cup {i} /\ filas'[f] = 0
      <4>1. D \subseteq Importador  BY <3>3, CreandoFinito
      <4>2. Cardinality(D) \in Nat /\ Cardinality(D) <= N
        BY <4>1, IngresoAssumption, FS_Subset, FS_CardinalityType
      <4>3. ~solape' => C \subseteq {i}
        BY <2>2 DEF Creando
      <4>4. ~solape' => D \subseteq {i}  BY <3>3, <4>3
      <4>5. IsFiniteSet({i}) /\ Cardinality({i}) = 1  BY FS_Singleton
      <4>6. ~solape' => Cardinality(D) <= 1  BY <4>4, <4>5, FS_Subset
      <4> QED BY <2>0, <3>3, <4>2, <4>6
    <3>4. CASE i \in C /\ D \subseteq C \ {i} /\ filas'[f] = filas[f] + 1
      <4>1. IsFiniteSet(C \ {i}) /\ Cardinality(C \ {i}) = Cardinality(C) - 1
        BY <1>0, <3>4, FS_RemoveElement
      <4>2. Cardinality(D) \in Nat /\ Cardinality(D) <= Cardinality(C) - 1
        BY <3>4, <4>1, FS_Subset, FS_CardinalityType
      <4> QED BY <1>0, <2>0, <3>1, <3>4, <4>2
    <3> QED BY <1>1, <3>2, <3>3, <3>4, PasoSitio
  <2> QED BY <2>3, <2>4 DEF Sitio
<1>2. ASSUME (\E f \in Archivo : Llegar(f)) \/ UNCHANGED vars PROVE Sitio'
  <2>1. t' = t /\ filas' = filas /\ solape' = solape
    BY <1>2 DEF Llegar, vars
  <2>2. \A f \in Archivo : Creando(f)' = Creando(f)  BY <2>1 DEF Creando
  <2> QED BY <2>1, <2>2 DEF Sitio
<1> QED BY <1>1, <1>2 DEF Next

LEMMA InitSitio == Init => Sitio
<1> SUFFICES ASSUME Init PROVE Sitio  OBVIOUS
<1>1. \A i \in Importador : t[i].pc = "libre"  BY DEF Init, Ocioso
<1>2. \A f \in Archivo : Creando(f) = {}  BY <1>1 DEF Creando
<1>3. \A f \in Archivo : filas[f] = 0  BY DEF Init
<1>4. Cardinality(Importador) \in Nat  BY IngresoAssumption, FS_CardinalityType
<1>5. \A f \in Archivo : Cardinality(Creando(f)) = 0  BY <1>2, FS_EmptySet
<1>6. \A f \in Archivo : filas[f] + Cardinality(Creando(f)) = 0  BY <1>3, <1>5
<1> QED BY <1>1, <1>4, <1>6 DEF Sitio

LEMMA SitioUnico == TypeOK /\ Sitio => UnicoSinSolape
<1> SUFFICES ASSUME TypeOK, Sitio, NEW f \in Archivo
             PROVE  /\ filas[f] <= Cardinality(Importador)
                    /\ filas[f] > 1 => solape
  BY DEF UnicoSinSolape
<1>1. filas[f] \in Nat /\ Cardinality(Creando(f)) \in Nat
  BY CreandoFinito DEF TypeOK
<1>2. Cardinality(Importador) \in Nat  BY IngresoAssumption, FS_CardinalityType
<1>3. /\ filas[f] + Cardinality(Creando(f)) <= Cardinality(Importador)
      /\ ~solape => filas[f] + Cardinality(Creando(f)) <= 1
  BY DEF Sitio
<1> QED BY <1>1, <1>2, <1>3 DEF TypeOK

\* An order has more than one row only when imports overlapped, and never more
\* rows than there are imports, however often they run.
THEOREM UnicoSiempre == Spec => []UnicoSinSolape
<1>1. TypeOK /\ Sitio /\ [Next]_vars => Sitio'  BY NextSitio
<1> QED BY <1>1, InitSitio, SitioUnico, TypeCorrect, PTL DEF Spec
=============================================================================
