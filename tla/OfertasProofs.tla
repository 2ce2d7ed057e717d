--------------------------- MODULE OfertasProofs ----------------------------
(***************************************************************************)
(* Theorems about Ofertas, for any number of offers and products, whatever *)
(* their prices and dates, and any number of stops of the task.            *)
(***************************************************************************)
EXTENDS Ofertas, FiniteSetTheorems, TLAPS


-----------------------------------------------------------------------------
(* The first and the last of a set of offers, and the rows of WebProduct *)

LEMMA MinEs ==
    ASSUME NEW S \in SUBSET Nat, S # {}
    PROVE  Min(S) \in S /\ \A y \in S : Min(S) <= y
<1> DEFINE R == OpToRel(<, Nat)
<1>1. IsWellFoundedOn(R, Nat)  BY NatLessThanWellFounded
<1>2. \A x, y \in Nat : y < x => <<y, x>> \in R  BY DEF OpToRel
<1> HIDE DEF R
<1>3. S \subseteq Nat  OBVIOUS
<1>4. PICK x \in S : \A y \in S : ~(<<y, x>> \in R)  BY <1>1, <1>3, WFMin, Zenon
<1>5. ASSUME NEW y \in S PROVE x <= y
  <2>1. ~(y < x)  BY <1>2, <1>3, <1>4
  <2> QED BY <1>3, <2>1
<1> QED BY <1>5 DEF Min

LEMMA MaxEs ==
    ASSUME NEW S \in SUBSET Oferta, S # {}
    PROVE  Max(S) \in S /\ \A y \in S : y <= Max(S)
<1> DEFINE R == {n \in Nat : NumOfertas - n \in S}
<1>1. R \in SUBSET Nat /\ R # {}
  <2>1. PICK x \in S : x \in 1..NumOfertas  BY DEF Oferta
  <2>2. /\ NumOfertas - x \in Nat
        /\ NumOfertas - (NumOfertas - x) = x
    BY <2>1, OfertasAssumption
  <2> QED BY <2>2
<1> HIDE DEF R
<1>2. Min(R) \in R /\ \A y \in R : Min(R) <= y  BY <1>1, MinEs
<1>3. NumOfertas - Min(R) \in S  BY <1>2 DEF R
<1>4. ASSUME NEW y \in S PROVE y <= NumOfertas - Min(R)
  <2>1. y \in 1..NumOfertas  BY DEF Oferta
  <2>2. NumOfertas - y \in R
    <3>1. NumOfertas - y \in Nat /\ NumOfertas - (NumOfertas - y) = y
      BY <2>1, OfertasAssumption
    <3> QED BY <3>1 DEF R
  <2>3. Min(R) <= NumOfertas - y /\ Min(R) \in Nat  BY <1>1, <1>2, <2>2
  <2> QED BY <2>1, <2>3, OfertasAssumption
<1> QED BY <1>3, <1>4 DEF Max

\* The newest offer of a product that has one.
LEMMA UltimaEs ==
    ASSUME NEW o \in Oferta, filas[o].existe
    PROVE  /\ Ultima(SkuDe[o]) \in Oferta
           /\ filas[Ultima(SkuDe[o])].existe
           /\ SkuDe[Ultima(SkuDe[o])] = SkuDe[o]
           /\ \A p \in Oferta : filas[p].existe /\ SkuDe[p] = SkuDe[o] =>
                                    p <= Ultima(SkuDe[o])
<1> DEFINE S == {p \in Oferta : filas[p].existe /\ SkuDe[p] = SkuDe[o]}
<1>1. S \in SUBSET Oferta /\ S # {}  OBVIOUS
<1>2. Max(S) \in S /\ \A y \in S : y <= Max(S)  BY <1>1, MaxEs
<1>3. Max(S) = Ultima(SkuDe[o])  BY DEF Ultima
<1> HIDE DEF S
<1> QED BY <1>2, <1>3 DEF S

LEMMA UltimaIgual ==
    ASSUME \A o \in Oferta : filas'[o].existe = filas[o].existe, NEW s
    PROVE  Ultima(s)' = Ultima(s)
<1>1. {o \in Oferta : filas'[o].existe /\ SkuDe[o] = s}
        = {o \in Oferta : filas[o].existe /\ SkuDe[o] = s}
  OBVIOUS
<1> QED BY <1>1 DEF Ultima

\* The price of the newest row of a product, and the row after a change.
LEMMA LeidoEs ==
    ASSUME NEW q \in Seq(Nat \ {0}), Len(q) > 0
    PROVE  Last(q) \in Nat \ {0} /\ Last(q) \in ToSet(q)
BY DEF Last, ToSet

LEMMA PonerEs ==
    ASSUME web \in [Skus -> Seq(Nat \ {0})], \A s \in Skus : Len(web[s]) > 0,
           NEW s \in Skus, NEW p \in Nat \ {0}, PonerPrecio(s, p)
    PROVE  /\ web' \in [Skus -> Seq(Nat \ {0})]
           /\ \A r \in Skus : Len(web'[r]) > 0
           /\ \A r \in Skus \ {s} : web'[r] = web[r]
           /\ Last(web'[s]) = p
           /\ ToSet(web'[s]) \subseteq ToSet(web[s]) \cup {p}
<1> DEFINE q == [web[s] EXCEPT ![Len(web[s])] = p]
<1>1. web' = [web EXCEPT ![s] = q]  BY DEF PonerPrecio
<1>2. /\ q \in Seq(Nat \ {0}) /\ Len(q) = Len(web[s])
      /\ q[Len(q)] = p
      /\ \A i \in 1..Len(q) : q[i] \in {web[s][i], p}
  <2>1. web[s] \in Seq(Nat \ {0}) /\ Len(web[s]) > 0  OBVIOUS
  <2> QED BY <2>1
<1> HIDE DEF q
<1>3. web'[s] = q /\ \A r \in Skus \ {s} : web'[r] = web[r]  BY <1>1
<1>4. Last(q) = p  BY <1>2 DEF Last
<1>5. ToSet(q) \subseteq ToSet(web[s]) \cup {p}
  <2>1. DOMAIN q = 1..Len(q) /\ DOMAIN web[s] = 1..Len(q)  BY <1>2
  <2> QED BY <1>2, <2>1 DEF ToSet
<1> QED BY <1>1, <1>2, <1>3, <1>4, <1>5

LEMMA LeerEs ==
    ASSUME web \in [Skus -> Seq(Nat \ {0})], \A s \in Skus : Len(web[s]) > 0,
           LeerProductos
    PROVE  /\ web' \in [Skus -> Seq(Nat \ {0})]
           /\ \A s \in Skus : /\ Len(web'[s]) > 0
                              /\ \/ web'[s] = web[s]
                                 \/ Last(web'[s]) = PrecioNormal[s]
                              /\ ToSet(web'[s]) \subseteq
                                     ToSet(web[s]) \cup {PrecioNormal[s]}
<1>1. ASSUME NEW q \in Seq(Nat \ {0}), NEW p \in Nat \ {0}
      PROVE  /\ Append(q, p) \in Seq(Nat \ {0}) /\ Len(Append(q, p)) > 0
             /\ Last(Append(q, p)) = p
             /\ ToSet(Append(q, p)) \subseteq ToSet(q) \cup {p}
  <2>1. /\ Append(q, p) \in Seq(Nat \ {0}) /\ Len(Append(q, p)) = Len(q) + 1
        /\ \A i \in 1..Len(q) : Append(q, p)[i] = q[i]
        /\ Append(q, p)[Len(q) + 1] = p
        /\ Len(q) \in Nat
    OBVIOUS
  <2>2. DOMAIN Append(q, p) = 1..(Len(q) + 1) /\ DOMAIN q = 1..Len(q)  BY <2>1
  <2> QED BY <2>1, <2>2 DEF Last, ToSet
<1>2. \A s \in Skus : /\ PrecioNormal[s] \in Nat \ {0}
                      /\ web'[s] = IF PrecioNormal[s] \in ToSet(web[s])
                                   THEN web[s] ELSE Append(web[s], PrecioNormal[s])
  BY OfertasAssumption DEF LeerProductos
<1>3. DOMAIN web' = Skus /\ web' = [s \in Skus |-> web'[s]]  BY DEF LeerProductos
<1>4. ASSUME NEW s \in Skus
      PROVE  /\ web'[s] \in Seq(Nat \ {0}) /\ Len(web'[s]) > 0
             /\ web'[s] = web[s] \/ Last(web'[s]) = PrecioNormal[s]
             /\ ToSet(web'[s]) \subseteq ToSet(web[s]) \cup {PrecioNormal[s]}
  <2>1. CASE web'[s] = web[s]  BY <2>1
  <2>2. CASE web'[s] = Append(web[s], PrecioNormal[s])  BY <1>1, <1>2, <2>2
  <2> QED BY <1>2, <2>1, <2>2
<1> QED BY <1>3, <1>4

-----------------------------------------------------------------------------
(* The inductive invariants *)

Anunciando == {"marcar", "base", "precio", "cerrar"}
Publicando == {"publicar"} \cup Anunciando

EnCurso(o) == t.pc \in Anunciando /\ t.o = o

\* The announced price a product may have, and its base price.
Avisado(s, p) ==
    \/ p = PrecioNormal[s]
    \/ \E o \in Oferta : SkuDe[o] = s /\ Precio[o] = p /\ tuits[o] > 0

\* What the task has at hand is a row of the database, or a message it took
\* off the queue and is about to create.
EnMano ==
    /\ t.mano # 0 => t.pc = "leer"
    /\ \A o \in t.off : filas[o].existe
    /\ t.pc \in Anunciando \cup {"devolver"} => t.o \in Oferta /\ filas[t.o].existe
    /\ t.pc \in {"marcar", "base"} => t.precioB # 0

\* A row is announced only once it exists; a row whose base price is due has
\* one; a product always has a row of WebProduct.
EnFilas ==
    /\ \A s \in Skus : Len(web[s]) > 0
    /\ \A o \in Oferta : /\ ~filas[o].existe =>
                                ~filas[o].fuePublicado /\ tuits[o] = 0
                         /\ ~filas[o].TienePrecioBase => filas[o].precioBase # 0
    /\ t.pc \in {"precio", "cerrar"} => filas[Ultima(SkuDe[t.o])].precioBase # 0
    /\ t.pc \in {"cambiar", "devolver"} => \A o \in t.off : filas[o].precioBase # 0

Tipos == TypeOK /\ EnMano /\ EnFilas

\* The base prices kept and read are announced prices of the product too.
Avisos ==
    /\ AvisoPrevio
    /\ t.pc \in Anunciando => tuits[t.o] > 0
    /\ t.pc \in {"marcar", "base"} => Avisado(SkuDe[t.o], t.precioB)
    /\ \A o \in Oferta :
           filas[o].precioBase # 0 => Avisado(SkuDe[o], filas[o].precioBase)

\* The newest offer of a product is announced once more than the task was
\* stopped, and not before it is marked or while it waits in the loop.
Tuits ==
    \A o \in Oferta :
        filas[o].existe /\ Ultima(SkuDe[o]) = o =>
            /\ tuits[o] <= 1 + fallos
            /\ ~filas[o].fuePublicado /\ ~(t.pc = "marcar" /\ t.o = o) =>
                   tuits[o] <= fallos
            /\ t.pc \in Publicando /\ o \in t.off /\ ~EnCurso(o) =>
                   tuits[o] <= fallos

\* The only offer a product has had.
Sola(o) == \A p \in Oferta : p # o /\ SkuDe[p] = SkuDe[o] => ~filas[p].existe

EnBase(o) == Last(web[SkuDe[o]]) = PrecioNormal[SkuDe[o]]

\* Where the base price of such an offer's product is, step by step.
Bases ==
    fallos = 0 => \A o \in Oferta : Sola(o) =>
        /\ ~filas[o].fuePublicado => filas[o].TienePrecioBase /\ EnBase(o)
        /\ \/ ~filas[o].TienePrecioBase
           \/ t.pc \in {"cambiar", "devolver"} /\ o \in t.off
           => filas[o].precioBase = PrecioNormal[SkuDe[o]]
        /\ filas[o].TienePrecioBase /\ ~(t.pc = "cerrar" /\ t.o = o) => EnBase(o)
        /\ t.pc \in Publicando /\ o \in t.off /\ ~EnCurso(o) =>
               ~filas[o].fuePublicado
        /\ t.pc = "marcar" /\ t.o = o => ~filas[o].fuePublicado
        /\ t.pc \in {"marcar", "base"} /\ t.o = o =>
               EnBase(o) /\ t.precioB = PrecioNormal[SkuDe[o]]
        /\ t.pc \in {"precio", "cerrar"} /\ t.o = o =>
               filas[o].precioBase = PrecioNormal[SkuDe[o]]
        /\ t.pc \in {"base", "precio", "cerrar"} /\ t.o = o =>
               filas[o].fuePublicado
        /\ t.pc = "devolver" /\ t.o = o => EnBase(o)

-----------------------------------------------------------------------------
(* Type correctness *)

LEMMA InitTipos == Init => Tipos
<1> SUFFICES ASSUME Init PROVE Tipos  OBVIOUS
<1>1. TypeOK
  <2>1. filas \in [Oferta -> Fila]  BY DEF Init, Fila
  <2>2. web \in [Skus -> Seq(Nat \ {0})]  BY OfertasAssumption DEF Init
  <2>3. t \in Tareas  BY DEF Init, Ocioso, Tareas
  <2>4. /\ tuits \in [Oferta -> Nat] /\ cola \subseteq Oferta
        /\ corrio \in BOOLEAN /\ leyo \in BOOLEAN
    BY DEF Init
  <2>5. enviadas \in 0..NumOfertas /\ hora \in 0..MaxHora /\ fallos \in 0..MaxFallos
    BY OfertasAssumption DEF Init
  <2> QED BY <2>1, <2>2, <2>3, <2>4, <2>5 DEF TypeOK
<1>2. EnMano  BY DEF Init, EnMano, Ocioso, Anunciando
<1>3. EnFilas  BY DEF Init, EnFilas, Ocioso
<1> QED BY <1>1, <1>2, <1>3 DEF Tipos

\* The message taken off the queue, and the offer at hand in a loop.
LEMMA PrimeraEs ==
    ASSUME TypeOK
    PROVE  /\ cola # {} => Min(cola) \in cola
           /\ t.off # {} => Min(t.off) \in t.off
           /\ t.off \subseteq Oferta
<1>1. /\ cola \in SUBSET Oferta /\ t.off \in SUBSET Oferta /\ Oferta \in SUBSET Nat
  BY DEF TypeOK, Tareas, Oferta
<1>2. /\ cola \in SUBSET Nat /\ t.off \in SUBSET Nat  BY <1>1
<1> QED BY <1>1, <1>2, MinEs

\* A step of the task that leaves the database and the shop alone.
SoloTarea ==
    \/ Iniciar \/ Pop \/ EmpezarPublicar \/ Saltar \/ Tuitear
    \/ EmpezarCambiar \/ SigueVigente \/ Terminar \/ Fallar

LEMMA NextTypeOK == ASSUME Tipos, Next PROVE TypeOK'
<1> USE DEF Tipos
<1>1. CASE EnviarOferta
  <2>1. enviadas + 1 \in Oferta  BY <1>1, OfertasAssumption DEF EnviarOferta, TypeOK, Oferta
  <2> QED BY <1>1, <2>1, OfertasAssumption DEF EnviarOferta, TypeOK, Oferta
<1>2. CASE Avanzar
  <2>1. hora' \in 0..MaxHora  BY <1>2, OfertasAssumption DEF Avanzar, TypeOK
  <2> QED BY <1>2, <2>1 DEF Avanzar, TypeOK
<1>3. CASE LeerProductos
  <2>1. web' \in [Skus -> Seq(Nat \ {0})]  BY <1>3, LeerEs DEF TypeOK, EnFilas
  <2> QED BY <1>3, <2>1 DEF LeerProductos, TypeOK
<1>4. CASE SoloTarea
  <2>1. t' \in Tareas
    <3> USE PrimeraEs DEF Tareas
    <3>1. CASE Iniciar \/ Terminar \/ Fallar
      BY <1>4, <3>1 DEF Iniciar, Terminar, Fallar, Ocioso
    <3>2. CASE Pop  BY <3>2 DEF Pop, TypeOK
    <3>3. CASE EmpezarPublicar \/ EmpezarCambiar
      <4>1. hora \in Nat  BY OfertasAssumption DEF TypeOK
      <4>2. ASSUME NEW c \in {"publicar", "cambiar"}, NEW D \in SUBSET Oferta
            PROVE  [t EXCEPT !.pc = c, !.ahora = hora, !.off = D] \in Tareas
        BY <4>1 DEF TypeOK
      <4>3. \E c \in {"publicar", "cambiar"}, D \in SUBSET Oferta :
                t' = [t EXCEPT !.pc = c, !.ahora = hora, !.off = D]
        BY <3>3, Zenon DEF EmpezarPublicar, EmpezarCambiar
      <4> QED BY <4>2, <4>3
    <3>4. CASE Saltar \/ SigueVigente  BY <3>4 DEF Saltar, SigueVigente, TypeOK
    <3>5. CASE Tuitear
      <4>1. SkuDe[Min(t.off)] \in Skus  BY <3>5, OfertasAssumption DEF Tuitear
      <4>2. Last(web[SkuDe[Min(t.off)]]) \in Nat
        BY <4>1, LeidoEs DEF TypeOK, EnFilas
      <4> QED BY <3>5, <4>2 DEF Tuitear, TypeOK
    <3> QED BY <1>4, <3>1, <3>2, <3>3, <3>4, <3>5 DEF SoloTarea
  <2>2. tuits' \in [Oferta -> Nat]
    BY <1>4 DEF SoloTarea, Iniciar, Pop, EmpezarPublicar, Saltar, Tuitear,
       EmpezarCambiar, SigueVigente, Terminar, Fallar, TypeOK
  <2>3. cola' \subseteq Oferta
    BY <1>4 DEF SoloTarea, Iniciar, Pop, EmpezarPublicar, Saltar, Tuitear,
       EmpezarCambiar, SigueVigente, Terminar, Fallar, TypeOK
  <2>4. fallos' \in 0..MaxFallos
    BY <1>4, OfertasAssumption DEF SoloTarea, Iniciar, Pop, EmpezarPublicar, Saltar,
       Tuitear, EmpezarCambiar, SigueVigente, Terminar, Fallar, TypeOK
  <2>5. /\ UNCHANGED <<enviadas, filas, web, hora, leyo>>
        /\ corrio' \in BOOLEAN
    BY <1>4 DEF SoloTarea, Iniciar, Pop, EmpezarPublicar, Saltar, Tuitear,
       EmpezarCambiar, SigueVigente, Terminar, Fallar, TypeOK
  <2> QED BY <2>1, <2>2, <2>3, <2>4, <2>5 DEF TypeOK
<1>5. CASE Crear \/ MarcarPublicado \/ GuardarBase \/ Cerrar \/ Devolver
  <2>1. t' \in Tareas
    <3>0. t \in Tareas /\ t.o \in Oferta \cup {0}  BY DEF TypeOK, Tareas
    <3>1. CASE Crear  BY <3>0, <3>1 DEF Crear, Tareas
    <3>2. CASE MarcarPublicado \/ GuardarBase
      BY <3>0, <3>2 DEF MarcarPublicado, GuardarBase, Tareas
    <3>3. CASE Cerrar \/ Devolver  BY <3>0, <3>3 DEF Cerrar, Devolver, Tareas
    <3> QED BY <1>5, <3>1, <3>2, <3>3
  <2>2. filas' \in [Oferta -> Fila]
    <3>1. \A u : /\ [filas EXCEPT ![u].existe = TRUE] \in [Oferta -> Fila]
                 /\ [filas EXCEPT ![u].fuePublicado = TRUE] \in [Oferta -> Fila]
                 /\ [filas EXCEPT ![u].TienePrecioBase = TRUE] \in [Oferta -> Fila]
                 /\ [filas EXCEPT ![u].TienePrecioBase = FALSE] \in [Oferta -> Fila]
      BY DEF TypeOK, Fila
    <3>2. \A u : \A n \in Nat :
              [filas EXCEPT ![u].precioBase = n] \in [Oferta -> Fila]
      BY DEF TypeOK, Fila
    <3>3. t.precioB \in Nat  BY DEF TypeOK, Tareas
    <3>4. CASE Crear \/ Devolver
      <4>1. \E u : \/ filas' = [filas EXCEPT ![u].existe = TRUE]
                   \/ filas' = [filas EXCEPT ![u].TienePrecioBase = TRUE]
        BY <3>4 DEF Crear, Devolver
      <4> QED BY <3>1, <4>1
    <3>5. CASE MarcarPublicado \/ Cerrar
      <4>1. \E u : \/ filas' = [filas EXCEPT ![u].fuePublicado = TRUE]
                   \/ filas' = [filas EXCEPT ![u].TienePrecioBase = FALSE]
        BY <3>5 DEF MarcarPublicado, Cerrar
      <4> QED BY <3>1, <4>1
    <3>6. CASE GuardarBase  BY <3>2, <3>3, <3>6, Zenon DEF GuardarBase
    <3> QED BY <1>5, <3>4, <3>5, <3>6
  <2>3. UNCHANGED <<enviadas, cola, web, hora, corrio, leyo, tuits, fallos>>
    BY <1>5 DEF Crear, MarcarPublicado, GuardarBase, Cerrar, Devolver
  <2> QED BY <2>1, <2>2, <2>3 DEF TypeOK
<1>6. CASE CambiarWeb \/ Restaurar
  <2>1. \E s \in Skus, p \in Nat \ {0} : PonerPrecio(s, p)
    <3>1. CASE CambiarWeb
      BY <3>1, OfertasAssumption DEF CambiarWeb, EnMano, Anunciando
    <3>2. CASE Restaurar
      BY <3>2, PrimeraEs, OfertasAssumption DEF Restaurar, EnFilas, TypeOK, Fila
    <3> QED BY <1>6, <3>1, <3>2
  <2>2. web' \in [Skus -> Seq(Nat \ {0})]  BY <2>1, PonerEs DEF TypeOK, EnFilas
  <2>3. t' \in Tareas
    BY <1>6, PrimeraEs DEF CambiarWeb, Restaurar, Tareas, TypeOK
  <2> QED BY <1>6, <2>2, <2>3 DEF CambiarWeb, Restaurar, TypeOK
<1> QED BY <1>1, <1>2, <1>3, <1>4, <1>5, <1>6 DEF Next, Tarea, SoloTarea

\* A row that exists stays, and only Crear makes one.
LEMMA FilasPaso ==
    ASSUME Tipos, Next
    PROVE  /\ \A o \in Oferta : filas[o].existe => filas'[o].existe
           /\ ~Crear => \A o \in Oferta : filas'[o].existe = filas[o].existe
<1>1. ASSUME Crear \/ MarcarPublicado \/ GuardarBase \/ Cerrar \/ Devolver,
             NEW o \in Oferta
      PROVE  /\ filas[o].existe => filas'[o].existe
             /\ ~Crear => filas'[o].existe = filas[o].existe
  <2>1. filas \in [Oferta -> Fila]  BY DEF Tipos, TypeOK
  <2>2. \E u : \/ Crear /\ filas' = [filas EXCEPT ![u].existe = TRUE]
               \/ filas' = [filas EXCEPT ![u].TienePrecioBase = TRUE]
               \/ filas' = [filas EXCEPT ![u].TienePrecioBase = FALSE]
               \/ filas' = [filas EXCEPT ![u].fuePublicado = TRUE]
               \/ \E n : filas' = [filas EXCEPT ![u].precioBase = n]
    BY <1>1 DEF Crear, MarcarPublicado, GuardarBase, Cerrar, Devolver
  <2> QED BY <2>1, <2>2 DEF Fila
<1>2. CASE ~(Crear \/ MarcarPublicado \/ GuardarBase \/ Cerrar \/ Devolver)
  BY <1>2 DEF Next, Tarea, EnviarOferta, Avanzar, LeerProductos, Iniciar, Pop,
     EmpezarPublicar, Saltar, Tuitear, CambiarWeb, EmpezarCambiar, SigueVigente,
     Restaurar, Terminar, Fallar
<1> QED BY <1>1, <1>2

LEMMA NextEnMano == ASSUME Tipos, Next PROVE EnMano'
<1> USE DEF Tipos
<1>0. /\ t \in Tareas /\ EnMano
      /\ \A o \in Oferta : filas[o].existe => filas'[o].existe
      /\ t.off \subseteq Oferta
  BY FilasPaso, PrimeraEs DEF TypeOK
<1>1. CASE UNCHANGED t  BY <1>0, <1>1 DEF EnMano, Anunciando
<1>2. CASE Iniciar \/ Terminar \/ Fallar
  BY <1>2 DEF Iniciar, Terminar, Fallar, Ocioso, EnMano, Anunciando
<1>3. CASE Pop \/ Crear
  BY <1>0, <1>3 DEF Pop, Crear, EnMano, Anunciando, Tareas
<1>4. CASE EmpezarPublicar \/ EmpezarCambiar
  <2>1. /\ t'.pc \in {"publicar", "cambiar"} /\ t'.mano = 0
        /\ \A o \in t'.off : o \in Oferta /\ filas[o].existe
    <3>1. CASE EmpezarPublicar
      <4>1. t' = [t EXCEPT !.pc = "publicar", !.ahora = hora, !.off = t'.off]
        BY <1>0, <3>1 DEF EmpezarPublicar, Tareas
      <4>2. t'.off = {o \in Oferta : filas[o].existe /\ ~filas[o].fuePublicado}
        BY <1>0, <3>1 DEF EmpezarPublicar, Tareas
      <4> QED BY <1>0, <3>1, <4>1, <4>2 DEF EmpezarPublicar, Tareas
    <3>2. CASE EmpezarCambiar
      <4>1. t' = [t EXCEPT !.pc = "cambiar", !.ahora = hora, !.off = t'.off]
        BY <1>0, <3>2 DEF EmpezarCambiar, Tareas
      <4>2. t'.off = {o \in Oferta : /\ filas[o].existe /\ filas[o].fuePublicado
                                     /\ ~filas[o].TienePrecioBase}
        BY <1>0, <3>2 DEF EmpezarCambiar, Tareas
      <4>3. t.mano = 0  BY <1>0, <3>2 DEF EmpezarCambiar, EnMano
      <4> QED BY <1>0, <4>1, <4>2, <4>3 DEF Tareas
    <3> QED BY <1>4, <3>1, <3>2
  <2> QED BY <1>0, <2>1 DEF EnMano, Anunciando
<1>5. CASE Saltar \/ SigueVigente
  BY <1>0, <1>5 DEF Saltar, SigueVigente, EnMano, Anunciando, Tareas
<1>6. CASE Tuitear
  <2>1. Min(t.off) \in t.off  BY <1>6, PrimeraEs DEF Tuitear
  <2>2. Last(web[SkuDe[Min(t.off)]]) # 0
    BY <1>0, <2>1, LeidoEs, OfertasAssumption DEF TypeOK, EnFilas
  <2> QED BY <1>0, <1>6, <2>1, <2>2 DEF Tuitear, EnMano, Anunciando, Tareas
<1>7. CASE MarcarPublicado \/ GuardarBase \/ CambiarWeb \/ Cerrar \/ Devolver
  <2>1. CASE MarcarPublicado \/ GuardarBase \/ CambiarWeb
    BY <1>0, <2>1 DEF MarcarPublicado, GuardarBase, CambiarWeb, EnMano, Anunciando, Tareas
  <2>2. CASE Cerrar \/ Devolver
    <3>1. /\ t'.pc \in {"publicar", "cambiar"} /\ t'.mano = t.mano
          /\ t'.off \subseteq t.off /\ t.pc # "leer"
      BY <1>0, <2>2 DEF Cerrar, Devolver, Tareas
    <3> QED BY <1>0, <3>1 DEF EnMano, Anunciando
  <2> QED BY <1>7, <2>1, <2>2
<1>8. CASE Restaurar
  <2>1. Min(t.off) \in t.off  BY <1>8, PrimeraEs DEF Restaurar
  <2> QED BY <1>0, <1>8, <2>1 DEF Restaurar, EnMano, Anunciando, Tareas
<1>9. CASE EnviarOferta \/ Avanzar \/ LeerProductos
  BY <1>1, <1>9 DEF EnviarOferta, Avanzar, LeerProductos
<1> QED
  BY <1>2, <1>3, <1>4, <1>5, <1>6, <1>7, <1>8, <1>9 DEF Next, Tarea

LEMMA NextEnFilas == ASSUME Tipos, Next PROVE EnFilas'
<1> USE DEF Tipos
<1>0. /\ t \in Tareas /\ EnMano /\ EnFilas /\ filas \in [Oferta -> Fila]
      /\ tuits \in [Oferta -> Nat] /\ t.off \subseteq Oferta
  BY PrimeraEs DEF TypeOK
<1>1. \A s \in Skus : Len(web'[s]) > 0
  <2>1. CASE LeerProductos  BY <2>1, LeerEs DEF TypeOK, EnFilas
  <2>2. CASE CambiarWeb \/ Restaurar
    <3>1. \E s \in Skus, p \in Nat \ {0} : PonerPrecio(s, p)
      <4>1. CASE CambiarWeb
        BY <4>1, OfertasAssumption DEF CambiarWeb, EnMano, Anunciando
      <4>2. CASE Restaurar
        BY <4>2, PrimeraEs, OfertasAssumption DEF Restaurar, EnFilas, TypeOK, Fila
      <4> QED BY <2>2, <4>1, <4>2
    <3> QED BY <3>1, PonerEs DEF TypeOK, EnFilas
  <2>3. CASE UNCHANGED web  BY <2>3 DEF EnFilas
  <2> QED
    BY <2>1, <2>2, <2>3 DEF Next, Tarea, EnviarOferta, Avanzar, Iniciar, Pop, Crear,
       EmpezarPublicar, Saltar, Tuitear, MarcarPublicado, GuardarBase, Cerrar,
       EmpezarCambiar, SigueVigente, Devolver, Terminar, Fallar
<1>2. ASSUME UNCHANGED <<filas, tuits>>,
             t'.pc \in {"precio", "cerrar"} => t.pc \in {"precio", "cerrar"} /\ t'.o = t.o,
             t'.pc \in {"cambiar", "devolver"} =>
                 t.pc \in {"cambiar", "devolver"} /\ t'.off \subseteq t.off
      PROVE  EnFilas'
  BY <1>0, <1>1, <1>2, UltimaIgual DEF EnFilas
<1>3. CASE \/ EnviarOferta \/ Avanzar \/ LeerProductos \/ Iniciar \/ Pop
           \/ EmpezarPublicar \/ Saltar \/ CambiarWeb \/ SigueVigente \/ Restaurar
           \/ Terminar
  <2>1. CASE EnviarOferta \/ Avanzar \/ LeerProductos
    BY <1>2, <2>1 DEF EnviarOferta, Avanzar, LeerProductos
  <2>2. CASE Iniciar \/ Terminar  BY <1>2, <2>2 DEF Iniciar, Terminar, Ocioso
  <2>3. CASE Pop \/ EmpezarPublicar
    BY <1>0, <1>2, <2>3 DEF Pop, EmpezarPublicar, Tareas
  <2>4. CASE Saltar \/ SigueVigente
    BY <1>0, <1>2, <2>4 DEF Saltar, SigueVigente, Tareas
  <2>5. CASE CambiarWeb \/ Restaurar
    BY <1>0, <1>2, <2>5 DEF CambiarWeb, Restaurar, Tareas
  <2> QED BY <1>3, <2>1, <2>2, <2>3, <2>4, <2>5
<1>4. CASE Crear  BY <1>0, <1>1, <1>4 DEF Crear, EnFilas, EnMano, Tareas, Fila
<1>5. CASE Tuitear \/ Fallar
  <2>1. t.off # {} => Min(t.off) \in t.off  BY PrimeraEs
  <2>2. \A o \in Oferta : ~filas[o].existe => tuits'[o] = 0
    BY <1>0, <1>5, <2>1 DEF Tuitear, Fallar, EnFilas, EnMano
  <2>3. filas' = filas /\ t'.pc \in {"libre", "marcar"}
    <3>1. CASE Tuitear  BY <1>0, <3>1 DEF Tuitear, Tareas
    <3>2. CASE Fallar  BY <3>2 DEF Fallar, Ocioso
    <3> QED BY <1>5, <3>1, <3>2
  <2> QED BY <1>0, <1>1, <2>2, <2>3 DEF EnFilas
<1>6. CASE EmpezarCambiar
  BY <1>0, <1>1, <1>6 DEF EmpezarCambiar, EnFilas, Tareas
<1>7. CASE MarcarPublicado \/ GuardarBase \/ Cerrar \/ Devolver
  <2>1. /\ t.o \in Oferta /\ filas[t.o].existe
        /\ t.pc \in {"marcar", "base"} => t.precioB # 0
    BY <1>7 DEF MarcarPublicado, GuardarBase, Cerrar, Devolver, EnMano, Anunciando
  <2>2. Ultima(SkuDe[t.o]) \in Oferta /\ filas[Ultima(SkuDe[t.o])].existe
    BY <2>1, UltimaEs
  <2>3. \A s : Ultima(s)' = Ultima(s)
    BY <1>7, FilasPaso, UltimaIgual
       DEF MarcarPublicado, GuardarBase, Cerrar, Devolver, Crear, EnMano
  <2> DEFINE u == Ultima(SkuDe[t.o])
  <2> HIDE DEF u
  <2>4. u \in Oferta /\ filas[u].existe  BY <2>2 DEF u
  <2>5. CASE MarcarPublicado
    <3>1. /\ filas' = [filas EXCEPT ![u].fuePublicado = TRUE] /\ tuits' = tuits
          /\ t'.pc = "base"
      BY <1>0, <2>5 DEF MarcarPublicado, u, Tareas
    <3> QED BY <1>0, <1>1, <2>4, <3>1 DEF EnFilas, Fila
  <2>6. CASE GuardarBase
    <3>1. /\ filas' = [filas EXCEPT ![u].precioBase = t.precioB] /\ tuits' = tuits
          /\ t'.pc = "precio" /\ t'.o = t.o /\ t.precioB # 0
      BY <1>0, <2>1, <2>6 DEF GuardarBase, u, Tareas
    <3>2. Ultima(SkuDe[t.o])' = u  BY <2>3, <3>1 DEF u
    <3> QED BY <1>0, <1>1, <2>4, <3>1, <3>2 DEF EnFilas, Fila
  <2>7. CASE Cerrar
    <3>1. /\ filas' = [filas EXCEPT ![u].TienePrecioBase = FALSE] /\ tuits' = tuits
          /\ t'.pc = "publicar" /\ filas[u].precioBase # 0
      BY <1>0, <2>7 DEF Cerrar, u, Tareas, EnFilas
    <3> QED BY <1>0, <1>1, <2>4, <3>1 DEF EnFilas, Fila
  <2>8. CASE Devolver
    <3>1. /\ filas' = [filas EXCEPT ![u].TienePrecioBase = TRUE] /\ tuits' = tuits
          /\ t'.pc = "cambiar" /\ t'.off \subseteq t.off /\ t.pc = "devolver"
      BY <1>0, <2>8 DEF Devolver, u, Tareas
    <3> QED BY <1>0, <1>1, <2>4, <3>1 DEF EnFilas, Fila
  <2> QED BY <1>7, <2>5, <2>6, <2>7, <2>8
<1> QED
  BY <1>3, <1>4, <1>5, <1>6, <1>7 DEF Next, Tarea

\* The types, with what they rest on: what is put back as a price is a
\* price, whatever order offers, prices and restorations come in.
THEOREM TiposSiempre == Spec => []Tipos
<1>1. Tipos /\ [Next]_vars => Tipos'
  <2> SUFFICES ASSUME Tipos, [Next]_vars PROVE Tipos'  OBVIOUS
  <2>1. CASE Next  BY <2>1, NextTypeOK, NextEnMano, NextEnFilas DEF Tipos
  <2>2. CASE UNCHANGED vars
    BY <2>2 DEF vars, Tipos, TypeOK, EnMano, EnFilas, Ultima
  <2> QED BY <2>1, <2>2
<1> QED BY <1>1, InitTipos, PTL DEF Spec

\* In particular every variable keeps its type.
THEOREM TypeCorrect == Spec => []TypeOK
<1>1. Tipos => TypeOK  BY DEF Tipos
<1> QED BY <1>1, TiposSiempre, PTL

-----------------------------------------------------------------------------
(* No offer is lost but by a stop of the task *)

Perdidas == {o \in 1..enviadas : o \notin cola /\ o # t.mano /\ ~filas[o].existe}

LEMMA NextPerdidas ==
    ASSUME Tipos, Next
    PROVE  \/ Perdidas' \subseteq Perdidas /\ fallos' = fallos
           \/ Perdidas' \subseteq Perdidas \cup {t.mano} /\ fallos' = fallos + 1
<1>0. /\ t \in Tareas /\ enviadas \in Nat /\ 1..enviadas \subseteq Oferta
      /\ \A o \in Oferta : filas[o].existe => filas'[o].existe
  <2>1. enviadas \in Nat /\ 1..enviadas \subseteq Oferta
    BY OfertasAssumption DEF Tipos, TypeOK, Oferta
  <2> QED BY <2>1, FilasPaso DEF Tipos, TypeOK
<1>1. CASE EnviarOferta
  BY <1>0, <1>1 DEF EnviarOferta, Perdidas
<1>2. ASSUME enviadas' = enviadas, cola' = cola, fallos' = fallos,
             t'.mano = t.mano \/ t.mano = 0
      PROVE  Perdidas' \subseteq Perdidas
  BY <1>0, <1>2 DEF Perdidas
<1>3. CASE Avanzar \/ LeerProductos  BY <1>2, <1>3 DEF Avanzar, LeerProductos
<1>4. CASE Pop
  <2>1. /\ t.mano = 0 /\ enviadas' = enviadas /\ fallos' = fallos /\ filas' = filas
        /\ t'.mano = Min(cola) /\ cola' = cola \ {Min(cola)}
    BY <1>0, <1>4 DEF Pop, Tareas
  <2> QED BY <1>0, <2>1 DEF Perdidas
<1>5. CASE Crear
  <2>1. /\ enviadas' = enviadas /\ fallos' = fallos /\ cola' = cola
        /\ t.mano \in Oferta => filas'[t.mano].existe
    BY <1>0, <1>5 DEF Crear, Tipos, TypeOK, Fila
  <2> QED BY <1>0, <2>1 DEF Perdidas
<1>6. CASE Fallar
  <2>1. /\ fallos' = fallos + 1 /\ enviadas' = enviadas /\ cola' = cola
        /\ filas' = filas
    BY <1>6 DEF Fallar
  <2> QED BY <2>1 DEF Perdidas
<1>7. CASE Iniciar \/ Terminar
  <2>1. t.mano = 0  BY <1>7 DEF Iniciar, Terminar, Tipos, EnMano
  <2> QED BY <1>2, <1>7, <2>1 DEF Iniciar, Terminar
<1>8. CASE EmpezarPublicar \/ EmpezarCambiar \/ Saltar \/ SigueVigente
  BY <1>0, <1>2, <1>8 DEF EmpezarPublicar, EmpezarCambiar, Saltar, SigueVigente, Tareas
<1>9. CASE Tuitear \/ Restaurar
  BY <1>0, <1>2, <1>9 DEF Tuitear, Restaurar, Tareas
<1>10. CASE MarcarPublicado \/ GuardarBase \/ CambiarWeb \/ Cerrar \/ Devolver
  BY <1>0, <1>2, <1>10 DEF MarcarPublicado, GuardarBase, CambiarWeb, Cerrar, Devolver,
     Tareas
<1> QED
  BY <1>1, <1>3, <1>4, <1>5, <1>6, <1>7, <1>8, <1>9, <1>10 DEF Next, Tarea

\* Each stop of the task loses one offer at most, the one it had taken off the
\* queue (rabbitmpq.rb:34-38).
THEOREM PerdidaSiempre == Spec => []PerdidaSoloPorFallo
<1>1. PerdidaSoloPorFallo <=> Cardinality(Perdidas) <= fallos
  BY DEF PerdidaSoloPorFallo, Perdidas
<1>2. Init => PerdidaSoloPorFallo
  <2> SUFFICES ASSUME Init PROVE PerdidaSoloPorFallo  OBVIOUS
  <2>1. Perdidas = {}  BY DEF Init, Perdidas
  <2> QED BY <1>1, <2>1, FS_EmptySet DEF Init
<1>3. Tipos /\ Tipos' /\ PerdidaSoloPorFallo /\ [Next]_vars => PerdidaSoloPorFallo'
  <2> SUFFICES ASSUME Tipos, Tipos', PerdidaSoloPorFallo, [Next]_vars
               PROVE  PerdidaSoloPorFallo'
    OBVIOUS
  <2>1. IsFiniteSet(Perdidas) /\ Cardinality(Perdidas) \in Nat /\ fallos \in Nat
    <3>1. IsFiniteSet(1..enviadas)
      BY FS_Interval, OfertasAssumption DEF Tipos, TypeOK
    <3>2. Perdidas \in SUBSET (1..enviadas)  BY DEF Perdidas
    <3>3. IsFiniteSet(Perdidas)  BY <3>1, <3>2, FS_Subset
    <3>4. fallos \in Nat  BY OfertasAssumption DEF Tipos, TypeOK
    <3> QED BY <3>3, <3>4, FS_CardinalityType
  <2>2. IsFiniteSet(Perdidas \cup {t.mano})
    BY <2>1, FS_AddElement
  <2>3. /\ Cardinality(Perdidas \cup {t.mano}) \in Nat
        /\ Cardinality(Perdidas \cup {t.mano}) <= Cardinality(Perdidas) + 1
    BY <2>1, FS_AddElement
  <2>4. CASE Next
    <3>1. ASSUME Perdidas' \subseteq Perdidas, fallos' = fallos
          PROVE  PerdidaSoloPorFallo'
      <4>1. Cardinality(Perdidas') <= Cardinality(Perdidas) /\ IsFiniteSet(Perdidas')
        BY <2>1, <3>1, FS_Subset
      <4>2. Cardinality(Perdidas') \in Nat  BY <4>1, FS_CardinalityType
      <4> QED BY <1>1, <2>1, <3>1, <4>1, <4>2 DEF PerdidaSoloPorFallo, Perdidas
    <3>2. ASSUME Perdidas' \subseteq Perdidas \cup {t.mano}, fallos' = fallos + 1
          PROVE  PerdidaSoloPorFallo'
      <4>1. /\ Cardinality(Perdidas') <= Cardinality(Perdidas \cup {t.mano})
            /\ IsFiniteSet(Perdidas')
        BY <2>2, <3>2, FS_Subset
      <4>2. Cardinality(Perdidas') \in Nat  BY <4>1, FS_CardinalityType
      <4>3. Cardinality(Perdidas') <= fallos'
        BY <1>1, <2>1, <2>3, <3>2, <4>1, <4>2
      <4> QED BY <4>3 DEF PerdidaSoloPorFallo, Perdidas
    <3> QED BY <2>4, <3>1, <3>2, NextPerdidas
  <2>5. CASE UNCHANGED vars
    BY <2>5 DEF vars, PerdidaSoloPorFallo
  <2> QED BY <2>4, <2>5
<1> QED BY <1>2, <1>3, TiposSiempre, PTL DEF Spec

-----------------------------------------------------------------------------
(* The steps of the task *)

LEMMA PasoAnunciar ==
    ASSUME Tipos
    PROVE  /\ Tuitear => /\ t'.pc = "marcar" /\ t'.off = t.off /\ t'.o = Min(t.off)
                         /\ t'.precioB = Last(web[SkuDe[Min(t.off)]])
           /\ MarcarPublicado => /\ t'.pc = "base" /\ t'.off = t.off /\ t'.o = t.o
                                 /\ t'.precioB = t.precioB
           /\ GuardarBase => t'.pc = "precio" /\ t'.off = t.off /\ t'.o = t.o
           /\ CambiarWeb => t'.pc = "cerrar" /\ t'.off = t.off /\ t'.o = t.o
           /\ Cerrar => t'.pc = "publicar" /\ t'.off = t.off \ {t.o}
<1> USE DEF Tipos, TypeOK, Tareas
<1>1. Tuitear => /\ t'.pc = "marcar" /\ t'.off = t.off /\ t'.o = Min(t.off)
                 /\ t'.precioB = Last(web[SkuDe[Min(t.off)]])
  BY DEF Tuitear
<1>2. MarcarPublicado => /\ t'.pc = "base" /\ t'.off = t.off /\ t'.o = t.o
                         /\ t'.precioB = t.precioB
  BY DEF MarcarPublicado
<1>3. GuardarBase => t'.pc = "precio" /\ t'.off = t.off /\ t'.o = t.o
  BY DEF GuardarBase
<1>4. CambiarWeb => t'.pc = "cerrar" /\ t'.off = t.off /\ t'.o = t.o
  BY DEF CambiarWeb
<1>5. Cerrar => t'.pc = "publicar" /\ t'.off = t.off \ {t.o}
  BY DEF Cerrar
<1> QED BY <1>1, <1>2, <1>3, <1>4, <1>5

LEMMA PasoCambiar ==
    ASSUME Tipos
    PROVE  /\ Saltar \/ SigueVigente => t'.pc = t.pc /\ t'.off = t.off \ {Min(t.off)}
           /\ Restaurar => t'.pc = "devolver" /\ t'.off = t.off /\ t'.o = Min(t.off)
           /\ Devolver => t'.pc = "cambiar" /\ t'.off = t.off \ {t.o}
           /\ EmpezarPublicar =>
                  /\ t'.pc = "publicar"
                  /\ t'.off = {o \in Oferta : filas[o].existe /\ ~filas[o].fuePublicado}
           /\ EmpezarCambiar =>
                  /\ t'.pc = "cambiar"
                  /\ t'.off = {o \in Oferta : /\ filas[o].existe /\ filas[o].fuePublicado
                                              /\ ~filas[o].TienePrecioBase}
           /\ Iniciar \/ Pop => t'.pc = "leer"
           /\ Crear => t'.pc = t.pc /\ t.pc = "leer"
           /\ Terminar \/ Fallar => t'.pc = "libre"
<1> USE DEF Tipos, TypeOK, Tareas
<1>1. /\ Saltar \/ SigueVigente => t'.pc = t.pc /\ t'.off = t.off \ {Min(t.off)}
      /\ Restaurar => t'.pc = "devolver" /\ t'.off = t.off /\ t'.o = Min(t.off)
      /\ Devolver => t'.pc = "cambiar" /\ t'.off = t.off \ {t.o}
  BY DEF Saltar, SigueVigente, Restaurar, Devolver
<1>2. EmpezarPublicar =>
          /\ t'.pc = "publicar"
          /\ t'.off = {o \in Oferta : filas[o].existe /\ ~filas[o].fuePublicado}
  BY DEF EmpezarPublicar
<1>3. EmpezarCambiar =>
          /\ t'.pc = "cambiar"
          /\ t'.off = {o \in Oferta : /\ filas[o].existe /\ filas[o].fuePublicado
                                      /\ ~filas[o].TienePrecioBase}
  BY DEF EmpezarCambiar
<1>4. /\ Iniciar \/ Pop => t'.pc = "leer"
      /\ Crear => t'.pc = t.pc /\ t.pc = "leer"
      /\ Terminar \/ Fallar => t'.pc = "libre"
  BY DEF Iniciar, Pop, Crear, Terminar, Fallar, Ocioso, EnMano
<1> QED BY <1>1, <1>2, <1>3, <1>4

\* The offer at hand is announced before it is marked, and is the same, with
\* the price that was read, until it is done.
LEMMA PasoMismo ==
    ASSUME Tipos, Next, ~Tuitear
    PROVE  /\ t'.pc \in Anunciando => t.pc \in Anunciando /\ t'.o = t.o
           /\ t'.pc \in {"marcar", "base"} =>
                  t.pc \in {"marcar", "base"} /\ t'.o = t.o /\ t'.precioB = t.precioB
<1>1. CASE UNCHANGED t  BY <1>1
<1>2. CASE MarcarPublicado \/ GuardarBase \/ CambiarWeb \/ Cerrar
  BY <1>2, PasoAnunciar DEF MarcarPublicado, GuardarBase, CambiarWeb, Cerrar, Anunciando
<1>3. CASE \/ Saltar \/ SigueVigente \/ Restaurar \/ Devolver \/ EmpezarPublicar
           \/ EmpezarCambiar \/ Iniciar \/ Pop \/ Crear \/ Terminar \/ Fallar
  <2>1. t'.pc \notin Anunciando
    BY <1>3, PasoCambiar DEF Saltar, SigueVigente, Anunciando
  <2> QED BY <2>1 DEF Anunciando
<1> QED
  BY <1>1, <1>2, <1>3 DEF Next, Tarea, EnviarOferta, Avanzar, LeerProductos

-----------------------------------------------------------------------------
(* No price of an offer before its announcement *)

\* What was announced stays announced.
LEMMA TuitsCrecen ==
    ASSUME Tipos, Next
    PROVE  \A o \in Oferta : tuits'[o] = tuits[o] \/ tuits'[o] = tuits[o] + 1
<1>1. tuits \in [Oferta -> Nat]  BY DEF Tipos, TypeOK
<1>2. \/ tuits' = tuits
      \/ \E o : tuits' = [tuits EXCEPT ![o] = @ + 1]
  BY DEF Next, Tarea, EnviarOferta, Avanzar, LeerProductos, Iniciar, Pop, Crear,
     EmpezarPublicar, Saltar, Tuitear, MarcarPublicado, GuardarBase, CambiarWeb, Cerrar,
     EmpezarCambiar, SigueVigente, Restaurar, Devolver, Terminar, Fallar
<1> QED BY <1>1, <1>2

LEMMA AvisadoQueda ==
    ASSUME Tipos, Next, NEW s, NEW p, Avisado(s, p)
    PROVE  Avisado(s, p)'
<1>1. tuits \in [Oferta -> Nat]  BY DEF Tipos, TypeOK
<1> QED BY <1>1, TuitsCrecen DEF Avisado

\* A step leaves the prices of the shop, restores a base price, or sets the
\* price of the offer at hand.
LEMMA NextAvisoPrevio == ASSUME Tipos, Avisos, Next PROVE AvisoPrevio'
<1>0. /\ web \in [Skus -> Seq(Nat \ {0})] /\ (\A s \in Skus : Len(web[s]) > 0)
      /\ t \in Tareas /\ filas \in [Oferta -> Fila]
  BY DEF Tipos, TypeOK, EnFilas
<1>1. ASSUME NEW s \in Skus, NEW p \in ToSet(web'[s]) PROVE Avisado(s, p)'
  <2>1. p \in ToSet(web[s]) => Avisado(s, p)
    BY DEF Avisos, AvisoPrevio, Avisado
  <2>2. CASE web' = web  BY <2>1, <2>2, AvisadoQueda
  <2>3. CASE LeerProductos
    <3>1. p \in ToSet(web[s]) \/ p = PrecioNormal[s]  BY <1>0, <2>3, LeerEs
    <3>2. Avisado(s, p)  BY <2>1, <3>1 DEF Avisado
    <3> QED BY <3>2, AvisadoQueda
  <2>4. CASE CambiarWeb
    <3>1. /\ t.o \in Oferta /\ tuits[t.o] > 0 /\ PonerPrecio(SkuDe[t.o], Precio[t.o])
      BY <2>4 DEF CambiarWeb, Tipos, EnMano, Avisos, Anunciando
    <3>2. SkuDe[t.o] \in Skus /\ Precio[t.o] \in Nat \ {0}
      BY <3>1, OfertasAssumption
    <3>3. p \in ToSet(web[s]) \/ (s = SkuDe[t.o] /\ p = Precio[t.o])
      BY <1>0, <3>1, <3>2, PonerEs
    <3>4. Avisado(s, p)  BY <2>1, <3>1, <3>3 DEF Avisado
    <3> QED BY <3>4, AvisadoQueda
  <2>5. CASE Restaurar
    <3> DEFINE o == Min(t.off)
    <3>1. /\ o \in Oferta /\ PonerPrecio(SkuDe[o], filas[o].precioBase)
          /\ filas[o].precioBase # 0
      BY <2>5, PrimeraEs DEF Restaurar, Tipos, EnFilas
    <3> HIDE DEF o
    <3>2. SkuDe[o] \in Skus /\ filas[o].precioBase \in Nat \ {0}
      BY <1>0, <3>1, OfertasAssumption DEF Fila
    <3>3. p \in ToSet(web[s]) \/ (s = SkuDe[o] /\ p = filas[o].precioBase)
      BY <1>0, <3>1, <3>2, PonerEs
    <3>4. Avisado(s, p)  BY <2>1, <3>1, <3>3 DEF Avisos
    <3> QED BY <3>4, AvisadoQueda
  <2> QED
    BY <2>2, <2>3, <2>4, <2>5 DEF Next, Tarea, EnviarOferta, Avanzar, Iniciar, Pop, Crear,
       EmpezarPublicar, Saltar, Tuitear, MarcarPublicado, GuardarBase, Cerrar,
       EmpezarCambiar, SigueVigente, Devolver, Terminar, Fallar
<1> QED BY <1>1 DEF AvisoPrevio, Avisado

\* The base price kept is one read from the shop.
LEMMA NextAvisos == ASSUME Tipos, Avisos, Next PROVE Avisos'
<1>0. /\ t \in Tareas /\ filas \in [Oferta -> Fila] /\ tuits \in [Oferta -> Nat]
      /\ web \in [Skus -> Seq(Nat \ {0})] /\ (\A s \in Skus : Len(web[s]) > 0)
  BY DEF Tipos, TypeOK, EnFilas
<1>1. AvisoPrevio'  BY NextAvisoPrevio
<1>2. t'.pc \in Anunciando => tuits'[t'.o] > 0
  <2>1. CASE Tuitear
    <3>1. Min(t.off) \in Oferta  BY <2>1, PrimeraEs DEF Tuitear, Tipos
    <3> QED BY <1>0, <2>1, <3>1 DEF Tuitear, Tareas
  <2>2. CASE ~Tuitear
    <3>1. t'.pc \in Anunciando => t.pc \in Anunciando /\ t'.o = t.o
      BY <2>2, PasoMismo
    <3>2. t.pc \in Anunciando => t.o \in Oferta /\ tuits[t.o] > 0
      BY DEF Avisos, Tipos, EnMano
    <3>3. t.o \in Oferta => tuits[t.o] \in Nat  BY <1>0
    <3> QED BY <3>1, <3>2, <3>3, TuitsCrecen
  <2> QED BY <2>1, <2>2
<1>3. t'.pc \in {"marcar", "base"} => Avisado(SkuDe[t.o], t.precioB)'
  <2>1. CASE Tuitear
    <3> DEFINE o == Min(t.off)  s == SkuDe[o]  p == Last(web[s])
    <3>1. o \in Oferta  BY <2>1, PrimeraEs DEF Tuitear, Tipos
    <3>2. s \in Skus  BY <3>1, OfertasAssumption
    <3>3. p \in ToSet(web[s])  BY <1>0, <3>2, LeidoEs
    <3>4. t'.o = o /\ t'.precioB = p  BY <1>0, <2>1 DEF Tuitear, Tareas
    <3> HIDE DEF o, s, p
    <3>5. Avisado(s, p)  BY <3>2, <3>3 DEF Avisos, AvisoPrevio, Avisado
    <3>6. s = SkuDe[t'.o]  BY <3>4 DEF s
    <3> QED BY <3>4, <3>5, <3>6, AvisadoQueda
  <2>2. CASE ~Tuitear
    <3>1. t'.pc \in {"marcar", "base"} =>
              t.pc \in {"marcar", "base"} /\ t'.o = t.o /\ t'.precioB = t.precioB
      BY <2>2, PasoMismo
    <3> QED BY <3>1, AvisadoQueda DEF Avisos
  <2> QED BY <2>1, <2>2
<1>4. ASSUME NEW o \in Oferta, filas'[o].precioBase # 0
      PROVE  Avisado(SkuDe[o], filas[o].precioBase)'
  <2>1. CASE filas'[o].precioBase = filas[o].precioBase
    <3>1. Avisado(SkuDe[o], filas[o].precioBase)  BY <1>4, <2>1 DEF Avisos
    <3> QED BY <2>1, <3>1, AvisadoQueda
  <2>2. CASE GuardarBase
    <3>1. /\ t.o \in Oferta /\ filas[t.o].existe /\ Avisado(SkuDe[t.o], t.precioB)
      BY <2>2 DEF GuardarBase, Tipos, EnMano, Avisos, Anunciando
    <3> DEFINE u == Ultima(SkuDe[t.o])
    <3>2. u \in Oferta /\ SkuDe[u] = SkuDe[t.o]  BY <3>1, UltimaEs
    <3>3. filas' = [filas EXCEPT ![u].precioBase = t.precioB]
      BY <2>2 DEF GuardarBase
    <3> HIDE DEF u
    <3>4. filas'[o].precioBase = filas[o].precioBase
            \/ (o = u /\ filas'[o].precioBase = t.precioB)
      BY <1>0, <3>2, <3>3 DEF Fila
    <3>5. CASE o = u /\ filas'[o].precioBase = t.precioB
      <4>1. Avisado(SkuDe[o], t.precioB)  BY <3>1, <3>2, <3>5
      <4> QED BY <3>5, <4>1, AvisadoQueda
    <3> QED BY <2>1, <3>4, <3>5
  <2>3. CASE Crear \/ MarcarPublicado \/ Cerrar \/ Devolver
    <3>1. \E u : \/ filas' = [filas EXCEPT ![u].existe = TRUE]
                 \/ filas' = [filas EXCEPT ![u].TienePrecioBase = TRUE]
                 \/ filas' = [filas EXCEPT ![u].TienePrecioBase = FALSE]
                 \/ filas' = [filas EXCEPT ![u].fuePublicado = TRUE]
      BY <2>3 DEF Crear, MarcarPublicado, Cerrar, Devolver
    <3>2. filas'[o].precioBase = filas[o].precioBase
      <4>1. filas[o] \in Fila  BY <1>0
      <4>2. PICK u : \/ filas' = [filas EXCEPT ![u].existe = TRUE]
                     \/ filas' = [filas EXCEPT ![u].TienePrecioBase = TRUE]
                     \/ filas' = [filas EXCEPT ![u].TienePrecioBase = FALSE]
                     \/ filas' = [filas EXCEPT ![u].fuePublicado = TRUE]
        BY <3>1
      <4>3. filas'[o] \in {filas[o], [filas[o] EXCEPT !.existe = TRUE],
                           [filas[o] EXCEPT !.TienePrecioBase = TRUE],
                           [filas[o] EXCEPT !.TienePrecioBase = FALSE],
                           [filas[o] EXCEPT !.fuePublicado = TRUE]}
        BY <1>0, <4>2
      <4> QED BY <4>1, <4>3 DEF Fila
    <3> QED BY <2>1, <3>2
  <2>4. CASE UNCHANGED filas  BY <2>1, <2>4
  <2> QED
    BY <2>2, <2>3, <2>4 DEF Next, Tarea, EnviarOferta, Avanzar, LeerProductos, Iniciar,
       Pop, EmpezarPublicar, Saltar, Tuitear, CambiarWeb, EmpezarCambiar, SigueVigente,
       Restaurar, Terminar, Fallar
<1> QED BY <1>1, <1>2, <1>3, <1>4 DEF Avisos

\* A product has the price of an offer only once that offer was announced,
\* whatever rows are marked in its place (offer.rb:16-20).
THEOREM AvisoSiempre == Spec => []AvisoPrevio
<1>1. Init => Avisos
  BY DEF Init, Ocioso, Avisos, AvisoPrevio, Avisado, ToSet, Anunciando
<1>2. Tipos /\ Avisos /\ [Next]_vars => Avisos'
  <2> SUFFICES ASSUME Tipos, Avisos, [Next]_vars PROVE Avisos'  OBVIOUS
  <2>1. CASE UNCHANGED vars
    BY <2>1 DEF vars, Avisos, AvisoPrevio, Avisado
  <2> QED BY <2>1, NextAvisos
<1>3. Avisos => AvisoPrevio  BY DEF Avisos
<1> QED BY <1>1, <1>2, <1>3, TiposSiempre, PTL DEF Spec

-----------------------------------------------------------------------------
(* The announcements of an offer *)

\* What each step does to a row.
LEMMA PasoFila ==
    ASSUME Tipos, Next, NEW o \in Oferta
    PROVE  LET u == Ultima(SkuDe[t.o])
           IN  /\ MarcarPublicado /\ o = u => filas'[o].fuePublicado
               /\ ~(MarcarPublicado /\ o = u) =>
                      filas'[o].fuePublicado = filas[o].fuePublicado
               /\ Cerrar /\ o = u => ~filas'[o].TienePrecioBase
               /\ Devolver /\ o = u => filas'[o].TienePrecioBase
               /\ ~((Cerrar \/ Devolver) /\ o = u) =>
                      filas'[o].TienePrecioBase = filas[o].TienePrecioBase
               /\ GuardarBase /\ o = u => filas'[o].precioBase = t.precioB
               /\ ~(GuardarBase /\ o = u) =>
                      filas'[o].precioBase = filas[o].precioBase
<1> DEFINE u == Ultima(SkuDe[t.o])
<1>0. filas \in [Oferta -> Fila] /\ filas[o] \in Fila  BY DEF Tipos, TypeOK
<1>1. /\ MarcarPublicado =>
             filas'[o] = IF o = u THEN [filas[o] EXCEPT !.fuePublicado = TRUE] ELSE filas[o]
      /\ Cerrar =>
             filas'[o] = IF o = u THEN [filas[o] EXCEPT !.TienePrecioBase = FALSE]
                         ELSE filas[o]
      /\ Devolver =>
             filas'[o] = IF o = u THEN [filas[o] EXCEPT !.TienePrecioBase = TRUE]
                         ELSE filas[o]
      /\ GuardarBase =>
             filas'[o] = IF o = u THEN [filas[o] EXCEPT !.precioBase = t.precioB]
                         ELSE filas[o]
      /\ Crear => filas'[o] \in {filas[o], [filas[o] EXCEPT !.existe = TRUE]}
  BY <1>0 DEF MarcarPublicado, Cerrar, Devolver, GuardarBase, Crear
<1>2. \/ MarcarPublicado \/ Cerrar \/ Devolver \/ GuardarBase \/ Crear
      \/ filas' = filas
  BY DEF Next, Tarea, EnviarOferta, Avanzar, LeerProductos, Iniciar, Pop,
     EmpezarPublicar, Saltar, Tuitear, CambiarWeb, EmpezarCambiar, SigueVigente,
     Restaurar, Terminar, Fallar
<1>3. /\ MarcarPublicado => t.pc = "marcar"
      /\ Cerrar => t.pc = "cerrar"
      /\ Devolver => t.pc = "devolver"
      /\ GuardarBase => t.pc = "base"
      /\ Crear => t.pc = "leer"
  BY PasoCambiar DEF MarcarPublicado, Cerrar, Devolver, GuardarBase
<1> HIDE DEF u
<1>4. CASE MarcarPublicado  BY <1>0, <1>1, <1>3, <1>4 DEF Fila, u
<1>5. CASE Cerrar  BY <1>0, <1>1, <1>3, <1>5 DEF Fila, u
<1>6. CASE Devolver  BY <1>0, <1>1, <1>3, <1>6 DEF Fila, u
<1>7. CASE GuardarBase  BY <1>0, <1>1, <1>3, <1>7 DEF Fila, u
<1>8. CASE Crear  BY <1>0, <1>1, <1>3, <1>8 DEF Fila, u
<1>9. CASE ~(MarcarPublicado \/ Cerrar \/ Devolver \/ GuardarBase \/ Crear)
  BY <1>2, <1>9
<1> QED BY <1>4, <1>5, <1>6, <1>7, <1>8, <1>9

\* The newest offer of a product was the newest since it was created.
LEMMA UltimaQueda ==
    ASSUME Tipos, Next, NEW o \in Oferta, filas[o].existe, Ultima(SkuDe[o])' = o
    PROVE  Ultima(SkuDe[o]) = o
<1> DEFINE S == {p \in Oferta : filas'[p].existe /\ SkuDe[p] = SkuDe[o]}
           u == Ultima(SkuDe[o])
<1>1. Max(S) = o  BY DEF Ultima
<1>2. o \in S /\ S \in SUBSET Oferta  BY FilasPaso
<1>3. u \in S /\ o <= u /\ u \in Oferta
  BY UltimaEs, FilasPaso
<1>4. \A p \in S : p <= Max(S)
  <2> HIDE DEF S
  <2> QED BY <1>2, MaxEs
<1> HIDE DEF S, u
<1>5. u <= o  BY <1>1, <1>3, <1>4
<1>6. u = o  BY <1>3, <1>5 DEF Oferta
<1> QED BY <1>6 DEF u

LEMMA NextTuits == ASSUME Tipos, Tipos', Tuits, Next PROVE Tuits'
<1> SUFFICES ASSUME NEW o \in Oferta, filas'[o].existe, Ultima(SkuDe[o])' = o
             PROVE  /\ tuits'[o] <= 1 + fallos'
                    /\ ~filas'[o].fuePublicado /\ ~(t'.pc = "marcar" /\ t'.o = o) =>
                           tuits'[o] <= fallos'
                    /\ t'.pc \in Publicando /\ o \in t'.off /\ ~EnCurso(o)' =>
                           tuits'[o] <= fallos'
  BY DEF Tuits
<1> USE DEF Publicando, Anunciando, EnCurso
<1>0. /\ tuits \in [Oferta -> Nat] /\ tuits'[o] \in Nat /\ fallos \in Nat
      /\ t.off \subseteq Oferta
  <2>1. fallos \in Nat  BY OfertasAssumption DEF Tipos, TypeOK
  <2> QED BY <2>1, PrimeraEs DEF Tipos, TypeOK
<1>1. CASE ~filas[o].existe
  <2>1. Crear  BY <1>1, FilasPaso
  <2>2. tuits[o] = 0  BY <1>1 DEF Tipos, EnFilas
  <2> QED BY <1>0, <2>1, <2>2 DEF Crear
<1>2. CASE filas[o].existe
  <2>1. Ultima(SkuDe[o]) = o  BY <1>2, UltimaQueda
  <2>2. /\ tuits[o] <= 1 + fallos
        /\ ~filas[o].fuePublicado /\ ~(t.pc = "marcar" /\ t.o = o) => tuits[o] <= fallos
        /\ t.pc \in Publicando /\ o \in t.off /\ ~EnCurso(o) => tuits[o] <= fallos
    BY <1>2, <2>1 DEF Tuits
  <2>3. CASE Tuitear
    <3>1. /\ Min(t.off) \in t.off /\ t.pc = "publicar" /\ fallos' = fallos
          /\ tuits' = [tuits EXCEPT ![Min(t.off)] = @ + 1] /\ filas' = filas
      BY <2>3, PrimeraEs DEF Tuitear, Tipos
    <3>2. t'.pc = "marcar" /\ t'.off = t.off /\ t'.o = Min(t.off)
      BY <2>3, PasoAnunciar
    <3>3. CASE o = Min(t.off)
      <4>1. tuits[o] <= fallos  BY <2>2, <3>1, <3>3
      <4> QED BY <1>0, <3>1, <3>2, <3>3, <4>1
    <3>4. CASE o # Min(t.off)
      <4>1. tuits'[o] = tuits[o]  BY <1>0, <3>1, <3>4
      <4> QED BY <2>2, <3>1, <3>2, <3>4, <4>1
    <3> QED BY <3>3, <3>4
  <2>4. CASE Fallar
    <3>1. t'.pc = "libre" /\ fallos' = fallos + 1  BY <2>4, PasoCambiar DEF Fallar
    <3>2. tuits[o] <= 1 + fallos /\ tuits[o] \in Nat  BY <1>0, <2>2
    <3>3. tuits'[o] <= fallos'
      <4>1. CASE tuits' = tuits  BY <1>0, <3>1, <3>2, <4>1
      <4>2. CASE /\ t.pc = "publicar" /\ t.off # {}
                 /\ tuits' = [tuits EXCEPT ![Min(t.off)] = @ + 1]
        <5>1. Min(t.off) \in t.off  BY <4>2, PrimeraEs DEF Tipos
        <5>2. o = Min(t.off) => tuits[o] <= fallos  BY <2>2, <4>2, <5>1
        <5> QED BY <1>0, <3>1, <3>2, <4>2, <5>1, <5>2
      <4> QED BY <2>4, <4>1, <4>2 DEF Fallar
    <3> QED BY <1>0, <3>1, <3>3
  <2>5. CASE ~(Tuitear \/ Fallar)
    <3>1. tuits' = tuits /\ fallos' = fallos
      BY <2>5 DEF Next, Tarea, EnviarOferta, Avanzar, LeerProductos, Iniciar, Pop, Crear,
         EmpezarPublicar, Saltar, MarcarPublicado, GuardarBase, CambiarWeb, Cerrar,
         EmpezarCambiar, SigueVigente, Restaurar, Devolver, Terminar
    <3>2. ASSUME ~filas'[o].fuePublicado, ~(t'.pc = "marcar" /\ t'.o = o)
          PROVE  tuits[o] <= fallos
      <4>1. ~filas[o].fuePublicado /\ ~(MarcarPublicado /\ o = Ultima(SkuDe[t.o]))
        BY <3>2, PasoFila
      <4>2. ~(t.pc = "marcar" /\ t.o = o)
        <5> SUFFICES ASSUME t.pc = "marcar", t.o = o PROVE FALSE  OBVIOUS
        <5>1. ~MarcarPublicado  BY <2>1, <4>1
        <5>2. UNCHANGED t
          BY <2>5, <5>1, PasoCambiar DEF Next, Tarea, EnviarOferta, Avanzar, LeerProductos,
             Iniciar, Pop, EmpezarPublicar, Saltar, GuardarBase, CambiarWeb, Cerrar,
             EmpezarCambiar, SigueVigente, Restaurar, Devolver, Terminar
        <5> QED BY <3>2, <5>2
      <4> QED BY <2>2, <4>1, <4>2
    <3>3. ASSUME t'.pc \in Publicando, o \in t'.off, ~EnCurso(o)'
          PROVE  tuits[o] <= fallos
      <4>1. CASE UNCHANGED t  BY <2>2, <3>3, <4>1
      <4>2. CASE MarcarPublicado \/ GuardarBase \/ CambiarWeb \/ Cerrar
        BY <2>2, <3>3, <4>2, PasoAnunciar
           DEF MarcarPublicado, GuardarBase, CambiarWeb, Cerrar
      <4>3. CASE EmpezarPublicar
        <5>1. ~filas[o].fuePublicado /\ t.pc = "leer"
          BY <3>3, <4>3, PasoCambiar DEF EmpezarPublicar
        <5> QED BY <2>2, <5>1
      <4>4. CASE Saltar  BY <2>2, <3>3, <4>4, PasoCambiar DEF Saltar
      <4>5. CASE \/ SigueVigente \/ Restaurar \/ Devolver \/ EmpezarCambiar \/ Iniciar
                 \/ Pop \/ Crear \/ Terminar
        BY <3>3, <4>5, PasoCambiar DEF SigueVigente
      <4> QED
        BY <2>5, <4>1, <4>2, <4>3, <4>4, <4>5 DEF Next, Tarea, EnviarOferta, Avanzar,
           LeerProductos
    <3> QED BY <2>2, <3>1, <3>2, <3>3
  <2> QED BY <2>3, <2>4, <2>5
<1> QED BY <1>1, <1>2

\* An offer marked but never announced was marked for an older one.
Ajenas ==
    \A o \in Oferta :
        filas[o].fuePublicado /\ tuits[o] = 0 =>
            \E p \in 1..(o - 1) : SkuDe[p] = SkuDe[o] /\ tuits[p] > 0

LEMMA NextAjenas == ASSUME Tipos, Avisos, Ajenas, Next PROVE Ajenas'
<1> SUFFICES ASSUME NEW o \in Oferta, filas'[o].fuePublicado, tuits'[o] = 0
             PROVE  \E p \in 1..(o - 1) : SkuDe[p] = SkuDe[o] /\ tuits'[p] > 0
  BY DEF Ajenas
<1>0. tuits \in [Oferta -> Nat] /\ o \in 1..NumOfertas /\ NumOfertas \in Nat
  BY OfertasAssumption DEF Tipos, TypeOK, Oferta
<1>1. tuits[o] = 0  BY <1>0, TuitsCrecen
<1>2. \E p \in 1..(o - 1) : SkuDe[p] = SkuDe[o] /\ tuits[p] > 0
  <2>1. CASE filas[o].fuePublicado  BY <1>1, <2>1 DEF Ajenas
  <2>2. CASE ~filas[o].fuePublicado
    <3>1. MarcarPublicado /\ o = Ultima(SkuDe[t.o])  BY <2>2, PasoFila
    <3>2. t.o \in Oferta /\ filas[t.o].existe /\ tuits[t.o] > 0
      BY <3>1 DEF MarcarPublicado, Tipos, EnMano, Avisos, Anunciando
    <3>3. SkuDe[t.o] = SkuDe[o] /\ t.o <= o  BY <3>1, <3>2, UltimaEs
    <3>4. t.o # o  BY <1>1, <3>2
    <3>5. t.o \in 1..(o - 1)  BY <1>0, <3>2, <3>3, <3>4 DEF Oferta
    <3> QED BY <3>2, <3>3, <3>5
  <2> QED BY <2>1, <2>2
<1>3. PICK p \in 1..(o - 1) : SkuDe[p] = SkuDe[o] /\ tuits[p] > 0  BY <1>2
<1>4. p \in Oferta  BY <1>0 DEF Oferta
<1>5. tuits[p] \in Nat /\ (tuits'[p] = tuits[p] \/ tuits'[p] = tuits[p] + 1)
  BY <1>0, <1>4, TuitsCrecen
<1> QED BY <1>3, <1>5

\* Only an offer that a newer one of its product replaced is announced more
\* often than the stops of the task explain: it is the newer one that is marked
\* each time, and an offer marked but never announced was marked for an older
\* one of its product (offer.rb:17).
THEOREM TuitSiempre == Spec => []TuitUnaVez
<1>1. Init => Tuits /\ Ajenas  BY DEF Init, Ocioso, Tuits, Ajenas
<1>2. Init => Avisos
  BY DEF Init, Ocioso, Avisos, AvisoPrevio, Avisado, ToSet, Anunciando
<1>3. Tipos /\ Tipos' /\ Avisos /\ Tuits /\ Ajenas /\ [Next]_vars =>
          Avisos' /\ Tuits' /\ Ajenas'
  <2> SUFFICES ASSUME Tipos, Tipos', Avisos, Tuits, Ajenas, [Next]_vars
               PROVE  Avisos' /\ Tuits' /\ Ajenas'
    OBVIOUS
  <2>1. CASE Next  BY <2>1, NextAvisos, NextTuits, NextAjenas
  <2>2. CASE UNCHANGED vars
    BY <2>2 DEF vars, Avisos, AvisoPrevio, Avisado, Tuits, Ajenas, Ultima, EnCurso
  <2> QED BY <2>1, <2>2
<1>4. Tipos /\ Tuits /\ Ajenas => TuitUnaVez
  <2> SUFFICES ASSUME Tipos, Tuits, Ajenas, NEW o \in Oferta
               PROVE  tuits[o] > 1 + fallos => filas[o].existe /\ Ultima(SkuDe[o]) # o
    BY DEF TuitUnaVez, Ajenas
  <2>1. tuits[o] \in Nat /\ fallos \in Nat
    BY OfertasAssumption DEF Tipos, TypeOK
  <2>2. ~filas[o].existe => tuits[o] = 0  BY DEF Tipos, EnFilas
  <2>3. filas[o].existe /\ Ultima(SkuDe[o]) = o => tuits[o] <= 1 + fallos  BY DEF Tuits
  <2> QED BY <2>1, <2>2, <2>3
<1> QED BY <1>1, <1>2, <1>3, <1>4, TiposSiempre, PTL DEF Spec

-----------------------------------------------------------------------------
(* The base price of the only offer of a product *)

LEMMA SolaEs ==
    ASSUME Tipos, NEW o \in Oferta, Sola(o), NEW p \in Oferta, filas[p].existe
    PROVE  /\ p = o => Ultima(SkuDe[p]) = o
           /\ p # o => SkuDe[p] # SkuDe[o] /\ Ultima(SkuDe[p]) # o
BY UltimaEs DEF Sola

\* The price of an offer whose base price is known is restored to it.
LEMMA RestaurarEnBase ==
    ASSUME Tipos, Restaurar, NEW o \in Oferta, Min(t.off) = o,
           o \in t.off => filas[o].precioBase = PrecioNormal[SkuDe[o]]
    PROVE  EnBase(o)'
<1>1. /\ web \in [Skus -> Seq(Nat \ {0})] /\ (\A s \in Skus : Len(web[s]) > 0)
      /\ SkuDe[o] \in Skus /\ PrecioNormal[SkuDe[o]] \in Nat \ {0}
  BY OfertasAssumption DEF Tipos, TypeOK, EnFilas
<1>2. PonerPrecio(SkuDe[o], PrecioNormal[SkuDe[o]])
  BY PrimeraEs DEF Restaurar, Tipos
<1>3. Last(web'[SkuDe[o]]) = PrecioNormal[SkuDe[o]]  BY <1>1, <1>2, PonerEs
<1> QED BY <1>3 DEF EnBase

\* The price of the product only leaves the base price when that offer is
\* announced.
LEMMA NextEnBase ==
    ASSUME Tipos, Next, NEW o \in Oferta, Sola(o), EnBase(o),
           t.pc \in {"cambiar", "devolver"} /\ o \in t.off =>
               filas[o].precioBase = PrecioNormal[SkuDe[o]]
    PROVE  EnBase(o)' \/ (CambiarWeb /\ t.o = o)
<1>0. /\ web \in [Skus -> Seq(Nat \ {0})] /\ (\A s \in Skus : Len(web[s]) > 0)
      /\ filas \in [Oferta -> Fila] /\ SkuDe[o] \in Skus
  BY OfertasAssumption DEF Tipos, TypeOK, EnFilas
<1>1. CASE UNCHANGED web  BY <1>1 DEF EnBase
<1>2. CASE LeerProductos
  <2>1. web'[SkuDe[o]] = web[SkuDe[o]] \/ Last(web'[SkuDe[o]]) = PrecioNormal[SkuDe[o]]
    BY <1>0, <1>2, LeerEs
  <2> QED BY <2>1 DEF EnBase
<1>3. CASE CambiarWeb /\ t.o # o
  <2>1. /\ t.o \in Oferta /\ filas[t.o].existe /\ PonerPrecio(SkuDe[t.o], Precio[t.o])
    BY <1>3 DEF CambiarWeb, Tipos, EnMano, Anunciando
  <2>2. SkuDe[t.o] # SkuDe[o] /\ SkuDe[t.o] \in Skus /\ Precio[t.o] \in Nat \ {0}
    BY <1>3, <2>1, SolaEs, OfertasAssumption
  <2>3. web'[SkuDe[o]] = web[SkuDe[o]]  BY <1>0, <2>1, <2>2, PonerEs
  <2> QED BY <2>3 DEF EnBase
<1>4. CASE Restaurar
  <2> DEFINE p == Min(t.off)
  <2>1. /\ p \in Oferta /\ filas[p].existe /\ filas[p].precioBase # 0 /\ p \in t.off
        /\ PonerPrecio(SkuDe[p], filas[p].precioBase) /\ t.pc = "cambiar"
    BY <1>4, PrimeraEs DEF Restaurar, Tipos, EnMano, EnFilas
  <2> HIDE DEF p
  <2>2. SkuDe[p] \in Skus /\ filas[p].precioBase \in Nat \ {0}
    BY <1>0, <2>1, OfertasAssumption DEF Fila
  <2>3. CASE p = o  BY <1>4, <2>1, <2>3, RestaurarEnBase DEF p
  <2>4. CASE p # o
    <3>1. SkuDe[p] # SkuDe[o]  BY <2>1, <2>4, SolaEs
    <3>2. web'[SkuDe[o]] = web[SkuDe[o]]  BY <1>0, <2>1, <2>2, <3>1, PonerEs
    <3> QED BY <3>2 DEF EnBase
  <2> QED BY <2>3, <2>4
<1> QED
  BY <1>1, <1>2, <1>3, <1>4 DEF Next, Tarea, EnviarOferta, Avanzar, Iniciar, Pop, Crear,
     EmpezarPublicar, Saltar, Tuitear, MarcarPublicado, GuardarBase, Cerrar,
     EmpezarCambiar, SigueVigente, Devolver, Terminar, Fallar

LEMMA NextBases ==
    ASSUME Tipos, Tipos', Bases, Next, fallos' = 0, NEW o \in Oferta, Sola(o)'
    PROVE  /\ ~filas'[o].fuePublicado => filas'[o].TienePrecioBase /\ EnBase(o)'
           /\ \/ ~filas'[o].TienePrecioBase
              \/ t'.pc \in {"cambiar", "devolver"} /\ o \in t'.off
              => filas'[o].precioBase = PrecioNormal[SkuDe[o]]
           /\ filas'[o].TienePrecioBase /\ ~(t'.pc = "cerrar" /\ t'.o = o) => EnBase(o)'
           /\ t'.pc \in Publicando /\ o \in t'.off /\ ~EnCurso(o)' =>
                  ~filas'[o].fuePublicado
           /\ t'.pc = "marcar" /\ t'.o = o => ~filas'[o].fuePublicado
           /\ t'.pc \in {"marcar", "base"} /\ t'.o = o =>
                  EnBase(o)' /\ t'.precioB = PrecioNormal[SkuDe[o]]
           /\ t'.pc \in {"precio", "cerrar"} /\ t'.o = o =>
                  filas'[o].precioBase = PrecioNormal[SkuDe[o]]
           /\ t'.pc \in {"base", "precio", "cerrar"} /\ t'.o = o =>
                  filas'[o].fuePublicado
           /\ t'.pc = "devolver" /\ t'.o = o => EnBase(o)'
<1> DEFINE u == Ultima(SkuDe[t.o])
           normal == PrecioNormal[SkuDe[o]]
<1>0. /\ fallos = 0 /\ ~Fallar
  <2>1. fallos \in Nat  BY OfertasAssumption DEF Tipos, TypeOK
  <2>2. fallos' = fallos \/ fallos' = fallos + 1
    BY NextPerdidas
  <2>3. ~Fallar  BY <2>1 DEF Fallar
  <2> QED BY <2>1, <2>2, <2>3
<1>1. Sola(o)  BY FilasPaso DEF Sola
<1>2. /\ ~filas[o].fuePublicado => filas[o].TienePrecioBase /\ EnBase(o)
      /\ \/ ~filas[o].TienePrecioBase
         \/ t.pc \in {"cambiar", "devolver"} /\ o \in t.off
         => filas[o].precioBase = normal
      /\ filas[o].TienePrecioBase /\ ~(t.pc = "cerrar" /\ t.o = o) => EnBase(o)
      /\ t.pc \in Publicando /\ o \in t.off /\ ~EnCurso(o) => ~filas[o].fuePublicado
      /\ t.pc = "marcar" /\ t.o = o => ~filas[o].fuePublicado
      /\ t.pc \in {"marcar", "base"} /\ t.o = o => EnBase(o) /\ t.precioB = normal
      /\ t.pc \in {"precio", "cerrar"} /\ t.o = o => filas[o].precioBase = normal
      /\ t.pc \in {"base", "precio", "cerrar"} /\ t.o = o => filas[o].fuePublicado
      /\ t.pc = "devolver" /\ t.o = o => EnBase(o)
  BY <1>0, <1>1 DEF Bases
\* The row an announcement or a restoration changes is the row of the offer.
<1>3. t.pc \in Anunciando \cup {"devolver"} => (o = u <=> t.o = o)
  BY <1>1, SolaEs DEF Tipos, EnMano
<1>4. EnBase(o) => EnBase(o)' \/ (CambiarWeb /\ t.o = o)
  BY <1>1, <1>2, NextEnBase
<1>5. /\ MarcarPublicado /\ o = u => filas'[o].fuePublicado
      /\ ~(MarcarPublicado /\ o = u) => filas'[o].fuePublicado = filas[o].fuePublicado
      /\ Cerrar /\ o = u => ~filas'[o].TienePrecioBase
      /\ Devolver /\ o = u => filas'[o].TienePrecioBase
      /\ ~((Cerrar \/ Devolver) /\ o = u) =>
             filas'[o].TienePrecioBase = filas[o].TienePrecioBase
      /\ GuardarBase /\ o = u => filas'[o].precioBase = t.precioB
      /\ ~(GuardarBase /\ o = u) => filas'[o].precioBase = filas[o].precioBase
  BY PasoFila
<1>6. /\ MarcarPublicado => t.pc = "marcar" /\ t'.pc = "base" /\ t'.o = t.o
      /\ GuardarBase => t.pc = "base" /\ t'.pc = "precio" /\ t'.o = t.o
      /\ CambiarWeb => t.pc = "precio" /\ t'.pc = "cerrar" /\ t'.o = t.o
      /\ Cerrar => t.pc = "cerrar" /\ t'.pc = "publicar" /\ t'.off = t.off \ {t.o}
      /\ Restaurar => /\ t.pc = "cambiar" /\ t'.pc = "devolver" /\ t'.o = Min(t.off)
                      /\ t'.off = t.off
      /\ Devolver => t.pc = "devolver" /\ t'.pc = "cambiar" /\ t'.off = t.off \ {t.o}
  BY PasoAnunciar, PasoCambiar
     DEF MarcarPublicado, GuardarBase, CambiarWeb, Cerrar, Restaurar, Devolver
<1>7. Tuitear => /\ t.pc = "publicar" /\ Min(t.off) \in t.off /\ t'.pc = "marcar"
                 /\ t'.o = Min(t.off) /\ t'.off = t.off
                 /\ t'.precioB = Last(web[SkuDe[Min(t.off)]])
  BY PasoAnunciar, PrimeraEs DEF Tuitear, Tipos
\* Any other step keeps the offer at hand and leaves none to announce or to
\* restore that was not.
<1>8. \/ MarcarPublicado \/ GuardarBase \/ CambiarWeb \/ Cerrar \/ Restaurar
      \/ Devolver \/ Tuitear \/ UNCHANGED t
      \/ /\ t'.pc \notin Anunciando \cup {"devolver"}
         /\ t'.pc = "publicar" /\ o \in t'.off =>
                \/ t.pc = "publicar" /\ o \in t.off
                \/ ~filas[o].fuePublicado
         /\ t'.pc = "cambiar" /\ o \in t'.off =>
                \/ t.pc = "cambiar" /\ o \in t.off
                \/ ~filas[o].TienePrecioBase
         /\ t.pc \notin Anunciando \cup {"devolver"}
  <2>1. CASE EmpezarPublicar \/ EmpezarCambiar
    BY <2>1, PasoCambiar DEF EmpezarPublicar, EmpezarCambiar, Anunciando
  <2>2. CASE Saltar \/ SigueVigente
    BY <2>2, PasoCambiar DEF Saltar, SigueVigente, Anunciando
  <2>3. CASE Iniciar \/ Pop \/ Crear \/ Terminar
    BY <2>3, PasoCambiar DEF Iniciar, Pop, Terminar, Anunciando
  <2> QED
    BY <1>0, <2>1, <2>2, <2>3 DEF Next, Tarea, EnviarOferta, Avanzar, LeerProductos
<1> HIDE DEF u, normal
<1> USE DEF Publicando, Anunciando
<1>10. ASSUME ~filas'[o].fuePublicado
       PROVE  filas'[o].TienePrecioBase /\ EnBase(o)'
  BY <1>2, <1>3, <1>4, <1>5, <1>6, <1>10
<1>11. ASSUME \/ ~filas'[o].TienePrecioBase
              \/ t'.pc \in {"cambiar", "devolver"} /\ o \in t'.off
       PROVE  filas'[o].precioBase = normal
  <2>1. CASE GuardarBase  BY <1>2, <1>3, <1>5, <1>6, <1>11, <2>1
  <2>2. CASE ~GuardarBase /\ ~filas'[o].TienePrecioBase
    BY <1>2, <1>3, <1>5, <1>6, <2>2
  <2>3. CASE ~GuardarBase /\ t'.pc \in {"cambiar", "devolver"} /\ o \in t'.off
    BY <1>2, <1>5, <1>6, <1>7, <1>8, <2>3
  <2> QED BY <1>11, <2>1, <2>2, <2>3
<1>12. ASSUME filas'[o].TienePrecioBase, ~(t'.pc = "cerrar" /\ t'.o = o)
       PROVE  EnBase(o)'
  <2>1. CASE Devolver /\ o = u  BY <1>2, <1>3, <1>4, <1>6, <2>1
  <2>2. CASE ~(Devolver /\ o = u)
    <3>1. filas[o].TienePrecioBase  BY <1>5, <1>12, <2>2
    <3>2. ~(t.pc = "cerrar" /\ t.o = o)
      BY <1>3, <1>5, <1>6, <1>7, <1>8, <1>12
    <3> QED BY <1>2, <1>4, <1>6, <1>12, <3>1, <3>2
  <2> QED BY <2>1, <2>2
<1>13. ASSUME t'.pc \in Publicando, o \in t'.off, ~EnCurso(o)'
       PROVE  ~filas'[o].fuePublicado
  <2>1. ~(t'.pc \in Anunciando /\ t'.o = o)  BY <1>13 DEF EnCurso
  <2>2. ~(MarcarPublicado /\ o = u)  BY <1>3, <1>6, <2>1
  <2>3. ~filas[o].fuePublicado
    <3>1. CASE \/ MarcarPublicado \/ GuardarBase \/ CambiarWeb
      <4>1. t'.off = t.off  BY <3>1, PasoAnunciar
      <4> QED BY <1>2, <1>6, <1>13, <2>1, <3>1, <4>1 DEF EnCurso
    <3>2. CASE Cerrar \/ Restaurar \/ Devolver
      BY <1>2, <1>6, <1>13, <3>2 DEF EnCurso
    <3>3. CASE Tuitear  BY <1>2, <1>7, <1>13, <3>3 DEF EnCurso
    <3>4. CASE UNCHANGED t  BY <1>2, <1>13, <2>1, <3>4 DEF EnCurso
    <3>5. CASE ~(\/ MarcarPublicado \/ GuardarBase \/ CambiarWeb \/ Cerrar \/ Restaurar
                 \/ Devolver \/ Tuitear \/ UNCHANGED t)
      BY <1>2, <1>8, <1>13, <3>5 DEF EnCurso
    <3> QED BY <3>1, <3>2, <3>3, <3>4, <3>5
  <2> QED BY <1>5, <2>2, <2>3
<1>14. ASSUME t'.pc = "marcar", t'.o = o  PROVE ~filas'[o].fuePublicado
  <2>1. CASE Tuitear  BY <1>2, <1>5, <1>6, <1>7, <1>14, <2>1 DEF EnCurso
  <2>2. CASE ~Tuitear  BY <1>2, <1>5, <1>6, <1>8, <1>14, <2>2
  <2> QED BY <2>1, <2>2
<1>15. ASSUME t'.pc \in {"marcar", "base"}, t'.o = o
       PROVE  EnBase(o)' /\ t'.precioB = normal
  <2>1. EnBase(o) /\ t'.precioB = normal
    <3>1. CASE Tuitear
      <4>1. EnBase(o)  BY <1>2, <1>7, <1>15, <3>1 DEF EnCurso
      <4> QED BY <1>7, <1>15, <3>1, <4>1 DEF EnBase, normal
    <3>2. CASE ~Tuitear  BY <1>2, <1>15, <3>2, PasoMismo
    <3> QED BY <3>1, <3>2
  <2> QED BY <1>4, <1>6, <1>15, <2>1
<1>16. ASSUME t'.pc \in {"precio", "cerrar"}, t'.o = o
       PROVE  filas'[o].precioBase = normal
  BY <1>2, <1>3, <1>5, <1>6, <1>7, <1>8, <1>16
<1>17. ASSUME t'.pc \in {"base", "precio", "cerrar"}, t'.o = o
       PROVE  filas'[o].fuePublicado
  BY <1>2, <1>3, <1>5, <1>6, <1>7, <1>8, <1>17
<1>18. ASSUME t'.pc = "devolver", t'.o = o  PROVE EnBase(o)'
  <2>1. CASE Restaurar  BY <1>2, <1>6, <1>18, <2>1, RestaurarEnBase DEF normal
  <2>2. CASE ~Restaurar  BY <1>2, <1>4, <1>6, <1>7, <1>8, <1>18, <2>2
  <2> QED BY <2>1, <2>2
<1> QED
  BY <1>10, <1>11, <1>12, <1>13, <1>14, <1>15, <1>16, <1>17, <1>18 DEF normal

\* As long as a product had a single offer and the task was never stopped, the
\* product has its base price again whenever the offer is not running for the
\* task, whenever productos.json was read (offer.rb:18-21, 37-40).
THEOREM BaseSiempre == Spec => []BaseRecuperada
<1>1. Init => Bases
  <2> SUFFICES ASSUME Init PROVE Bases  OBVIOUS
  <2>1. ASSUME NEW o \in Oferta PROVE EnBase(o)
    <3>1. SkuDe[o] \in Skus  BY OfertasAssumption
    <3>2. web[SkuDe[o]] = <<PrecioNormal[SkuDe[o]]>>  BY <3>1 DEF Init
    <3> QED BY <3>2 DEF EnBase, Last
  <2>2. /\ t.pc = "libre"
        /\ \A o \in Oferta : ~filas[o].fuePublicado /\ filas[o].TienePrecioBase
    BY DEF Init, Ocioso
  <2> QED BY <2>1, <2>2 DEF Bases, Publicando, Anunciando
<1>2. Tipos /\ Tipos' /\ Bases /\ [Next]_vars => Bases'
  <2> SUFFICES ASSUME Tipos, Tipos', Bases, [Next]_vars PROVE Bases'  OBVIOUS
  <2>1. CASE Next  BY <2>1, NextBases DEF Bases
  <2>2. CASE UNCHANGED vars
    BY <2>2 DEF vars, Bases, Sola, EnBase, EnCurso
  <2> QED BY <2>1, <2>2
<1>3. Bases => BaseRecuperada
  BY DEF Bases, BaseRecuperada, Sola, EnBase, Publicando
<1> QED BY <1>1, <1>2, <1>3, TiposSiempre, PTL DEF Spec
=============================================================================
