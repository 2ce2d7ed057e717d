------------------------------ MODULE Ofertas -------------------------------
(***************************************************************************)
(* The offers of the shop: Rabbitmpq.leerOferta takes them off the queue,  *)
(* Offer.publicarTwitter announces those that began and changes the price, *)
(* Offer.cambiarPrecio restores the price of those that ended.  my_task3   *)
(* runs the three in this order every ten minutes; every statement on the  *)
(* database and every call to Twitter or RabbitMQ is a step.               *)
(***************************************************************************)
EXTENDS Integers, SequencesExt

CONSTANTS
    NumOfertas,          \* the offers, numbered in the order they are sent
    Skus, SkuDe,         \* the products, and that of each offer
    Precio, Inicio, Fin, \* what each offer says
    PrecioNormal,        \* price_internet of each product in productos.json
    MaxHora, MaxFallos   \* bounds: ten-minute periods, interruptions of the task

Oferta == 1..NumOfertas

ASSUME OfertasAssumption ==
    /\ NumOfertas \in Nat /\ MaxHora \in Nat /\ MaxFallos \in Nat
    /\ SkuDe \in [Oferta -> Skus]
    /\ Precio \in [Oferta -> Nat \ {0}] /\ PrecioNormal \in [Skus -> Nat \ {0}]
    /\ Inicio \in [Oferta -> Nat] /\ Fin \in [Oferta -> Nat]

VARIABLES
    enviadas,  \* how many offers were sent
    cola,      \* the messages in the queue "ofertas"
    filas,     \* the rows of Offer; their id follows the order of the queue
    web,       \* price_internet of the rows of WebProduct of each product
    hora,      \* DateTime.now
    corrio,    \* whether the task ran in this period,
    leyo,      \* and whether productos.json was read in it
    t,         \* the local state of the task
    tuits,     \* history: how often each offer was announced
    fallos     \* history: how often the task was stopped half way

vars == <<enviadas, cola, filas, web, hora, corrio, leyo, t, tuits, fallos>>

Fila == [existe: BOOLEAN, fuePublicado: BOOLEAN, TienePrecioBase: BOOLEAN,
         precioBase: Nat]    \* 0 stands for nil

Tareas ==
    [pc: {"libre", "leer", "publicar", "marcar", "base", "precio", "cerrar",
          "cambiar", "devolver"},
     mano: Oferta \cup {0},      \* the message taken off the queue, 0 for none
     off: SUBSET Oferta,         \* the offers left in the loop
     o: Oferta \cup {0},         \* the one at hand
     ahora: Nat, precioB: Nat]   \* fActual, and price_internet as it was read

TypeOK ==
    /\ enviadas \in 0..NumOfertas /\ cola \subseteq Oferta
    /\ filas \in [Oferta -> Fila]
    /\ web \in [Skus -> Seq(Nat \ {0})]
    /\ hora \in 0..MaxHora /\ corrio \in BOOLEAN /\ leyo \in BOOLEAN
    /\ t \in Tareas
    /\ tuits \in [Oferta -> Nat] /\ fallos \in 0..MaxFallos

Ocioso == [pc |-> "libre", mano |-> 0, off |-> {}, o |-> 0, ahora |-> 0,
           precioB |-> 0]

Init ==
    /\ enviadas = 0 /\ cola = {}
    /\ filas = [o \in Oferta |-> [existe |-> FALSE, fuePublicado |-> FALSE,
                                  TienePrecioBase |-> TRUE, precioBase |-> 0]]
    /\ web = [s \in Skus |-> <<PrecioNormal[s]>>]
    /\ hora = 0 /\ corrio = FALSE /\ leyo = FALSE /\ t = Ocioso
    /\ tuits = [o \in Oferta |-> 0] /\ fallos = 0

-----------------------------------------------------------------------------
(* Beside the task *)

EnviarOferta ==
    /\ enviadas < NumOfertas
    /\ enviadas' = enviadas + 1 /\ cola' = cola \cup {enviadas'}
    /\ UNCHANGED <<filas, web, hora, corrio, leyo, t, tuits, fallos>>

Avanzar ==
    /\ hora < MaxHora
    /\ hora' = hora + 1 /\ corrio' = FALSE /\ leyo' = FALSE
    /\ UNCHANGED <<enviadas, cola, filas, web, t, tuits, fallos>>

\* WebProduct.read, in the daily task: a product whose row no longer says what
\* productos.json says, its price included, gets a new row.
LeerProductos ==
    /\ ~leyo /\ leyo' = TRUE
    /\ web' = [s \in Skus |-> IF PrecioNormal[s] \in ToSet(web[s])
                              THEN web[s] ELSE Append(web[s], PrecioNormal[s])]
    /\ UNCHANGED <<enviadas, cola, filas, hora, corrio, t, tuits, fallos>>

-----------------------------------------------------------------------------
(* Rabbitmpq.leerOferta *)

Iniciar ==
    /\ t.pc = "libre" /\ ~corrio
    /\ corrio' = TRUE /\ t' = [Ocioso EXCEPT !.pc = "leer"]
    /\ UNCHANGED <<enviadas, cola, filas, web, hora, leyo, tuits, fallos>>

PopTodo ==    \* (mutant) takes every message and keeps one
    /\ t.pc = "leer" /\ t.mano = 0 /\ cola # {}
    /\ t' = [t EXCEPT !.mano = Min(cola)] /\ cola' = {}
    /\ UNCHANGED <<enviadas, filas, web, hora, corrio, leyo, tuits, fallos>>

\* q.pop: the message is acknowledged as it is delivered.
Pop ==
    /\ t.pc = "leer" /\ t.mano = 0 /\ cola # {}
    /\ t' = [t EXCEPT !.mano = Min(cola)] /\ cola' = cola \ {Min(cola)}
    /\ UNCHANGED <<enviadas, filas, web, hora, corrio, leyo, tuits, fallos>>

Crear ==
    /\ t.mano # 0
    /\ filas' = [filas EXCEPT ![t.mano].existe = TRUE]
    /\ t' = [t EXCEPT !.mano = 0]
    /\ UNCHANGED <<enviadas, cola, web, hora, corrio, leyo, tuits, fallos>>

-----------------------------------------------------------------------------
(* Offer.publicarTwitter *)

EmpezarPublicar ==
    /\ t.pc = "leer" /\ t.mano = 0 /\ cola = {}
    /\ t' = [t EXCEPT !.pc = "publicar", !.ahora = hora,
                 !.off = {o \in Oferta : filas[o].existe /\ ~filas[o].fuePublicado}]
    /\ UNCHANGED <<enviadas, cola, filas, web, hora, corrio, leyo, tuits, fallos>>

Vigente(o, ahora) == ahora > Inicio[o] /\ Fin[o] > ahora

Saltar ==
    /\ t.pc = "publicar" /\ t.off # {} /\ ~Vigente(Min(t.off), t.ahora)
    /\ t' = [t EXCEPT !.off = @ \ {Min(t.off)}]
    /\ UNCHANGED <<enviadas, cola, filas, web, hora, corrio, leyo, tuits, fallos>>

TuitearDespues ==    \* (mutant) the price is changed before the announcement
    /\ t.pc = "publicar" /\ t.off # {} /\ Vigente(Min(t.off), t.ahora)
    /\ LET o == Min(t.off)
       IN  t' = [t EXCEPT !.pc = "marcar", !.o = o, !.precioB = Last(web[SkuDe[o]])]
    /\ UNCHANGED <<enviadas, cola, filas, web, hora, corrio, leyo, tuits, fallos>>

\* The product is read, and the offer is announced.
Tuitear ==
    /\ t.pc = "publicar" /\ t.off # {} /\ Vigente(Min(t.off), t.ahora)
    /\ LET o == Min(t.off)
       IN  /\ t' = [t EXCEPT !.pc = "marcar", !.o = o,
                             !.precioB = Last(web[SkuDe[o]])]
           /\ tuits' = [tuits EXCEPT ![o] = @ + 1]
    /\ UNCHANGED <<enviadas, cola, filas, web, hora, corrio, leyo, fallos>>

UltimaDeTodas(s) == Max({o \in Oferta : filas[o].existe})    \* (mutant)

\* Offer.where(:sku => ...).last: not the offer at hand but the newest one of
\* its product.
Ultima(s) == Max({o \in Oferta : filas[o].existe /\ SkuDe[o] = s})

MarcarPublicado ==
    /\ t.pc = "marcar"
    /\ filas' = [filas EXCEPT ![Ultima(SkuDe[t.o])].fuePublicado = TRUE]
    /\ t' = [t EXCEPT !.pc = "base"]
    /\ UNCHANGED <<enviadas, cola, web, hora, corrio, leyo, tuits, fallos>>

GuardarOferta ==    \* (mutant) the price of the offer is kept as the base price
    /\ t.pc = "base"
    /\ filas' = [filas EXCEPT ![Ultima(SkuDe[t.o])].precioBase = Precio[t.o]]
    /\ t' = [t EXCEPT !.pc = "precio"]
    /\ UNCHANGED <<enviadas, cola, web, hora, corrio, leyo, tuits, fallos>>

GuardarNada ==    \* (mutant) the base price is not read first
    /\ t.pc = "base"
    /\ t' = [t EXCEPT !.pc = "precio"]
    /\ UNCHANGED <<enviadas, cola, filas, web, hora, corrio, leyo, tuits, fallos>>

GuardarBase ==
    /\ t.pc = "base"
    /\ filas' = [filas EXCEPT ![Ultima(SkuDe[t.o])].precioBase = t.precioB]
    /\ t' = [t EXCEPT !.pc = "precio"]
    /\ UNCHANGED <<enviadas, cola, web, hora, corrio, leyo, tuits, fallos>>

\* The price of the newest row of WebProduct becomes p.
PonerPrecio(s, p) == web' = [web EXCEPT ![s][Len(web[s])] = p]

CambiarWeb ==
    /\ t.pc = "precio"
    /\ PonerPrecio(SkuDe[t.o], Precio[t.o])
    /\ t' = [t EXCEPT !.pc = "cerrar"]
    /\ UNCHANGED <<enviadas, cola, filas, hora, corrio, leyo, tuits, fallos>>

Cerrar ==
    /\ t.pc = "cerrar"
    /\ filas' = [filas EXCEPT ![Ultima(SkuDe[t.o])].TienePrecioBase = FALSE]
    /\ t' = [t EXCEPT !.pc = "publicar", !.off = @ \ {t.o}]
    /\ UNCHANGED <<enviadas, cola, web, hora, corrio, leyo, tuits, fallos>>

-----------------------------------------------------------------------------
(* Offer.cambiarPrecio *)

EmpezarCambiar ==
    /\ t.pc = "publicar" /\ t.off = {}
    /\ t' = [t EXCEPT !.pc = "cambiar", !.ahora = hora,
                 !.off = {o \in Oferta : /\ filas[o].existe /\ filas[o].fuePublicado
                                         /\ ~filas[o].TienePrecioBase}]
    /\ UNCHANGED <<enviadas, cola, filas, web, hora, corrio, leyo, tuits, fallos>>

SigueVigente ==
    /\ t.pc = "cambiar" /\ t.off # {} /\ ~(t.ahora > Fin[Min(t.off)])
    /\ t' = [t EXCEPT !.off = @ \ {Min(t.off)}]
    /\ UNCHANGED <<enviadas, cola, filas, web, hora, corrio, leyo, tuits, fallos>>

Restaurar ==
    /\ t.pc = "cambiar" /\ t.off # {} /\ t.ahora > Fin[Min(t.off)]
    /\ LET o == Min(t.off)
       IN  /\ PonerPrecio(SkuDe[o], filas[o].precioBase)
           /\ t' = [t EXCEPT !.pc = "devolver", !.o = o]
    /\ UNCHANGED <<enviadas, cola, filas, hora, corrio, leyo, tuits, fallos>>

Devolver ==
    /\ t.pc = "devolver"
    /\ filas' = [filas EXCEPT ![Ultima(SkuDe[t.o])].TienePrecioBase = TRUE]
    /\ t' = [t EXCEPT !.pc = "cambiar", !.off = @ \ {t.o}]
    /\ UNCHANGED <<enviadas, cola, web, hora, corrio, leyo, tuits, fallos>>

Terminar ==
    /\ t.pc = "cambiar" /\ t.off = {}
    /\ t' = Ocioso
    /\ UNCHANGED <<enviadas, cola, filas, web, hora, corrio, leyo, tuits, fallos>>

\* A call raises, or the process is killed; the announcement whose answer was
\* lost may have been made.
Fallar ==
    /\ t.pc # "libre" /\ fallos < MaxFallos
    /\ \/ tuits' = tuits
       \/ /\ t.pc = "publicar" /\ t.off # {} /\ Vigente(Min(t.off), t.ahora)
          /\ tuits' = [tuits EXCEPT ![Min(t.off)] = @ + 1]
    /\ t' = Ocioso /\ fallos' = fallos + 1
    /\ UNCHANGED <<enviadas, cola, filas, web, hora, corrio, leyo>>

Tarea ==
    \/ Iniciar \/ Pop \/ Crear
    \/ EmpezarPublicar \/ Saltar \/ Tuitear \/ MarcarPublicado \/ GuardarBase
    \/ CambiarWeb \/ Cerrar
    \/ EmpezarCambiar \/ SigueVigente \/ Restaurar \/ Devolver \/ Terminar

Next == EnviarOferta \/ Avanzar \/ LeerProductos \/ Tarea \/ Fallar

Spec == Init /\ [][Next]_vars

-----------------------------------------------------------------------------
(* Properties *)

\* An offer that was sent is in the queue, in the hands of the task or in the
\* database: each stop of the task loses one at most (rabbitmpq.rb:34-38).
PerdidaSoloPorFallo ==
    Cardinality({o \in 1..enviadas : o \notin cola /\ o # t.mano /\ ~filas[o].existe})
        <= fallos

\* A product has the price of an offer only once that offer was announced,
\* whatever rows are marked in its place (offer.rb:16-20).
AvisoPrevio ==
    \A s \in Skus : \A p \in ToSet(web[s]) :
        \/ p = PrecioNormal[s]
        \/ \E o \in Oferta : SkuDe[o] = s /\ Precio[o] = p /\ tuits[o] > 0

\* Only an offer that a newer one of its product replaced is announced more
\* often than the stops of the task explain: it is the newer one that is marked
\* each time, and an offer marked but never announced was marked for an older
\* one of its product (offer.rb:17).
TuitUnaVez ==
    \A o \in Oferta :
        /\ tuits[o] > 1 + fallos => filas[o].existe /\ Ultima(SkuDe[o]) # o
        /\ filas[o].fuePublicado /\ tuits[o] = 0 =>
               \E p \in 1..(o - 1) : SkuDe[p] = SkuDe[o] /\ tuits[p] > 0

\* As long as a product had a single offer and the task was never stopped, the
\* product has its base price again whenever the offer is not running for the
\* task, whenever productos.json was read (offer.rb:18-21, 37-40).
BaseRecuperada ==
    t.pc = "libre" /\ fallos = 0 =>
        \A o \in Oferta :
            /\ \A p \in Oferta : p # o /\ SkuDe[p] = SkuDe[o] => ~filas[p].existe
            /\ filas[o].fuePublicado => filas[o].TienePrecioBase
            => Last(web[SkuDe[o]]) = PrecioNormal[SkuDe[o]]
=============================================================================
