---------------------------- MODULE ProductService -----------------------------
(***************************************************************************)
(* product_service/server.py: the store of Store.tla, with the stock of    *)
(* each product.  Names and categories decide only what a search finds; of *)
(* a price it matters whether it is a finite number, which nothing checks. *)
(* Nothing checks the sign of a quantity either.                           *)
(***************************************************************************)
EXTENDS Store, Integers

CONSTANTS
  Quantities,  \* what requests buy or restock
  Levels,      \* stocks that requests set
  MaxStock     \* bound on the absolute value of a stock

ASSUME IntegersAssumption ==
  Quantities \subseteq Int /\ Levels \subseteq Int /\ MaxStock \in Nat

VARIABLES
  stock,    \* stock[o]: the field "stock" of record o
  infinite  \* the records whose "price" is infinite or NaN

vars == <<store, stock, infinite>>

Init == StoreInit /\ stock = <<10, 50, 25>> /\ infinite = {}

StockOf(id) == stock[db[id]]
Bounded(n)  == n \in -MaxStock..MaxStock

\* A handler that has changed record db[id]; it will print a line next, unless
\* it has raised an exception.
Change(w, pc, op, id, n, verdict) ==
  /\ Bounded(n)
  /\ Serve(w, [Started(pc, op, id) EXCEPT !.obj = db[id], !.verdict = verdict])
  /\ stock' = [stock EXCEPT ![db[id]] = n]
  /\ UNCHANGED <<tables, infinite>>

\* total_price = price * quantity: it may overflow to infinity, or the quantity
\* may be too large to be converted to a floating-point number: OverflowError.
Sale(w, id, q) ==
  \/ /\ db[id] \notin infinite
     /\ Change(w, "look", "purchase", id, StockOf(id) - q, "ok")
  \/ /\ db[id] \in infinite \/ q \notin -1..1
     /\ Change(w, "look", "purchase", id, StockOf(id) - q, "overflow")
  \/ /\ q \notin -1..1
     /\ Change(w, "answer", "purchase", id, StockOf(id) - q, "overflow")

-----------------------------------------------------------------------------
\* Mutant of Purchase: the stock is not compared with the quantity.
PurchaseUnchecked(w, id, q) == Has(id) /\ Sale(w, id, q)

\* purchase_product: the comparison, the subtraction and the total; no call
\* between them.
Purchase(w, id, q) == Has(id) /\ StockOf(id) >= q /\ Sale(w, id, q)

Insufficient(w, id, q) ==
  /\ Has(id) /\ StockOf(id) < q
  /\ Reject(w, "purchase", "refused")
  /\ UNCHANGED <<stock, infinite>>

Restock(w, id, q) == Has(id) /\ Change(w, "look", "restock", id, StockOf(id) + q, "ok")

\* create_product, update_product: price and stock are fields like the others;
\* an update may leave either alone.
Create(w) ==
  /\ CreateStore(w)
  /\ \E n \in Levels : stock' = Append(stock, n)
  /\ infinite' \in {infinite, infinite \cup {Len(ids) + 1}}

Update(w, id) ==
  /\ UpdateFields(w, id)
  /\ \/ UNCHANGED stock
     \/ \E n \in Levels : stock' = [stock EXCEPT ![db[id]] = n]
  /\ infinite' \in {infinite, infinite \cup {db[id]}, infinite \ {db[id]}}

-----------------------------------------------------------------------------
(***************************************************************************)
(* get_stats adds up values in one walk over products_db and stocks in a   *)
(* second one; the answer holds nothing but numbers.  The value of one     *)
(* product, or of all, may overflow as the total of a purchase does.       *)
(***************************************************************************)
StatsBegin(w) ==
  /\ Serve(w, [Started("again", "stats", 0) EXCEPT !.size = Size])
  /\ UNCHANGED tables

StatsAgain(w) ==
  /\ At(w, "again")
  /\ IF Size = worker[w].size
     THEN \E verdict \in {"ok"} \cup {"overflow" : o \in Listed} :
            Becomes(w, [worker[w] EXCEPT !.pc = "sum", !.verdict = verdict])
     ELSE Verdict(w, "failed")
  /\ UNCHANGED <<tables, calm>>

StatsSum(w) ==
  /\ At(w, "sum")
  /\ Becomes(w, [worker[w] EXCEPT !.pc = "walk", !.size = Size])
  /\ UNCHANGED <<tables, calm>>

\* The first sum of get_stats: OverflowError.
StatsFail(w) ==
  /\ At(w, "again") /\ Listed # {}
  /\ Verdict(w, "overflow")
  /\ UNCHANGED <<tables, calm>>

\* list_products repeats its filters in the answer: an infinite price bound.
ListBegin(w) ==
  /\ Serve(w, [Started("walk", "search", 0) EXCEPT !.size = Size, !.verdict = "overflow"])
  /\ UNCHANGED tables

\* Can the record in the answer be written as JSON?
Writable(w) == worker[w].ref \notin infinite

-----------------------------------------------------------------------------
OnStock(w, id) ==
  \/ \E q \in Quantities : Purchase(w, id, q) \/ Insufficient(w, id, q) \/ Restock(w, id, q)
  \/ Update(w, id)

OffStock(w, id) ==
  \/ GetBegin(w, id) \/ Delete(w, id)
  \/ \E op \in {"put", "delete", "purchase", "restock"} : NotFound(w, op, id)

Stats(w) == StatsBegin(w) \/ StatsAgain(w) \/ StatsSum(w) \/ StatsFail(w)

Next ==
  \E w \in Workers :
    \/ Create(w)
    \/ \E id \in Addressed : OnStock(w, id)
    \/ /\ \/ CreateRead(w) \/ WalkBegin(w) \/ ListBegin(w) \/ Stats(w)
          \/ \E id \in Addressed : OffStock(w, id)
          \/ StoreGo(w, Writable(w))
       /\ UNCHANGED <<stock, infinite>>

Spec == Init /\ [][Next]_vars

-----------------------------------------------------------------------------
\* Every variable has its type, and every record ever stored a stock.
TypeOK ==
  /\ StoreTypeOK
  /\ stock \in Seq(Int) /\ Len(stock) = Len(ids)
  /\ infinite \subseteq Records

Erred(w) == At(w, "answer") /\ worker[w].verdict \in {"failed", "overflow"}

\* Shelf's view of a request.  Only a handler that changes something has an obj.
Deal(w) ==
  IF At(w, "idle")                           THEN "none"
  ELSE IF worker[w].verdict = "refused"      THEN "refused"
  ELSE IF worker[w].obj = 0                  THEN "open"
  ELSE IF Erred(w)                           THEN "spoiled"
  ELSE worker[w].op

Promise == INSTANCE Shelf WITH Clients <- Workers, sale <- Listed,
                               deal <- [w \in Workers |-> Deal(w)]

\* Whatever requests run at once, each takes effect at most once, at one
\* instant, and goods are sold only from enough stock; a stock falls below zero
\* only by a restock of a negative quantity or an update.
KeepsPromise == Promise!Spec
=============================================================================
