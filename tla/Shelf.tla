--------------------------------- MODULE Shelf ---------------------------------
(***************************************************************************)
(* What product_service promises about stock, whatever its threads do in   *)
(* between: a request takes effect at most once and at one instant, goods  *)
(* are sold only from enough stock, and a refusal changes nothing.  It     *)
(* does not promise that a request that took effect is answered as such.   *)
(***************************************************************************)
EXTENDS Integers, Sequences

CONSTANTS Clients, Quantities, Levels

VARIABLES
  stock,  \* the stock of every product there ever was
  sale,   \* the products that can be bought
  deal    \* where the request of each client is

vars == <<stock, sale, deal>>

Init ==
  /\ stock = <<10, 50, 25>>
  /\ sale = 1..3
  /\ deal = [c \in Clients |-> "none"]

Effects == {"purchase", "restock", "put", "create", "delete"}

Moves(c, from, to) == deal[c] \in from /\ deal' = [deal EXCEPT ![c] = to]

Open(c)   == Moves(c, {"none"}, "open") /\ UNCHANGED <<stock, sale>>
Refuse(c) ==
  /\ \E o \in sale, q \in Quantities : stock[o] < q
  /\ Moves(c, {"none"}, "refused")
  /\ UNCHANGED <<stock, sale>>

\* The goods are gone even if the sale is answered with an error at once.
Sell(c, o, q) ==
  /\ o \in sale /\ stock[o] >= q
  /\ Moves(c, {"none"}, "purchase") \/ Moves(c, {"none"}, "spoiled")
  /\ stock' = [stock EXCEPT ![o] = @ - q]
  /\ UNCHANGED sale

Refill(c, o, q) ==
  /\ o \in sale
  /\ Moves(c, {"none"}, "restock")
  /\ stock' = [stock EXCEPT ![o] = @ + q]
  /\ UNCHANGED sale

\* An update: the stock is set, or only other fields.
Recount(c, o, n) ==
  /\ o \in sale
  /\ Moves(c, {"none"}, "put")
  /\ stock' = [stock EXCEPT ![o] = n]
  /\ UNCHANGED sale

\* A new product; it may take the place of one product, which is lost.
Place(c, n) ==
  /\ Moves(c, {"open"}, "create")
  /\ stock' = Append(stock, n)
  /\ \/ sale' = sale \cup {Len(stock) + 1}
     \/ \E lost \in sale : sale' = (sale \ {lost}) \cup {Len(stock) + 1}

Withdraw(c, o) ==
  /\ o \in sale
  /\ Moves(c, {"none"}, "delete")
  /\ sale' = sale \ {o}
  /\ UNCHANGED stock

\* The answer is an error although the request took effect.
Spoil(c) == Moves(c, Effects, "spoiled") /\ UNCHANGED <<stock, sale>>
Reply(c) ==
  /\ Moves(c, {"open", "refused", "spoiled"} \cup Effects, "none")
  /\ UNCHANGED <<stock, sale>>

Step(c) ==
  \/ Open(c) \/ Refuse(c) \/ Spoil(c) \/ Reply(c)
  \/ \E n \in Levels : Place(c, n)
  \/ \E o \in sale :
       \/ Withdraw(c, o)
       \/ \E q \in Quantities : Sell(c, o, q) \/ Refill(c, o, q)
       \/ \E n \in Levels \cup {stock[o]} : Recount(c, o, n)

\* Whatever happens is a step of one request.
Next == \E c \in Clients : deal'[c] # deal[c] /\ Step(c)

Spec == Init /\ [][Next]_vars
=============================================================================
