------------------------------ MODULE OrderBook ------------------------------
(***************************************************************************)
(* What a client may rely on as long as no order has been replaced by      *)
(* another one's create: an order, once placed, stays in the book under    *)
(* its own id; every request takes effect at once and at most once, and    *)
(* its answer says what the effect was.  If it is about an order with an   *)
(* infinite number, it may be an error instead.                            *)
(***************************************************************************)
CONSTANTS
  Workers,   \* the requests served at the same time
  Ids,       \* the ids an order may get
  Opening    \* the book at the start: a function from ids to statuses

VARIABLES
  book,      \* the status of each order
  infinite,  \* the orders with an infinite price or total
  owed       \* the answer a served request has still to receive

vars == <<book, infinite, owed>>

Valid   == {"pending", "confirmed", "shipped", "delivered", "cancelled"}
Moves   == {"confirm", "ship", "deliver"}
Nothing == [op |-> "none", id |-> 0, verdict |-> "ok"]

Before(op) == CASE op = "confirm" -> "pending"
                [] op = "ship"    -> "confirmed"
                [] op = "deliver" -> "shipped"

After(op)  == CASE op = "confirm" -> "confirmed"
                [] op = "ship"    -> "shipped"
                [] op = "deliver" -> "delivered"

Init ==
  /\ book = Opening
  /\ infinite = {}
  /\ owed = [w \in Workers |-> Nothing]

Answer(w, op, id, verdict) ==
  /\ owed[w] = Nothing
  /\ owed' = [owed EXCEPT ![w] = [op |-> op, id |-> id, verdict |-> verdict]]

Refuse(w, op, verdict) == Answer(w, op, 0, verdict) /\ UNCHANGED book

\* The answer turns into an error.
Err(w) ==
  /\ owed[w].op # "none" /\ owed[w].verdict = "ok"
  /\ owed' = [owed EXCEPT ![w].verdict = "failed"]
  /\ UNCHANGED book

Place(w, id) ==
  /\ id \notin DOMAIN book
  /\ book' = [i \in DOMAIN book \cup {id} |->
                IF i = id THEN "pending" ELSE book[i]]
  /\ infinite' \in {infinite, infinite \cup {id}}
  /\ Answer(w, "create", id, "ok")

Write(w, op, id, s) ==
  /\ book' = [book EXCEPT ![id] = s]
  /\ Answer(w, op, id, "ok")

Advance(w, op, id) ==
  \/ book[id] = Before(op) /\ Write(w, op, id, After(op))
  \/ book[id] # Before(op) /\ Refuse(w, op, "refused")

Cancel(w, id) == Write(w, "cancel", id, "cancelled")

Put(w, id) ==
  \/ \E s \in Valid \cup {book[id]} : Write(w, "put", id, s)
  \/ Refuse(w, "put", "refused")

\* Reads have no effect; one that walks over the book may fail.
Read(w) == \E v \in {"ok", "missing", "failed"} : Refuse(w, "read", v)

Receive(w) ==
  /\ owed[w] # Nothing
  /\ owed' = [owed EXCEPT ![w] = Nothing]
  /\ UNCHANGED book

Request(w) ==
  /\ \/ \E id \in DOMAIN book :
          Put(w, id) \/ Cancel(w, id) \/ \E op \in Moves : Advance(w, op, id)
     \/ \E op \in Moves \cup {"put", "cancel"} : Refuse(w, op, "missing")
     \/ Refuse(w, "create", "failed")
     \/ owed[w].id \in infinite /\ Err(w)
     \/ Read(w) \/ Receive(w)
  /\ UNCHANGED infinite

Next == \E w \in Workers : Request(w) \/ \E id \in Ids : Place(w, id)

Spec == Init /\ [][Next]_vars
=============================================================================
