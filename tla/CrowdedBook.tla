----------------------------- MODULE CrowdedBook ------------------------------
(***************************************************************************)
(* What a client may rely on however many orders are created at the same   *)
(* time.  A create may be given the id of an order that was placed while   *)
(* it was served, and then replaces it; it never replaces one that was in  *)
(* the book when it began.  Everything else is as in OrderBook, but once   *)
(* an order was replaced, a request to ship may be told that it failed     *)
(* after it took effect.                                                   *)
(***************************************************************************)
EXTENDS OrderBook, Naturals

VARIABLES
  free,   \* free[w]: the ids that the create of w may store its order under
  placed  \* how many orders were ever placed

crowd == <<vars, free, placed>>

CrowdedInit == Init /\ free = [w \in Workers |-> {}] /\ placed = 3

Begin(w) ==
  /\ free[w] = {} /\ owed[w] = Nothing
  /\ free' = [free EXCEPT ![w] = Ids \ DOMAIN book]
  /\ UNCHANGED <<vars, placed>>

\* The order cannot be priced.
Abandon(w) ==
  /\ free[w] # {}
  /\ Refuse(w, "create", "failed")
  /\ free' = [free EXCEPT ![w] = {}]
  /\ UNCHANGED <<infinite, placed>>

PlaceOver(w, id) ==
  /\ id \in free[w]
  /\ book' = [i \in DOMAIN book \cup {id} |->
                IF i = id THEN "pending" ELSE book[i]]
  /\ infinite' \in {infinite \ {id}, infinite \cup {id}}
  /\ Answer(w, "create", id, "ok")
  /\ free' = [free EXCEPT ![w] = {}]
  /\ placed' = placed + 1

Calm(w) == free[w] = {} /\ Request(w) /\ UNCHANGED <<free, placed>>

\* The order that was shipped has been replaced before the answer was made.
Fail(w) ==
  /\ DOMAIN book # 1..placed
  /\ owed[w].op = "ship" /\ Err(w)
  /\ UNCHANGED <<infinite, free, placed>>

CrowdedNext ==
  \E w \in Workers :
    Begin(w) \/ Abandon(w) \/ Calm(w) \/ Fail(w) \/ \E id \in Ids : PlaceOver(w, id)

CrowdedSpec == CrowdedInit /\ [][CrowdedNext]_crowd
=============================================================================
