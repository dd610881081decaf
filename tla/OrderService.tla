----------------------------- MODULE OrderService -----------------------------
(***************************************************************************)
(* order_service/server.py.  Its "def" endpoints run on the threads of a   *)
(* pool and share orders_db and order_id_counter without a lock.  Under    *)
(* the GIL a thread is switched at calls and at backward jumps: a step is  *)
(* what a handler does between two of them.  created_at, updated_at and    *)
(* shipping_address are left out: no handler reads them.  Of the items and *)
(* the total it matters whether JSON can write them: a price may be        *)
(* infinite, and a total may overflow.  That an order may get a key while  *)
(* an answer about it is encoded is left out here; Store has that race.    *)
(***************************************************************************)
EXTENDS Naturals, FiniteSets

CONSTANTS
  Workers,    \* threads of the pool
  Addressed,  \* the ids that requests name
  MaxId       \* bound: no order is created once the counter exceeds it

ASSUME IdsAssumption == Addressed \subseteq Nat /\ MaxId \in Nat

VARIABLES
  order_id_counter,
  orders,     \* orders_db: what is modelled of each order
  worker,     \* the request each thread serves
  forced      \* history: ids whose status the flow alone does not explain

vars == <<order_id_counter, orders, worker, forced>>

VALID_STATUSES == {"pending", "confirmed", "shipped", "delivered", "cancelled"}

\* The sample orders carry statuses that PUT would refuse.
Statuses == VALID_STATUSES \cup {"completed", "processing"}

Order(s) == [status |-> s, tracking |-> FALSE, delivered_at |-> FALSE,
             infinite |-> FALSE]

Samples == [id \in 1..3 |-> Order(CASE id = 1 -> "completed"
                                    [] id = 2 -> "processing"
                                    [] id = 3 -> "shipped")]

\* seen and size belong to an iteration over orders_db; known is history: the
\* ids in orders_db when the counter was read.
Rest == [pc |-> "idle", op |-> "none", id |-> 0, verdict |-> "ok",
         seen |-> 0, size |-> 0, known |-> {}]

Init ==
  /\ order_id_counter = 4
  /\ orders = Samples
  /\ worker = [w \in Workers |-> Rest]
  /\ forced = DOMAIN Samples

-----------------------------------------------------------------------------
At(w, pc)   == worker[w].pc = pc
Move(w, pc) == worker' = [worker EXCEPT ![w].pc = pc]

\* A thread starts to serve a request.
Started(pc, op, id) == [Rest EXCEPT !.pc = pc, !.op = op, !.id = id]

Serve(w, pc, op, id) ==
  /\ At(w, "idle")
  /\ worker' = [worker EXCEPT ![w] = Started(pc, op, id)]

\* The handler of thread w has returned, or raised.
Returned(op, id, verdict) ==
  [Rest EXCEPT !.pc = "answer", !.op = op, !.id = id, !.verdict = verdict]

Finish(w, verdict) ==
  worker' = [worker EXCEPT ![w] = Returned(@.op, @.id, verdict)]

\* HTTPException before anything is changed.
Reject(w, op, verdict) ==
  /\ At(w, "idle")
  /\ worker' = [worker EXCEPT ![w] = Returned(op, 0, verdict)]
  /\ UNCHANGED <<order_id_counter, orders, forced>>

NotFound(w, op, id) == id \notin DOMAIN orders /\ Reject(w, op, "missing")

Stored(id)       == id \in DOMAIN orders
HasStatus(id, s) == Stored(id) /\ orders[id].status = s

-----------------------------------------------------------------------------
(***************************************************************************)
(* create_order.  The counter is read; sum() is called, which raises       *)
(* OverflowError for a quantity too large to be multiplied by a price, and *)
(* strftime(); then the order is stored and the counter incremented.       *)
(***************************************************************************)
CreateRead(w) ==
  /\ order_id_counter <= MaxId
  /\ At(w, "idle")
  /\ worker' = [worker EXCEPT ![w] =
                  [Rest EXCEPT !.pc = "priced", !.op = "create",
                               !.id = order_id_counter, !.known = DOMAIN orders]]
  /\ UNCHANGED <<order_id_counter, orders, forced>>

CreateFails(w) ==
  /\ At(w, "priced")
  /\ worker' = [worker EXCEPT ![w] = Returned("create", 0, "failed")]
  /\ UNCHANGED <<order_id_counter, orders, forced>>

Insert(id) ==
  \E inf \in BOOLEAN :
    orders' = [i \in DOMAIN orders \cup {id} |->
                 IF i = id THEN [Order("pending") EXCEPT !.infinite = inf] ELSE orders[i]]

\* Mutant of CreateStore: the counter is set from the id read earlier.
CreateStoreFromId(w) ==
  /\ At(w, "priced")
  /\ Insert(worker[w].id)
  /\ order_id_counter' = worker[w].id + 1
  /\ forced' = forced \ {worker[w].id}
  /\ Move(w, "closing")

CreateStore(w) ==
  /\ At(w, "priced")
  /\ Insert(worker[w].id)
  /\ order_id_counter' = order_id_counter + 1
  /\ forced' = forced \ {worker[w].id}
  /\ Move(w, "closing")

\* JSONResponse.render() raises ValueError for an infinite number.
Rendered(id) == IF orders[id].infinite THEN "failed" ELSE "ok"

\* After the log line: the order is looked up again for the answer.  Orders
\* are never removed, so that the look-up cannot fail.
Close(w) ==
  /\ At(w, "closing")
  /\ Finish(w, Rendered(worker[w].id))
  /\ UNCHANGED <<order_id_counter, orders, forced>>

-----------------------------------------------------------------------------
(***************************************************************************)
(* update_order and cancel_order: all that is modelled of them happens     *)
(* before their first call.                                                *)
(***************************************************************************)
SetStatus(id, s) == orders' = [orders EXCEPT ![id].status = s]

\* A PUT with a valid status, or with an address only.
Update(w, id) ==
  /\ Stored(id)
  /\ Serve(w, "closing", "put", id)
  /\ \/ \E s \in VALID_STATUSES : SetStatus(id, s) /\ forced' = forced \cup {id}
     \/ UNCHANGED <<orders, forced>>
  /\ UNCHANGED order_id_counter

\* Mutant of UpdateInvalid: without the test against VALID_STATUSES.
UpdateUnchecked(w, id) ==
  /\ Stored(id)
  /\ Serve(w, "closing", "put", id)
  /\ SetStatus(id, "returned")
  /\ forced' = forced \cup {id}
  /\ UNCHANGED order_id_counter

UpdateInvalid(w, id) == Stored(id) /\ Reject(w, "put", "refused")

Cancel(w, id) ==
  /\ Stored(id)
  /\ Serve(w, "closing", "cancel", id)
  /\ SetStatus(id, "cancelled")
  /\ UNCHANGED <<order_id_counter, forced>>

-----------------------------------------------------------------------------
(***************************************************************************)
(* confirm_order, ship_order, deliver_order: the status is tested and set  *)
(* without a call in between; what follows is done after calls.            *)
(***************************************************************************)
From(op) == CASE op = "confirm" -> "pending"
              [] op = "ship"    -> "confirmed"
              [] op = "deliver" -> "shipped"

Wrong(w, op, id) ==
  /\ Stored(id) /\ ~HasStatus(id, From(op))
  /\ Reject(w, op, "refused")

Confirm(w, id) ==
  /\ HasStatus(id, "pending")
  /\ Serve(w, "closing", "confirm", id)
  /\ SetStatus(id, "confirmed")
  /\ UNCHANGED <<order_id_counter, forced>>

\* Mutants of Tracked: the status is written here, after the call; the number
\* is not stored.
TrackedAndShipped(o) == [o EXCEPT !.tracking = TRUE, !.status = "shipped"]
Untracked(o)         == o

\* The tracking number given in the request is stored at once; otherwise
\* random.randint() is called first.
Tracked(o) == [o EXCEPT !.tracking = TRUE]

Ship(w, id) ==
  /\ HasStatus(id, "confirmed")
  /\ \/ Serve(w, "draw", "ship", id) /\ SetStatus(id, "shipped")
     \/ /\ Serve(w, "label", "ship", id)
        /\ orders' = [orders EXCEPT ![id] =
                        Tracked([orders[id] EXCEPT !.status = "shipped"])]
  /\ UNCHANGED <<order_id_counter, forced>>

ShipDraw(w) ==
  /\ At(w, "draw")
  /\ orders' = [orders EXCEPT ![worker[w].id] = Tracked(@)]
  /\ Move(w, "label")
  /\ UNCHANGED <<order_id_counter, forced>>

\* The log line reads tracking_number: KeyError if the order was replaced.
ShipLabel(w) ==
  /\ At(w, "label")
  /\ IF orders[worker[w].id].tracking THEN Move(w, "closing") ELSE Finish(w, "failed")
  /\ UNCHANGED <<order_id_counter, orders, forced>>

Deliver(w, id) ==
  /\ HasStatus(id, "shipped")
  /\ Serve(w, "sign", "deliver", id)
  /\ SetStatus(id, "delivered")
  /\ UNCHANGED <<order_id_counter, forced>>

DeliverSign(w) ==
  /\ At(w, "sign")
  /\ orders' = [orders EXCEPT ![worker[w].id].delivered_at = TRUE]
  /\ Move(w, "closing")
  /\ UNCHANGED <<order_id_counter, forced>>

-----------------------------------------------------------------------------
(***************************************************************************)
(* get_order logs first.  list_orders, get_user_orders, health and stats   *)
(* walk over orders_db; Python raises RuntimeError when its size changed.  *)
(***************************************************************************)
GetBegin(w, id) == Serve(w, "read", "read", id) /\ UNCHANGED <<order_id_counter, orders, forced>>

GetEnd(w) ==
  /\ At(w, "read")
  /\ IF Stored(worker[w].id)
     THEN Finish(w, Rendered(worker[w].id))
     ELSE Finish(w, "missing")
  /\ UNCHANGED <<order_id_counter, orders, forced>>

Size == Cardinality(DOMAIN orders)

ScanBegin(w) ==
  /\ At(w, "idle")
  /\ worker' = [worker EXCEPT ![w] = [Rest EXCEPT !.pc = "scan", !.op = "read",
                                                  !.seen = 1, !.size = Size]]
  /\ UNCHANGED <<order_id_counter, orders, forced>>

\* The answer of health() and stats(): the orders counted, and len(orders_db).
Counted(w) ==
  worker' = [worker EXCEPT ![w] = [Returned("read", 0, "ok") EXCEPT
               !.seen = worker[w].seen, !.size = Size]]

\* Mutant of ScanStep: the iteration runs over a copy of the values.
ScanStepOnCopy(w) ==
  /\ At(w, "scan")
  /\ IF worker[w].seen < worker[w].size
     THEN worker' = [worker EXCEPT ![w].seen = @ + 1]
     ELSE Counted(w)
  /\ UNCHANGED <<order_id_counter, orders, forced>>

ScanStep(w) ==
  /\ At(w, "scan")
  /\ IF Size # worker[w].size THEN Finish(w, "failed")
     ELSE IF worker[w].seen < worker[w].size
     THEN worker' = [worker EXCEPT ![w].seen = @ + 1]
     ELSE Counted(w)
  /\ UNCHANGED <<order_id_counter, orders, forced>>

\* The answer of list_orders or get_user_orders holds an infinite number, or the
\* revenue that get_stats adds up is one.  The answer of health has counts only.
ScanSpoils(w) ==
  /\ At(w, "scan")
  /\ \E i, j \in DOMAIN orders \ DOMAIN Samples : i # j \/ orders[i].infinite
  /\ Finish(w, "failed")
  /\ UNCHANGED <<order_id_counter, orders, forced>>

-----------------------------------------------------------------------------
\* The event loop sends the answer; the thread goes back to the pool.
Respond(w) ==
  /\ At(w, "answer")
  /\ worker' = [worker EXCEPT ![w] = Rest]
  /\ UNCHANGED <<order_id_counter, orders, forced>>

Moves == {"confirm", "ship", "deliver"}

\* The requests that name an order.
Request(w, id) ==
  \/ Update(w, id) \/ UpdateInvalid(w, id) \/ Cancel(w, id)
  \/ Confirm(w, id) \/ Ship(w, id) \/ Deliver(w, id) \/ GetBegin(w, id)
  \/ \E op \in Moves : Wrong(w, op, id)
  \/ \E op \in Moves \cup {"put", "cancel"} : NotFound(w, op, id)

\* What a thread does once it has a request.
Go(w) ==
  \/ CreateFails(w) \/ CreateStore(w) \/ ShipDraw(w) \/ ShipLabel(w) \/ DeliverSign(w)
  \/ GetEnd(w) \/ ScanStep(w) \/ Close(w)

Next ==
  \E w \in Workers :
    \/ CreateRead(w) \/ ScanBegin(w) \/ \E id \in Addressed : Request(w, id)
    \/ Go(w) \/ ScanSpoils(w) \/ Respond(w)

Spec == Init /\ [][Next]_vars

-----------------------------------------------------------------------------
PCs      == {"idle", "priced", "closing", "draw", "label", "sign", "read",
             "scan", "answer"}
Ops      == Moves \cup {"none", "create", "put", "cancel", "read"}
Verdicts == {"ok", "missing", "refused", "failed"}
Orders   == [status : Statuses, tracking : BOOLEAN, delivered_at : BOOLEAN,
             infinite : BOOLEAN]

\* Every variable has its type; the order a thread works on is in orders_db.
TypeOK ==
  /\ order_id_counter \in Nat
  /\ DOMAIN orders \subseteq Nat
  /\ orders \in [DOMAIN orders -> Orders]
  /\ worker \in [Workers -> [pc : PCs, op : Ops, id : Nat, verdict : Verdicts,
                             seen : Nat, size : Nat, known : SUBSET Nat]]
  /\ \A w \in Workers :
       worker[w].pc \in {"draw", "label", "sign", "closing"} => Stored(worker[w].id)
  /\ forced \subseteq Nat

\* Two creates may get the same id, and one order is then lost; but the order
\* that a create replaces was stored while that create was being served:
\* no order that existed before is ever lost.
ReplacesOnlyNewer ==
  \A w \in Workers : At(w, "priced") => worker[w].id \notin worker[w].known

Flow == {<<"pending", "confirmed">>, <<"confirmed", "shipped">>,
         <<"shipped", "delivered">>}

\* However confirm, ship, deliver, cancel and reads of the same order
\* interleave, a status moves along the flow or to cancelled; only PUT and
\* the create that replaces an order write something else.
FlowStep ==
  \A id \in DOMAIN orders :
    LET old == orders[id].status
        new == orders'[id].status
    IN old # new =>
         \/ <<old, new>> \in Flow \/ new = "cancelled"
         \/ id \in forced'
         \/ \E w \in Workers : CreateStore(w) /\ worker[w].id = id

FlowOnly == [][FlowStep]_vars

Busy(pc, id) == \E w \in Workers : At(w, pc) /\ worker[w].id = id

\* An order that shipped along the flow has a tracking number, and one that
\* was delivered a date, unless the handler that writes them is still at it:
\* also when the delivery overtakes the shipping, or a create replaces the
\* order half way.
MarksFollow ==
  \A id \in DOMAIN orders \ forced :
    /\ orders[id].status \in {"shipped", "delivered"} =>
         orders[id].tracking \/ Busy("draw", id)
    /\ orders[id].status = "delivered" =>
         orders[id].delivered_at \/ Busy("sign", id)

\* The numbers that a successful health() or stats() answers agree with each
\* other: the counts by status add up to total_orders, whatever was created
\* during the iteration.
CountsAddUp ==
  \A w \in Workers :
    At(w, "answer") /\ worker[w].op = "read" => worker[w].seen \in {0, worker[w].size}

-----------------------------------------------------------------------------
(***************************************************************************)
(* The service is an order book.  A request has taken effect once its      *)
(* handler works on nothing but the order's marks, the log line and the    *)
(* answer.                                                                 *)
(***************************************************************************)
Nothing == [op |-> "none", id |-> 0, verdict |-> "ok"]

Served(r) ==
  IF r.pc \in {"idle", "priced", "read", "scan"} THEN Nothing
  ELSE [op |-> r.op, id |-> IF r.op = "read" THEN 0 ELSE r.id, verdict |-> r.verdict]

Book == INSTANCE OrderBook WITH
          Ids      <- 1..MaxId,
          Opening  <- [id \in DOMAIN Samples |-> Samples[id].status],
          book     <- [id \in DOMAIN orders |-> orders[id].status],
          infinite <- {id \in DOMAIN orders : orders[id].infinite},
          owed     <- [w \in Workers |-> Served(worker[w])]

\* Every id that was given out has its order.
Complete == DOMAIN orders = 1..order_id_counter - 1

\* Until a create replaces another one's order, every handler is atomic,
\* however many run at once: its effect happens once, the answer reports it,
\* and no id is used twice.
IsOrderBook == Book!Init /\ [][Book!Next \/ ~Complete']_(Book!vars)

\* A create under way may be stored under every id that was free when it began.
Free(r) == IF r.pc = "priced" THEN (1..MaxId) \ r.known ELSE {}

Crowd == INSTANCE CrowdedBook WITH
           Ids      <- 1..MaxId,
           Opening  <- [id \in DOMAIN Samples |-> Samples[id].status],
           book     <- [id \in DOMAIN orders |-> orders[id].status],
           infinite <- {id \in DOMAIN orders : orders[id].infinite},
           owed     <- [w \in Workers |-> Served(worker[w])],
           free     <- [w \in Workers |-> Free(worker[w])],
           placed   <- order_id_counter - 1

\* However many threads create orders: a create may cost an order placed while
\* it was served, never an earlier one, and every other request is atomic and
\* is answered with what it did, but for a ship once an order was replaced.
IsCrowdedBook == Crowd!CrowdedSpec
=============================================================================
