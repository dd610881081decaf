----------------------------- MODULE OrderProofs ------------------------------
(***************************************************************************)
(* Theorems about OrderService, for any threads, ids and bound.            *)
(***************************************************************************)
EXTENDS OrderService, FiniteSetTheorems, TLAPS

Requests == [pc : PCs, op : Ops, id : Nat, verdict : Verdicts,
             seen : Nat, size : Nat, known : SUBSET Nat]

USE DEF PCs, Ops, Moves, Verdicts

-----------------------------------------------------------------------------
(***************************************************************************)
(* Type correctness.  The size that an iteration remembers is a natural    *)
(* number because orders_db is finite.                                     *)
(***************************************************************************)
OrdersFinite == IsFiniteSet(DOMAIN orders)
TypeInv      == TypeOK /\ OrdersFinite

HalfWay(r) == r.pc \in {"draw", "label", "sign", "closing"}

LEMMA SamplesType ==
  /\ DOMAIN Samples = 1..3
  /\ Samples \in [1..3 -> Orders]
<1>1. ASSUME NEW id \in 1..3
      PROVE  Order(CASE id = 1 -> "completed"
                     [] id = 2 -> "processing"
                     [] id = 3 -> "shipped") \in Orders
  <2>1. id = 1 \/ id = 2 \/ id = 3
    OBVIOUS
  <2> QED
    BY <2>1 DEF Order, Orders, Statuses, VALID_STATUSES
<1> QED
  BY <1>1 DEF Samples

LEMMA RestType == Rest \in Requests
  BY DEF Rest, Requests

LEMMA InitType == Init => TypeInv
<1>1. IsFiniteSet(1..3)
  <2>1. ASSUME NEW n \in Int PROVE IsFiniteSet(1..n)
    BY FS_Interval
  <2>2. 3 \in Int
    OBVIOUS
  <2> QED
    BY <2>1, <2>2, Zenon
<1> SUFFICES ASSUME Init PROVE TypeInv
  OBVIOUS
<1>2. worker \in [Workers -> Requests]
  BY RestType DEF Init
<1>3. \A w \in Workers : ~HalfWay(worker[w])
  BY DEF Init, Rest, HalfWay
<1> QED
  BY <1>1, <1>2, <1>3, SamplesType
  DEF Init, TypeInv, TypeOK, OrdersFinite, Requests, HalfWay

\* A thread gets a new request record; orders_db does not shrink.
LEMMA WorkerType ==
  ASSUME TypeInv, NEW w \in Workers, NEW r \in Requests,
         worker' = [worker EXCEPT ![w] = r],
         DOMAIN orders \subseteq DOMAIN orders',
         HalfWay(r) => r.id \in DOMAIN orders'
  PROVE  /\ worker' \in [Workers -> Requests]
         /\ \A v \in Workers : HalfWay(worker'[v]) => worker'[v].id \in DOMAIN orders'
<1>1. worker \in [Workers -> Requests]
  BY DEF TypeInv, TypeOK, Requests
<1>2. \A v \in Workers : HalfWay(worker[v]) => worker[v].id \in DOMAIN orders
  BY DEF TypeInv, TypeOK, HalfWay, Stored
<1> QED
  BY <1>1, <1>2

\* TypeInv of the next state, from its parts.
LEMMA TypeParts ==
  ASSUME TypeInv,
         worker' \in [Workers -> Requests],
         \A v \in Workers : HalfWay(worker'[v]) => worker'[v].id \in DOMAIN orders',
         DOMAIN orders' \subseteq Nat,
         IsFiniteSet(DOMAIN orders'),
         orders' \in [DOMAIN orders' -> Orders],
         order_id_counter' \in Nat,
         forced' \subseteq Nat
  PROVE  TypeInv'
  BY DEF TypeInv, TypeOK, OrdersFinite, Requests, HalfWay, Stored

\* A step that changes only the request of a thread.
LEMMA TypeReadOnly ==
  ASSUME TypeInv, NEW w \in Workers, NEW r \in Requests,
         worker' = [worker EXCEPT ![w] = r],
         UNCHANGED <<order_id_counter, orders, forced>>,
         HalfWay(r) => r.id \in DOMAIN orders
  PROVE  TypeInv'
<1>1. /\ worker' \in [Workers -> Requests]
      /\ \A v \in Workers : HalfWay(worker'[v]) => worker'[v].id \in DOMAIN orders'
  BY WorkerType
<1> QED
  BY <1>1, TypeParts DEF TypeInv, TypeOK, OrdersFinite

\* A step that also overwrites one order.
LEMMA TypeWrite ==
  ASSUME TypeInv, NEW w \in Workers, NEW r \in Requests,
         worker' = [worker EXCEPT ![w] = r],
         NEW id \in DOMAIN orders, NEW o \in Orders,
         orders' = [orders EXCEPT ![id] = o],
         UNCHANGED order_id_counter,
         forced' \subseteq Nat,
         HalfWay(r) => r.id \in DOMAIN orders
  PROVE  TypeInv'
<1>1. DOMAIN orders' = DOMAIN orders /\ orders' \in [DOMAIN orders' -> Orders]
  BY DEF TypeInv, TypeOK
<1>2. /\ worker' \in [Workers -> Requests]
      /\ \A v \in Workers : HalfWay(worker'[v]) => worker'[v].id \in DOMAIN orders'
  BY <1>1, WorkerType
<1> QED
  BY <1>1, <1>2, TypeParts DEF TypeInv, TypeOK, OrdersFinite

LEMMA SizeType == TypeInv => Size \in Nat
  BY FS_CardinalityType DEF TypeInv, OrdersFinite, Size

LEMMA TypeRequest ==
  ASSUME TypeInv, NEW w \in Workers, NEW id \in Nat, Request(w, id)
  PROVE  TypeInv'
<1> USE RestType DEF Requests
<1>2. ASSUME NEW op \in Ops, NEW verdict \in Verdicts, Reject(w, op, verdict)
      PROVE  TypeInv'
  <2>1. Returned(op, 0, verdict) \in Requests /\ ~HalfWay(Returned(op, 0, verdict))
    BY <1>2 DEF Returned, Rest, HalfWay
  <2> QED
    BY <1>2, <2>1, TypeReadOnly DEF Reject
<1>3. ASSUME NEW pc \in PCs, NEW op \in Ops
      PROVE  /\ Started(pc, op, id) \in Requests
             /\ Started(pc, op, id).id = id
             /\ Started(pc, op, id).pc = pc
  BY <1>3 DEF Started, Rest
<1>4. ASSUME NEW pc \in PCs, NEW op \in Ops, Serve(w, pc, op, id), Stored(id),
             NEW o \in Orders, orders' = [orders EXCEPT ![id] = o],
             UNCHANGED order_id_counter, forced' \subseteq Nat
      PROVE  TypeInv'
  <2>1. Started(pc, op, id) \in Requests /\ Started(pc, op, id).id \in DOMAIN orders
    BY <1>3, <1>4 DEF Stored
  <2>2. worker' = [worker EXCEPT ![w] = Started(pc, op, id)]
    BY <1>4 DEF Serve
  <2> QED
    BY <1>4, <2>1, <2>2, TypeWrite DEF Stored
<1>5. ASSUME NEW pc \in PCs, NEW op \in Ops, pc \in {"read"} \/ Stored(id),
             Serve(w, pc, op, id), UNCHANGED <<order_id_counter, orders, forced>>
      PROVE  TypeInv'
  <2>1. PICK r : r = Started(pc, op, id)
    OBVIOUS
  <2>2. r \in Requests /\ (HalfWay(r) => r.id \in DOMAIN orders)
    BY <1>3, <1>5, <2>1 DEF HalfWay, Stored
  <2>3. worker' = [worker EXCEPT ![w] = r]
    BY <1>5, <2>1 DEF Serve
  <2> QED
    BY <1>5, <2>2, <2>3, TypeReadOnly
<1>6. ASSUME NEW s \in Statuses, Stored(id), SetStatus(id, s)
      PROVE  /\ [orders[id] EXCEPT !.status = s] \in Orders
             /\ orders' = [orders EXCEPT ![id] = [orders[id] EXCEPT !.status = s]]
  <2>1. orders[id] \in Orders
    BY <1>6 DEF TypeInv, TypeOK, Stored
  <2> QED
    BY <1>6, <2>1 DEF SetStatus, Orders
<1>7. forced \subseteq Nat /\ forced \cup {id} \subseteq Nat
  BY DEF TypeInv, TypeOK
<1>8. CASE Update(w, id)
  <2>1. CASE UNCHANGED <<orders, forced>>
    BY <1>5, <1>8, <2>1 DEF Update
  <2>2. CASE \E s \in VALID_STATUSES : SetStatus(id, s) /\ forced' = forced \cup {id}
    BY <1>4, <1>6, <1>7, <1>8, <2>2 DEF Update, Statuses
  <2> QED
    BY <1>8, <2>1, <2>2 DEF Update
<1>9. CASE UpdateInvalid(w, id)
  BY <1>2, <1>9 DEF UpdateInvalid
<1>10. CASE Cancel(w, id)
  BY <1>4, <1>6, <1>7, <1>10 DEF Cancel, Statuses, VALID_STATUSES
<1>11. CASE Confirm(w, id)
  BY <1>4, <1>6, <1>7, <1>11 DEF Confirm, HasStatus, Statuses, VALID_STATUSES
<1>12. CASE Ship(w, id)
  <2>1. Stored(id) /\ orders[id] \in Orders
    BY <1>12 DEF Ship, HasStatus, Stored, TypeInv, TypeOK
  <2>2. CASE Serve(w, "draw", "ship", id) /\ SetStatus(id, "shipped")
    BY <1>4, <1>6, <1>7, <1>12, <2>1, <2>2 DEF Ship, Statuses, VALID_STATUSES
  <2>3. CASE /\ Serve(w, "label", "ship", id)
             /\ orders' = [orders EXCEPT ![id] =
                             Tracked([orders[id] EXCEPT !.status = "shipped"])]
    <3>1. Tracked([orders[id] EXCEPT !.status = "shipped"]) \in Orders
      BY <2>1 DEF Tracked, Orders, Statuses, VALID_STATUSES
    <3> QED
      BY <1>4, <1>7, <1>12, <2>1, <2>3, <3>1 DEF Ship
  <2> QED
    BY <1>12, <2>2, <2>3 DEF Ship
<1>13. CASE Deliver(w, id)
  BY <1>4, <1>6, <1>7, <1>13 DEF Deliver, HasStatus, Statuses, VALID_STATUSES
<1>14. CASE GetBegin(w, id)
  BY <1>5, <1>14 DEF GetBegin
<1>15. CASE \E op \in Moves : Wrong(w, op, id)
  BY <1>2, <1>15 DEF Wrong
<1>16. CASE \E op \in Moves \cup {"put", "cancel"} : NotFound(w, op, id)
  BY <1>2, <1>16 DEF NotFound
<1> QED
  BY <1>8, <1>9, <1>10, <1>11, <1>12, <1>13, <1>14, <1>15, <1>16 DEF Request

\* A step on the order a thread works on, which leaves its id in place.
LEMMA MoveType ==
  ASSUME TypeInv, NEW w \in Workers, NEW pc \in PCs, Move(w, pc)
  PROVE  /\ [worker[w] EXCEPT !.pc = pc] \in Requests
         /\ [worker[w] EXCEPT !.pc = pc].pc = pc
         /\ [worker[w] EXCEPT !.pc = pc].id = worker[w].id
         /\ worker' = [worker EXCEPT ![w] = [worker[w] EXCEPT !.pc = pc]]
  BY DEF TypeInv, TypeOK, Requests, Move

LEMMA ReturnedType ==
  ASSUME NEW op \in Ops, NEW id \in Nat, NEW verdict \in Verdicts
  PROVE  /\ Returned(op, id, verdict) \in Requests
         /\ Returned(op, id, verdict).pc = "answer"
  BY DEF Returned, Rest, Requests

LEMMA FinishType ==
  ASSUME TypeInv, NEW w \in Workers, NEW verdict \in Verdicts, Finish(w, verdict),
         UNCHANGED <<order_id_counter, orders, forced>>
  PROVE  TypeInv'
<1>1. worker[w].op \in Ops /\ worker[w].id \in Nat
  BY DEF TypeInv, TypeOK
<1>2. worker' = [worker EXCEPT ![w] = Returned(worker[w].op, worker[w].id, verdict)]
  BY DEF Finish
<1> QED
  BY <1>1, <1>2, ReturnedType, TypeReadOnly DEF HalfWay

LEMMA TypeGo ==
  ASSUME TypeInv, NEW w \in Workers, Go(w)
  PROVE  TypeInv'
<1> DEFINE id == worker[w].id
<1>1. /\ worker[w] \in Requests /\ id \in Nat
      /\ forced \subseteq Nat
      /\ HalfWay(worker[w]) => id \in DOMAIN orders /\ orders[id] \in Orders
  BY DEF TypeInv, TypeOK, Requests, Stored, HalfWay
<1>2. CASE CreateStore(w)
  <2>1. /\ DOMAIN orders' = DOMAIN orders \cup {id}
        /\ orders' \in [DOMAIN orders' -> Orders]
    <3>1. PICK inf \in BOOLEAN :
            orders' = [i \in DOMAIN orders \cup {id} |->
                         IF i = id THEN [Order("pending") EXCEPT !.infinite = inf]
                         ELSE orders[i]]
      BY <1>2 DEF CreateStore, Insert
    <3>2. [Order("pending") EXCEPT !.infinite = inf] \in Orders
      BY DEF Order, Orders, Statuses, VALID_STATUSES
    <3> QED
      BY <3>1, <3>2 DEF TypeInv, TypeOK
  <2>2. IsFiniteSet(DOMAIN orders')
    BY <2>1, FS_AddElement DEF TypeInv, OrdersFinite
  <2>3. /\ worker' \in [Workers -> Requests]
        /\ \A v \in Workers : HalfWay(worker'[v]) => worker'[v].id \in DOMAIN orders'
    <3> DEFINE r == [worker[w] EXCEPT !.pc = "closing"]
    <3>1. /\ r \in Requests /\ r.pc = "closing" /\ r.id = id
          /\ worker' = [worker EXCEPT ![w] = r]
      BY <1>2, MoveType DEF CreateStore
    <3>2. DOMAIN orders \subseteq DOMAIN orders' /\ id \in DOMAIN orders'
      BY <2>1
    <3> HIDE DEF r
    <3> QED
      BY <3>1, <3>2, WorkerType DEF HalfWay
  <2>4. DOMAIN orders' \subseteq Nat /\ order_id_counter' \in Nat /\ forced' \subseteq Nat
    BY <1>1, <1>2, <2>1 DEF CreateStore, TypeInv, TypeOK
  <2> QED
    BY <2>1, <2>2, <2>3, <2>4, TypeParts
<1>3. CASE ShipDraw(w)
  <2>1. id \in DOMAIN orders /\ orders[id] \in Orders
    BY <1>1, <1>3 DEF ShipDraw, At, HalfWay
  <2>2. Tracked(orders[id]) \in Orders
    BY <2>1 DEF Tracked, Orders
  <2>3. orders' = [orders EXCEPT ![id] = Tracked(orders[id])]
    BY <1>3 DEF ShipDraw
  <2> DEFINE r == [worker[w] EXCEPT !.pc = "label"]
  <2>4. r \in Requests /\ r.id = id /\ worker' = [worker EXCEPT ![w] = r]
    BY <1>3, MoveType DEF ShipDraw
  <2>5. UNCHANGED <<order_id_counter, forced>>
    BY <1>3 DEF ShipDraw
  <2> HIDE DEF id, r
  <2> QED
    BY <1>1, <2>1, <2>2, <2>3, <2>4, <2>5, TypeWrite
<1>4. CASE ShipLabel(w)
  <2>1. CASE Finish(w, "failed")
    BY <1>4, <2>1, FinishType DEF ShipLabel
  <2>2. CASE Move(w, "closing")
    <3> DEFINE r == [worker[w] EXCEPT !.pc = "closing"]
    <3>1. r \in Requests /\ r.id = id /\ worker' = [worker EXCEPT ![w] = r]
      BY <2>2, MoveType
    <3>2. id \in DOMAIN orders
      BY <1>1, <1>4 DEF ShipLabel, At, HalfWay
    <3> HIDE DEF r, id
    <3> QED
      BY <1>4, <3>1, <3>2, TypeReadOnly DEF ShipLabel
  <2> QED
    BY <1>4, <2>1, <2>2 DEF ShipLabel
<1>5. CASE DeliverSign(w)
  <2>1. id \in DOMAIN orders /\ orders[id] \in Orders
    BY <1>1, <1>5 DEF DeliverSign, At, HalfWay
  <2>2. [orders[id] EXCEPT !.delivered_at = TRUE] \in Orders
    BY <2>1 DEF Orders
  <2>3. orders' = [orders EXCEPT ![id] = [orders[id] EXCEPT !.delivered_at = TRUE]]
    BY <1>5, <2>1 DEF DeliverSign
  <2> DEFINE r == [worker[w] EXCEPT !.pc = "closing"]
  <2>4. r \in Requests /\ r.id = id /\ worker' = [worker EXCEPT ![w] = r]
    BY <1>5, MoveType DEF DeliverSign
  <2>5. UNCHANGED <<order_id_counter, forced>>
    BY <1>5 DEF DeliverSign
  <2> HIDE DEF id, r
  <2> QED
    BY <1>1, <2>1, <2>2, <2>3, <2>4, <2>5, TypeWrite
<1>6. CASE GetEnd(w) \/ Close(w)
  <2>1. Rendered(id) \in Verdicts
    BY DEF Rendered
  <2> QED
    BY <1>6, <2>1, FinishType DEF GetEnd, Close
<1>7. CASE ScanStep(w)
  <2>1. CASE Finish(w, "failed")
    BY <1>7, <2>1, FinishType DEF ScanStep
  <2>2. CASE worker' = [worker EXCEPT ![w].seen = @ + 1]
    <3>1. /\ [worker[w] EXCEPT !.seen = worker[w].seen + 1] \in Requests
          /\ [worker[w] EXCEPT !.seen = worker[w].seen + 1].pc = "scan"
      BY <1>1, <1>7 DEF ScanStep, At, Requests
    <3>2. worker' = [worker EXCEPT ![w] = [worker[w] EXCEPT !.seen = worker[w].seen + 1]]
      BY <1>1, <2>2
    <3> QED
      BY <1>7, <3>1, <3>2, TypeReadOnly DEF ScanStep, HalfWay
  <2>3. CASE Counted(w)
    <3> DEFINE r == [Returned("read", 0, "ok") EXCEPT !.seen = worker[w].seen, !.size = Size]
    <3>1. r \in Requests /\ r.pc = "answer"
      <4>1. Returned("read", 0, "ok") \in Requests /\ Returned("read", 0, "ok").pc = "answer"
        BY ReturnedType
      <4>2. Size \in Nat /\ worker[w].seen \in Nat
        BY <1>1, SizeType DEF Requests
      <4> QED
        BY <4>1, <4>2 DEF Requests
    <3>2. worker' = [worker EXCEPT ![w] = r]
      BY <2>3 DEF Counted
    <3> HIDE DEF r
    <3> QED
      BY <1>7, <3>1, <3>2, TypeReadOnly DEF ScanStep, HalfWay
  <2> QED
    BY <1>7, <2>1, <2>2, <2>3 DEF ScanStep
<1>8. CASE CreateFails(w)
  <2>1. Returned("create", 0, "failed") \in Requests /\ ~HalfWay(Returned("create", 0, "failed"))
    BY ReturnedType DEF HalfWay
  <2> QED
    BY <1>8, <2>1, TypeReadOnly DEF CreateFails
<1> QED
  BY <1>2, <1>3, <1>4, <1>5, <1>6, <1>7, <1>8 DEF Go

LEMMA TypeNext == TypeInv /\ [Next]_vars => TypeInv'
<1> SUFFICES ASSUME TypeInv, [Next]_vars PROVE TypeInv'
  OBVIOUS
<1>1. CASE UNCHANGED vars
  BY <1>1 DEF vars, TypeInv, TypeOK, OrdersFinite, Stored
<1>2. ASSUME NEW w \in Workers, CreateRead(w) PROVE TypeInv'
  <2> DEFINE r == [Rest EXCEPT !.pc = "priced", !.op = "create",
                               !.id = order_id_counter, !.known = DOMAIN orders]
  <2>1. r \in Requests /\ r.pc = "priced"
    BY DEF Rest, Requests, TypeInv, TypeOK
  <2>2. worker' = [worker EXCEPT ![w] = r]
    BY <1>2 DEF CreateRead
  <2> HIDE DEF r
  <2> QED
    BY <1>2, <2>1, <2>2, TypeReadOnly DEF CreateRead, HalfWay
<1>3. ASSUME NEW w \in Workers, ScanBegin(w) PROVE TypeInv'
  <2> DEFINE r == [Rest EXCEPT !.pc = "scan", !.op = "read", !.seen = 1, !.size = Size]
  <2>1. r \in Requests /\ r.pc = "scan"
    BY SizeType DEF Rest, Requests
  <2>2. worker' = [worker EXCEPT ![w] = r]
    BY <1>3 DEF ScanBegin
  <2> HIDE DEF r
  <2> QED
    BY <1>3, <2>1, <2>2, TypeReadOnly DEF ScanBegin, HalfWay
<1>4. ASSUME NEW w \in Workers, Respond(w) PROVE TypeInv'
  BY <1>4, RestType, TypeReadOnly DEF Respond, HalfWay, Rest
<1>5. ASSUME NEW w \in Workers, NEW id \in Addressed, Request(w, id) PROVE TypeInv'
  BY <1>5, TypeRequest, IdsAssumption
<1>6. ASSUME NEW w \in Workers, ScanSpoils(w) PROVE TypeInv'
  BY <1>6, FinishType DEF ScanSpoils
<1> QED
  BY <1>1, <1>2, <1>3, <1>4, <1>5, <1>6, TypeGo DEF Next

\* Every reachable state of the order service is well typed.
THEOREM OrderTypeCorrect == Spec => []TypeOK
<1>1. TypeInv => TypeOK
  BY DEF TypeInv
<1> QED
  BY <1>1, InitType, TypeNext, PTL DEF Spec

-----------------------------------------------------------------------------
(***************************************************************************)
(* The allocation of ids.  The counter is above every id in use and never  *)
(* falls back below one that a create has read: an id that was free when   *)
(* it was read can only be taken by a create that was under way as well.   *)
(***************************************************************************)
IdsBelow    == \A id \in DOMAIN orders : id < order_id_counter
PricedBelow == \A w \in Workers : At(w, "priced") => worker[w].id <= order_id_counter
AllocInv    == IdsBelow /\ PricedBelow /\ ReplacesOnlyNewer

\* A step that allocates nothing.
LEMMA AllocFrame ==
  ASSUME TypeInv, AllocInv, NEW w \in Workers, NEW r,
         worker' = [worker EXCEPT ![w] = r], r.pc # "priced",
         DOMAIN orders' = DOMAIN orders,
         UNCHANGED order_id_counter
  PROVE  AllocInv'
<1>1. worker'[w] = r /\ \A v \in Workers \ {w} : worker'[v] = worker[v]
  BY DEF TypeInv, TypeOK
<1> QED
  BY <1>1 DEF AllocInv, IdsBelow, PricedBelow, ReplacesOnlyNewer, At

LEMMA RequestAllocatesNothing ==
  ASSUME TypeInv, NEW w \in Workers, NEW id \in Nat, Request(w, id)
  PROVE  /\ \E r : worker' = [worker EXCEPT ![w] = r] /\ r.pc # "priced"
         /\ DOMAIN orders' = DOMAIN orders
         /\ UNCHANGED order_id_counter
<1>1. ASSUME NEW pc \in {"closing", "draw", "label", "sign", "read"}, NEW op,
             Serve(w, pc, op, id)
      PROVE  \E r : worker' = [worker EXCEPT ![w] = r] /\ r.pc # "priced"
  <2>1. Started(pc, op, id).pc # "priced"
    BY DEF Started, Rest
  <2> QED
    BY <1>1, <2>1 DEF Serve
<1>2. ASSUME NEW op, NEW verdict, Reject(w, op, verdict)
      PROVE  \E r : worker' = [worker EXCEPT ![w] = r] /\ r.pc # "priced"
  <2>1. Returned(op, 0, verdict).pc # "priced"
    BY DEF Returned, Rest
  <2> QED
    BY <1>2, <2>1 DEF Reject
<1>3. CASE Update(w, id) \/ Cancel(w, id) \/ Confirm(w, id)
           \/ Deliver(w, id) \/ GetBegin(w, id)
  BY <1>1, <1>3 DEF Update, Cancel, Confirm, Deliver, GetBegin, SetStatus
<1>4. CASE Ship(w, id)
  BY <1>1, <1>4 DEF Ship, SetStatus
<1>5. CASE \/ UpdateInvalid(w, id) \/ \E op \in Moves : Wrong(w, op, id)
           \/ \E op \in Moves \cup {"put", "cancel"} : NotFound(w, op, id)
  <2>1. PICK op, verdict : Reject(w, op, verdict)
    BY <1>5 DEF UpdateInvalid, Wrong, NotFound
  <2> QED
    BY <1>2, <2>1 DEF Reject
<1> QED
  BY <1>3, <1>4, <1>5 DEF Request

LEMMA GoAllocatesNothing ==
  ASSUME TypeInv, NEW w \in Workers, Go(w) \/ ScanSpoils(w), ~CreateStore(w)
  PROVE  /\ \E r : worker' = [worker EXCEPT ![w] = r] /\ r.pc # "priced"
         /\ DOMAIN orders' = DOMAIN orders
         /\ UNCHANGED order_id_counter
<1>1. ASSUME NEW pc \in PCs \ {"priced"}, Move(w, pc)
      PROVE  \E r : worker' = [worker EXCEPT ![w] = r] /\ r.pc # "priced"
  <2> DEFINE r == [worker[w] EXCEPT !.pc = pc]
  <2>1. r.pc = pc /\ worker' = [worker EXCEPT ![w] = r]
    BY <1>1, MoveType
  <2> HIDE DEF r
  <2> QED
    BY <2>1
<1>2. ASSUME NEW verdict, Finish(w, verdict)
      PROVE  \E r : worker' = [worker EXCEPT ![w] = r] /\ r.pc # "priced"
  <2>1. Returned(worker[w].op, worker[w].id, verdict).pc # "priced"
    BY DEF Returned, Rest
  <2> QED
    BY <1>2, <2>1 DEF Finish
<1>3. CASE ShipDraw(w) \/ DeliverSign(w)
  BY <1>1, <1>3 DEF ShipDraw, DeliverSign
<1>4. CASE ShipLabel(w)
  BY <1>1, <1>2, <1>4 DEF ShipLabel
<1>5. CASE GetEnd(w) \/ Close(w) \/ ScanSpoils(w)
  BY <1>2, <1>5 DEF GetEnd, Close, ScanSpoils
<1>6. CASE ScanStep(w)
  <2>1. CASE worker' = [worker EXCEPT ![w].seen = @ + 1]
    <3>1. worker' = [worker EXCEPT ![w] = [worker[w] EXCEPT !.seen = worker[w].seen + 1]]
      BY <2>1 DEF TypeInv, TypeOK
    <3>2. [worker[w] EXCEPT !.seen = worker[w].seen + 1].pc # "priced"
      BY <1>6 DEF ScanStep, At, TypeInv, TypeOK
    <3> QED
      BY <1>6, <3>1, <3>2 DEF ScanStep
  <2>2. CASE Counted(w)
    <3> DEFINE r == [Returned("read", 0, "ok") EXCEPT !.seen = worker[w].seen, !.size = Size]
    <3>1. r.pc # "priced"
      BY DEF Returned, Rest
    <3>2. worker' = [worker EXCEPT ![w] = r]
      BY <2>2 DEF Counted
    <3> HIDE DEF r
    <3> QED
      BY <1>6, <3>1, <3>2 DEF ScanStep
  <2>3. CASE Finish(w, "failed")
    BY <1>2, <1>6, <2>3 DEF ScanStep
  <2> QED
    BY <1>6, <2>1, <2>2, <2>3 DEF ScanStep
<1>7. CASE CreateFails(w)
  <2>1. Returned("create", 0, "failed").pc # "priced"
    BY DEF Returned, Rest
  <2> QED
    BY <1>7, <2>1 DEF CreateFails
<1> QED
  BY <1>3, <1>4, <1>5, <1>6, <1>7 DEF Go

LEMMA AllocInit == Init => AllocInv
<1> SUFFICES ASSUME Init PROVE AllocInv
  OBVIOUS
<1>1. \A w \in Workers : ~At(w, "priced")
  BY DEF Init, At, Rest
<1> QED
  BY <1>1, SamplesType DEF Init, AllocInv, IdsBelow, PricedBelow, ReplacesOnlyNewer

LEMMA AllocNext == TypeInv /\ AllocInv /\ [Next]_vars => AllocInv'
<1> SUFFICES ASSUME TypeInv, AllocInv, [Next]_vars PROVE AllocInv'
  OBVIOUS
<1>1. CASE UNCHANGED vars
  BY <1>1 DEF vars, AllocInv, IdsBelow, PricedBelow, ReplacesOnlyNewer, At
<1>2. ASSUME NEW w \in Workers, CreateRead(w) PROVE AllocInv'
  <2> DEFINE r == [Rest EXCEPT !.pc = "priced", !.op = "create",
                               !.id = order_id_counter, !.known = DOMAIN orders]
  <2>1. r.id = order_id_counter /\ r.known = DOMAIN orders
    BY DEF Rest
  <2>2. worker' = [worker EXCEPT ![w] = r] /\ UNCHANGED <<order_id_counter, orders>>
    BY <1>2 DEF CreateRead
  <2> HIDE DEF r
  <2>3. worker'[w] = r /\ \A v \in Workers \ {w} : worker'[v] = worker[v]
    BY <2>2 DEF TypeInv, TypeOK
  <2>4. order_id_counter \notin DOMAIN orders /\ order_id_counter \in Nat
    BY DEF AllocInv, IdsBelow, TypeInv, TypeOK
  <2> QED
    BY <2>1, <2>2, <2>3, <2>4
    DEF AllocInv, IdsBelow, PricedBelow, ReplacesOnlyNewer, At
<1>3. ASSUME NEW w \in Workers, CreateStore(w) PROVE AllocInv'
  <2>1. worker'[w].pc = "closing" /\ \A v \in Workers \ {w} : worker'[v] = worker[v]
    BY <1>3 DEF CreateStore, Move, TypeInv, TypeOK
  <2>2. /\ DOMAIN orders' = DOMAIN orders \cup {worker[w].id}
        /\ order_id_counter' = order_id_counter + 1
        /\ At(w, "priced")
    BY <1>3 DEF CreateStore, Insert
  <2>3. /\ order_id_counter \in Nat /\ DOMAIN orders \subseteq Nat
        /\ \A v \in Workers : worker[v].id \in Nat
    BY DEF TypeInv, TypeOK
  <2>4. IdsBelow'
    BY <2>2, <2>3 DEF AllocInv, IdsBelow, PricedBelow
  <2>5. PricedBelow' /\ ReplacesOnlyNewer'
    BY <2>1, <2>2, <2>3 DEF AllocInv, PricedBelow, ReplacesOnlyNewer, At
  <2> QED
    BY <2>4, <2>5 DEF AllocInv
<1>4. ASSUME NEW w \in Workers, Go(w) \/ ScanSpoils(w), ~CreateStore(w) PROVE AllocInv'
  BY <1>4, GoAllocatesNothing, AllocFrame
<1>5. ASSUME NEW w \in Workers, NEW id \in Addressed, Request(w, id) PROVE AllocInv'
  BY <1>5, IdsAssumption, RequestAllocatesNothing, AllocFrame
<1>6. ASSUME NEW w \in Workers, ScanBegin(w) PROVE AllocInv'
  <2> DEFINE r == [Rest EXCEPT !.pc = "scan", !.op = "read", !.seen = 1, !.size = Size]
  <2>1. r.pc # "priced"
    BY DEF Rest
  <2>2. worker' = [worker EXCEPT ![w] = r]
    BY <1>6 DEF ScanBegin
  <2> HIDE DEF r
  <2> QED
    BY <1>6, <2>1, <2>2, AllocFrame DEF ScanBegin
<1>7. ASSUME NEW w \in Workers, Respond(w) PROVE AllocInv'
  <2>1. Rest.pc # "priced"
    BY DEF Rest
  <2> QED
    BY <1>7, <2>1, AllocFrame DEF Respond
<1> QED
  BY <1>1, <1>2, <1>3, <1>4, <1>5, <1>6, <1>7 DEF Next

\* However many creates overlap, none replaces an order that was in orders_db
\* when it began.
THEOREM OldOrdersKept == Spec => []ReplacesOnlyNewer
<1>1. TypeInv /\ AllocInv => ReplacesOnlyNewer
  BY DEF AllocInv
<1> QED
  BY <1>1, InitType, TypeNext, AllocInit, AllocNext, PTL DEF Spec

-----------------------------------------------------------------------------
(***************************************************************************)
(* The status flow.                                                        *)
(***************************************************************************)

\* A status changes along the flow, to cancelled, by PUT, or because a create
\* replaces the order.
THEOREM FlowKept == Spec => FlowOnly
<1>1. ASSUME TypeInv, [Next]_vars PROVE [FlowStep]_vars
  <2> SUFFICES ASSUME NEW id \in DOMAIN orders,
                      orders[id].status # orders'[id].status
               PROVE  \/ <<orders[id].status, orders'[id].status>> \in Flow
                      \/ orders'[id].status = "cancelled"
                      \/ id \in forced'
                      \/ \E w \in Workers : CreateStore(w) /\ worker[w].id = id
    BY DEF FlowStep
  <2>1. \A i \in DOMAIN orders : orders[i] \in Orders
    BY <1>1 DEF TypeInv, TypeOK
  <2>2. ASSUME NEW i \in DOMAIN orders, NEW s, SetStatus(i, s)
        PROVE  i = id /\ orders'[id].status = s
    BY <2>1, <2>2 DEF SetStatus, Orders
  <2>3. PICK w \in Workers :
          \/ CreateRead(w) \/ ScanBegin(w) \/ \E i \in Addressed : Request(w, i)
          \/ Go(w) \/ ScanSpoils(w) \/ Respond(w)
    BY <1>1 DEF Next, vars
  <2>4. CASE CreateRead(w) \/ ScanBegin(w) \/ ScanSpoils(w) \/ Respond(w)
    BY <2>4 DEF CreateRead, ScanBegin, ScanSpoils, Respond
  <2>5. ASSUME NEW i \in Addressed, Request(w, i)
        PROVE  \/ <<orders[id].status, orders'[id].status>> \in Flow
               \/ orders'[id].status = "cancelled"
               \/ id \in forced'
    <3>1. CASE Update(w, i)
      BY <2>2, <3>1 DEF Update, Stored
    <3>2. CASE Cancel(w, i)
      BY <2>2, <3>2 DEF Cancel, Stored
    <3>3. CASE Confirm(w, i)
      BY <2>2, <3>3 DEF Confirm, HasStatus, Stored, Flow
    <3>4. CASE Ship(w, i)
      <4>1. i \in DOMAIN orders /\ orders[i].status = "confirmed"
        BY <3>4 DEF Ship, HasStatus, Stored
      <4>2. Tracked([orders[i] EXCEPT !.status = "shipped"]).status = "shipped"
        BY <2>1, <4>1 DEF Tracked, Orders
      <4>3. i = id /\ orders'[id].status = "shipped"
        BY <2>1, <2>2, <3>4, <4>1, <4>2 DEF Ship
      <4> QED
        BY <4>1, <4>3 DEF Flow
    <3>5. CASE Deliver(w, i)
      BY <2>2, <3>5 DEF Deliver, HasStatus, Stored, Flow
    <3>6. CASE GetBegin(w, i)
      BY <3>6 DEF GetBegin
    <3>7. CASE \/ UpdateInvalid(w, i) \/ \E op \in Moves : Wrong(w, op, i)
               \/ \E op \in Moves \cup {"put", "cancel"} : NotFound(w, op, i)
      BY <3>7 DEF UpdateInvalid, Wrong, NotFound, Reject
    <3> QED
      BY <2>5, <3>1, <3>2, <3>3, <3>4, <3>5, <3>6, <3>7 DEF Request
  <2>6. CASE Go(w)
    <3>1. CASE CreateStore(w)
      BY <3>1 DEF CreateStore, Insert
    <3>2. CASE ShipDraw(w)
      <4>1. Tracked(orders[id]).status = orders[id].status
        BY <2>1 DEF Tracked, Orders
      <4> QED
        BY <3>2, <4>1 DEF ShipDraw
    <3>3. CASE DeliverSign(w)
      BY <2>1, <3>3 DEF DeliverSign, Orders
    <3>4. CASE CreateFails(w) \/ ShipLabel(w) \/ GetEnd(w) \/ ScanStep(w) \/ Close(w)
      BY <3>4 DEF CreateFails, ShipLabel, GetEnd, ScanStep, Close
    <3> QED
      BY <2>6, <3>1, <3>2, <3>3, <3>4 DEF Go
  <2> QED
    BY <2>3, <2>4, <2>5, <2>6
<1> QED
  BY <1>1, InitType, TypeNext, PTL DEF Spec, FlowOnly

-----------------------------------------------------------------------------
(***************************************************************************)
(* OrderService implements CrowdedBook and, until an order is lost,        *)
(* OrderBook.  What both need of a handler is that it keeps the operation  *)
(* it was given.                                                           *)
(***************************************************************************)
OpOk(r) ==
  /\ r.pc \in {"read", "scan"} => r.op = "read"
  /\ r.pc = "priced" => r.op = "create" /\ r.verdict = "ok"
  /\ r.pc \in {"draw", "label"} => r.op = "ship"
  /\ HalfWay(r) => r.op \notin {"none", "read"} /\ r.verdict = "ok"
  /\ r.pc = "answer" => r.op # "none"

OpsKept == \A w \in Workers : OpOk(worker[w])

\* No order appears, disappears or loses its numbers.
NumbersKept ==
  /\ DOMAIN orders' = DOMAIN orders
  /\ \A id \in DOMAIN orders :
       /\ orders[id].tracking => orders'[id].tracking
       /\ orders'[id].infinite = orders[id].infinite

\* A step of thread w that has to do with no create.
Serves(w) ==
  \E r :
    /\ worker' = [worker EXCEPT ![w] = r]
    /\ worker[w].pc # "priced" /\ r.pc # "priced" /\ OpOk(r)
    /\ r.pc = "label" => orders'[r.id].tracking
    /\ UNCHANGED order_id_counter
    /\ NumbersKept

\* The log line of ship_order finds no tracking number.
ShipFails(w) == ShipLabel(w) /\ ~orders[worker[w].id].tracking

-----------------------------------------------------------------------------
(***************************************************************************)
(* What the mapping makes of a step.                                       *)
(***************************************************************************)
LEMMA OwedFrame ==
  ASSUME TypeInv, NEW w \in Workers, NEW r, worker' = [worker EXCEPT ![w] = r]
  PROVE  [v \in Workers |-> Served(worker'[v])]
           = [[v \in Workers |-> Served(worker[v])] EXCEPT ![w] = Served(r)]
<1>1. \A v \in Workers : worker'[v] = IF v = w THEN r ELSE worker[v]
  BY DEF TypeInv, TypeOK
<1>2. \A v \in Workers : Served(worker'[v]) = IF v = w THEN Served(r) ELSE Served(worker[v])
  BY <1>1
<1> QED
  BY <1>2

LEMMA OwedSame ==
  ASSUME TypeInv, NEW w \in Workers, NEW r, worker' = [worker EXCEPT ![w] = r],
         Served(r) = Served(worker[w])
  PROVE  [v \in Workers |-> Served(worker'[v])] = [v \in Workers |-> Served(worker[v])]
BY OwedFrame

\* The answer that is owed for op on order id.
Told(op, id, verdict) == [op |-> op, id |-> id, verdict |-> verdict]

LEMMA OwedAnswer ==
  ASSUME TypeInv, NEW w \in Workers, NEW r, worker' = [worker EXCEPT ![w] = r],
         Served(worker[w]) = Nothing,
         NEW op, NEW id, NEW verdict, Served(r) = Told(op, id, verdict)
  PROVE  Book!Answer(w, op, id, verdict)
<1>1. Served(worker[w]) = Book!Nothing
  BY DEF Nothing, Book!Nothing
<1> QED
  BY <1>1, OwedFrame DEF Book!Answer, Told

LEMMA ServedBusy ==
  ASSUME NEW r, r.pc \notin {"idle", "priced", "read", "scan"}
  PROVE  /\ r.op # "read" => Served(r) = Told(r.op, r.id, r.verdict)
         /\ r.op = "read" => Served(r) = Told(r.op, 0, r.verdict)
BY DEF Served, Told

LEMMA ServedIdle ==
  ASSUME NEW r, r.pc \in {"idle", "priced", "read", "scan"}
  PROVE  Served(r) = Nothing
BY DEF Served

BookNow == [id \in DOMAIN orders |-> orders[id].status]
InfNow  == {id \in DOMAIN orders : orders[id].infinite}

LEMMA BookSame ==
  ASSUME UNCHANGED orders
  PROVE  BookNow' = BookNow /\ InfNow' = InfNow /\ NumbersKept
  BY DEF BookNow, InfNow, NumbersKept

LEMMA InfSame == NumbersKept => InfNow' = InfNow
  BY DEF NumbersKept, InfNow

LEMMA BookWrite ==
  ASSUME NEW id \in DOMAIN orders, NEW o, orders' = [orders EXCEPT ![id] = o]
  PROVE  BookNow' = [BookNow EXCEPT ![id] = o.status]
  BY DEF BookNow

LEMMA RequestRefines ==
  ASSUME TypeInv, NEW w \in Workers, NEW id \in Nat, Request(w, id)
  PROVE  Serves(w) /\ [Book!Request(w)]_(Book!vars)
<1>1. ASSUME NEW pc \in {"closing", "draw", "label", "sign"}, NEW op \in Ops \ {"none", "read"},
             Serve(w, pc, op, id), NumbersKept, UNCHANGED order_id_counter,
             pc = "label" => orders'[id].tracking,
             pc \in {"draw", "label"} => op = "ship"
      PROVE  Serves(w) /\ Book!Answer(w, op, id, "ok")
  <2> DEFINE r == Started(pc, op, id)
  <2>1. r.pc = pc /\ r.op = op /\ r.id = id /\ r.verdict = "ok"
    BY DEF Started, Rest
  <2>2. worker' = [worker EXCEPT ![w] = r] /\ worker[w].pc = "idle"
    BY <1>1 DEF Serve, At
  <2> HIDE DEF r
  <2>3. Serves(w)
    BY <1>1, <2>1, <2>2 DEF OpOk, Serves
  <2>4. Served(worker[w]) = Nothing /\ Served(r) = Told(op, id, "ok")
    BY <1>1, <2>1, <2>2, ServedBusy, ServedIdle
  <2> QED
    BY <2>2, <2>3, <2>4, OwedAnswer
<1>2. ASSUME NEW op \in Ops \ {"none", "read"}, NEW verdict \in Verdicts, Reject(w, op, verdict)
      PROVE  Serves(w) /\ Book!Answer(w, op, 0, verdict) /\ UNCHANGED orders
  <2> DEFINE r == Returned(op, 0, verdict)
  <2>1. r.pc = "answer" /\ r.op = op /\ r.id = 0 /\ r.verdict = verdict
    BY DEF Returned, Rest
  <2>2. worker' = [worker EXCEPT ![w] = r] /\ worker[w].pc = "idle"
    BY <1>2 DEF Reject, At
  <2>3. UNCHANGED <<order_id_counter, orders>>
    BY <1>2 DEF Reject
  <2> HIDE DEF r
  <2>4. Serves(w)
    BY <1>2, <2>1, <2>2, <2>3, BookSame DEF OpOk, HalfWay, Serves
  <2>5. Served(worker[w]) = Nothing /\ Served(r) = Told(op, 0, verdict)
    BY <2>1, <2>2, ServedBusy, ServedIdle
  <2> QED
    BY <2>2, <2>3, <2>4, <2>5, OwedAnswer
<1>3. ASSUME NEW o \in Orders, Stored(id), orders[id].tracking => o.tracking,
             o.infinite = orders[id].infinite,
             orders' = [orders EXCEPT ![id] = o]
      PROVE  NumbersKept /\ BookNow' = [BookNow EXCEPT ![id] = o.status]
  BY <1>3, BookWrite DEF Stored, NumbersKept
<1>4. ASSUME NEW s \in VALID_STATUSES, Stored(id), SetStatus(id, s)
      PROVE  NumbersKept /\ BookNow' = [BookNow EXCEPT ![id] = s]
  <2> DEFINE o == [orders[id] EXCEPT !.status = s]
  <2>1. orders[id] \in Orders
    BY <1>4 DEF TypeInv, TypeOK, Stored
  <2>2. /\ o \in Orders /\ o.status = s /\ o.tracking = orders[id].tracking
        /\ o.infinite = orders[id].infinite
    BY <2>1 DEF Orders, Statuses
  <2>3. orders' = [orders EXCEPT ![id] = o]
    BY <1>4 DEF SetStatus
  <2> HIDE DEF o
  <2> QED
    BY <1>3, <1>4, <2>2, <2>3
<1>5. ASSUME NEW op, NEW s, Book!Answer(w, op, id, "ok"),
             BookNow' = [BookNow EXCEPT ![id] = s]
      PROVE  Book!Write(w, op, id, s)
  BY <1>5 DEF Book!Write, BookNow
<1>6. ASSUME NEW op, NEW verdict, Book!Answer(w, op, 0, verdict), UNCHANGED orders
      PROVE  Book!Refuse(w, op, verdict)
  BY <1>6 DEF Book!Refuse
<1>7. \A i : Stored(i) => i \in DOMAIN BookNow /\ BookNow[i] = orders[i].status
  BY DEF Stored, BookNow
<1>8. ASSUME Stored(id), Serves(w),
             \/ Book!Put(w, id) \/ Book!Cancel(w, id)
             \/ \E op \in Moves : Book!Advance(w, op, id)
      PROVE  Book!Request(w)
  <2>1. InfNow' = InfNow
    BY <1>8, InfSame DEF Serves
  <2> QED
    BY <1>8, <2>1 DEF Book!Request, Book!Moves, Stored, InfNow
<1>9. CASE Update(w, id)
  <2>1. Stored(id) /\ Serve(w, "closing", "put", id) /\ UNCHANGED order_id_counter
    BY <1>9 DEF Update
  <2>2. PICK s \in VALID_STATUSES \cup {BookNow[id]} :
          NumbersKept /\ BookNow' = [BookNow EXCEPT ![id] = s]
    <3>1. CASE UNCHANGED orders
      <4>1. BookNow = [BookNow EXCEPT ![id] = BookNow[id]]
        BY DEF BookNow
      <4> QED
        BY <3>1, <4>1, BookSame
    <3>2. CASE \E s \in VALID_STATUSES : SetStatus(id, s)
      BY <1>4, <2>1, <3>2
    <3> QED
      BY <1>9, <3>1, <3>2 DEF Update
  <2>3. Serves(w) /\ Book!Answer(w, "put", id, "ok")
    BY <1>1, <2>1, <2>2
  <2>4. Book!Write(w, "put", id, s)
    BY <1>5, <2>2, <2>3
  <2>5. Book!Put(w, id)
    BY <2>2, <2>4 DEF Book!Put, Book!Valid, VALID_STATUSES, BookNow
  <2> QED
    BY <1>8, <2>1, <2>3, <2>5
<1>10. CASE UpdateInvalid(w, id)
  <2>1. Serves(w) /\ Book!Put(w, id) /\ Stored(id)
    BY <1>2, <1>6, <1>10 DEF UpdateInvalid, Book!Put
  <2> QED
    BY <1>8, <2>1
<1>11. CASE Cancel(w, id)
  <2>1. /\ Stored(id) /\ Serve(w, "closing", "cancel", id) /\ UNCHANGED order_id_counter
        /\ NumbersKept /\ BookNow' = [BookNow EXCEPT ![id] = "cancelled"]
    BY <1>4, <1>11 DEF Cancel, VALID_STATUSES
  <2>2. Serves(w) /\ Book!Answer(w, "cancel", id, "ok")
    BY <1>1, <2>1
  <2>3. Book!Cancel(w, id)
    BY <1>5, <2>1, <2>2 DEF Book!Cancel
  <2> QED
    BY <1>8, <2>1, <2>2, <2>3
<1>12. CASE Confirm(w, id)
  <2>1. /\ Stored(id) /\ Serve(w, "closing", "confirm", id) /\ UNCHANGED order_id_counter
        /\ NumbersKept /\ BookNow' = [BookNow EXCEPT ![id] = "confirmed"]
        /\ BookNow[id] = "pending"
    BY <1>4, <1>7, <1>12 DEF Confirm, HasStatus, VALID_STATUSES
  <2>2. Serves(w) /\ Book!Answer(w, "confirm", id, "ok")
    BY <1>1, <2>1
  <2>3. Book!Write(w, "confirm", id, "confirmed")
    BY <1>5, <2>1, <2>2
  <2>4. Book!Advance(w, "confirm", id)
    BY <2>1, <2>3 DEF Book!Advance, Book!Before, Book!After, BookNow
  <2> QED
    BY <1>8, <2>1, <2>2, <2>4
<1>13. CASE Deliver(w, id)
  <2>1. /\ Stored(id) /\ Serve(w, "sign", "deliver", id) /\ UNCHANGED order_id_counter
        /\ NumbersKept /\ BookNow' = [BookNow EXCEPT ![id] = "delivered"]
        /\ BookNow[id] = "shipped"
    BY <1>4, <1>7, <1>13 DEF Deliver, HasStatus, VALID_STATUSES
  <2>2. Serves(w) /\ Book!Answer(w, "deliver", id, "ok")
    BY <1>1, <2>1
  <2>3. Book!Write(w, "deliver", id, "delivered")
    BY <1>5, <2>1, <2>2
  <2>4. Book!Advance(w, "deliver", id)
    BY <2>1, <2>3 DEF Book!Advance, Book!Before, Book!After, BookNow
  <2> QED
    BY <1>8, <2>1, <2>2, <2>4
<1>14. CASE Ship(w, id)
  <2>1. /\ Stored(id) /\ UNCHANGED order_id_counter
        /\ BookNow[id] = "confirmed" /\ orders[id] \in Orders
    BY <1>7, <1>14 DEF Ship, HasStatus, TypeInv, TypeOK, Stored
  <2>2. /\ Serves(w) /\ Book!Answer(w, "ship", id, "ok")
        /\ BookNow' = [BookNow EXCEPT ![id] = "shipped"]
    <3>1. CASE Serve(w, "draw", "ship", id) /\ SetStatus(id, "shipped")
      <4>1. NumbersKept /\ BookNow' = [BookNow EXCEPT ![id] = "shipped"]
        BY <1>4, <2>1, <3>1 DEF VALID_STATUSES
      <4> QED
        BY <1>1, <2>1, <3>1, <4>1
    <3>2. CASE /\ Serve(w, "label", "ship", id)
               /\ orders' = [orders EXCEPT ![id] =
                               Tracked([orders[id] EXCEPT !.status = "shipped"])]
      <4> DEFINE o == Tracked([orders[id] EXCEPT !.status = "shipped"])
      <4>1. /\ o \in Orders /\ o.tracking /\ o.status = "shipped"
            /\ o.infinite = orders[id].infinite
        BY <2>1 DEF Tracked, Orders, Statuses, VALID_STATUSES
      <4>2. orders' = [orders EXCEPT ![id] = o]
        BY <3>2
      <4> HIDE DEF o
      <4>3. NumbersKept /\ BookNow' = [BookNow EXCEPT ![id] = "shipped"]
        BY <1>3, <2>1, <4>1, <4>2
      <4>4. orders'[id].tracking
        BY <2>1, <4>1, <4>2 DEF Stored
      <4> QED
        BY <1>1, <2>1, <3>2, <4>3, <4>4
    <3> QED
      BY <1>14, <3>1, <3>2 DEF Ship
  <2>3. Book!Write(w, "ship", id, "shipped")
    BY <1>5, <2>2
  <2>4. Book!Advance(w, "ship", id)
    BY <2>1, <2>3 DEF Book!Advance, Book!Before, Book!After, BookNow
  <2> QED
    BY <1>8, <2>1, <2>2, <2>4
<1>15. CASE GetBegin(w, id)
  <2> DEFINE r == Started("read", "read", id)
  <2>1. r.pc = "read" /\ r.op = "read"
    BY DEF Started, Rest
  <2>2. /\ worker' = [worker EXCEPT ![w] = r] /\ worker[w].pc = "idle"
        /\ UNCHANGED <<order_id_counter, orders>>
    BY <1>15 DEF GetBegin, Serve, At
  <2> HIDE DEF r
  <2>3. Serves(w)
    BY <2>1, <2>2, BookSame DEF OpOk, HalfWay, Serves
  <2>4. Served(r) = Served(worker[w])
    BY <2>1, <2>2, ServedIdle
  <2> QED
    BY <2>2, <2>3, <2>4, OwedSame, BookSame DEF Book!vars, BookNow, InfNow
<1>16. ASSUME NEW op \in Moves, Wrong(w, op, id)
       PROVE  Serves(w) /\ Book!Request(w)
  <2>1. Serves(w) /\ Book!Refuse(w, op, "refused") /\ Stored(id)
    BY <1>2, <1>6, <1>16 DEF Wrong
  <2>2. BookNow[id] # Book!Before(op)
    BY <1>7, <1>16, <2>1 DEF Wrong, HasStatus, From, Book!Before
  <2>3. Book!Advance(w, op, id)
    BY <2>1, <2>2 DEF Book!Advance, BookNow
  <2> QED
    BY <1>8, <2>1, <2>3
<1>17. ASSUME NEW op \in Moves \cup {"put", "cancel"}, NotFound(w, op, id)
       PROVE  Serves(w) /\ Book!Request(w)
  <2>1. Serves(w) /\ Book!Refuse(w, op, "missing") /\ InfNow' = InfNow
    BY <1>2, <1>6, <1>17, BookSame DEF NotFound
  <2> QED
    BY <2>1 DEF Book!Request, Book!Moves, InfNow
<1> QED
  BY <1>9, <1>10, <1>11, <1>12, <1>13, <1>14, <1>15, <1>16, <1>17 DEF Request

\* A step that neither touches the statuses nor ends the service of a request.
LEMMA InnerStep ==
  ASSUME TypeInv, NEW w \in Workers, NEW r,
         worker' = [worker EXCEPT ![w] = r], UNCHANGED order_id_counter,
         worker[w].pc # "priced", r.pc # "priced", OpOk(r), r.pc = "label" => orders'[r.id].tracking,
         NumbersKept, BookNow' = BookNow, Served(r) = Served(worker[w])
  PROVE  Serves(w) /\ UNCHANGED Book!vars
<1>1. Serves(w)
  BY DEF Serves
<1> QED
  BY <1>1, OwedSame, InfSame DEF Book!vars, BookNow, InfNow

Reading(r)          == r.pc \in {"read", "scan"}
HasRead(r, verdict) == r.pc = "answer" /\ r.op = "read" /\ r.verdict = verdict

LEMMA ReadRefines ==
  ASSUME TypeInv, NEW w \in Workers, Reading(worker[w]),
         NEW r, NEW verdict \in {"ok", "missing", "failed"}, HasRead(r, verdict),
         worker' = [worker EXCEPT ![w] = r], UNCHANGED order_id_counter, UNCHANGED orders
  PROVE  Serves(w) /\ [Book!Request(w)]_(Book!vars)
<1>1. Serves(w)
  BY BookSame DEF OpOk, HalfWay, HasRead, Reading, Serves
<1>2. Served(worker[w]) = Nothing /\ Served(r) = Told("read", 0, verdict)
  BY ServedBusy, ServedIdle DEF Reading, HasRead
<1>3. Book!Answer(w, "read", 0, verdict)
  BY <1>2, OwedAnswer
<1> QED
  BY <1>1, <1>3, BookSame DEF Book!Request, Book!Read, Book!Refuse, InfNow

LEMMA Returns ==
  ASSUME NEW w \in Workers, NEW verdict, Finish(w, verdict)
  PROVE  \E r : /\ worker' = [worker EXCEPT ![w] = r]
                /\ r.pc = "answer" /\ r.op = worker[w].op /\ r.id = worker[w].id
                /\ r.verdict = verdict
<1> DEFINE r == Returned(worker[w].op, worker[w].id, verdict)
<1>1. r.pc = "answer" /\ r.op = worker[w].op /\ r.id = worker[w].id /\ r.verdict = verdict
  BY DEF Returned, Rest
<1>2. worker' = [worker EXCEPT ![w] = r]
  BY DEF Finish
<1> HIDE DEF r
<1> QED
  BY <1>1, <1>2

\* A request that has taken effect is answered with an error.
LEMMA ErrStep ==
  ASSUME TypeInv, OpsKept, NEW w \in Workers, HalfWay(worker[w]), Finish(w, "failed"),
         UNCHANGED <<order_id_counter, orders>>
  PROVE  Serves(w) /\ Book!Err(w)
<1>1. PICK r : /\ worker' = [worker EXCEPT ![w] = r]
               /\ r.pc = "answer" /\ r.op = worker[w].op /\ r.id = worker[w].id
               /\ r.verdict = "failed"
  BY Returns
<1>2. /\ worker[w].op \notin {"none", "read"} /\ worker[w].verdict = "ok"
      /\ worker[w].pc \in {"draw", "label", "sign", "closing"}
  BY DEF OpsKept, OpOk, HalfWay
<1>3. Serves(w)
  BY <1>1, <1>2, BookSame DEF OpOk, HalfWay, Serves
<1> DEFINE op == worker[w].op
           id == worker[w].id
<1>4. Served(worker[w]) = Told(op, id, "ok") /\ Served(r) = Told(op, id, "failed")
  BY <1>1, <1>2, ServedBusy
<1>5. Served(r) = [Served(worker[w]) EXCEPT !.verdict = "failed"]
  BY <1>4 DEF Told
<1>6. [v \in Workers |-> Served(worker'[v])]
        = [[v \in Workers |-> Served(worker[v])] EXCEPT ![w] = Served(r)]
  BY <1>1, OwedFrame
<1>7. Served(worker[w]).op # "none" /\ Served(worker[w]).verdict = "ok"
  BY <1>2, <1>4 DEF Told
<1> QED
  BY <1>3, <1>5, <1>6, <1>7, BookSame DEF Book!Err, BookNow

LEMMA GoRefines ==
  ASSUME TypeInv, OpsKept, NEW w \in Workers, Go(w) \/ ScanSpoils(w),
         ~CreateFails(w), ~CreateStore(w), ~ShipFails(w)
  PROVE  Serves(w) /\ [Book!Request(w)]_(Book!vars)
<1>1. /\ worker[w] \in Requests /\ OpOk(worker[w])
      /\ HalfWay(worker[w]) =>
           worker[w].id \in DOMAIN orders /\ orders[worker[w].id] \in Orders
  BY DEF OpsKept, TypeInv, TypeOK, Requests, Stored, HalfWay
<1>2. ASSUME NEW pc \in {"closing", "label"}, Move(w, pc),
             worker[w].pc \in {"draw", "label", "sign"},
             pc = "label" => worker[w].pc = "draw"
      PROVE  \E r : /\ worker' = [worker EXCEPT ![w] = r]
                    /\ r.pc = pc /\ r.id = worker[w].id
                    /\ OpOk(r) /\ Served(r) = Served(worker[w])
  <2> DEFINE r == [worker[w] EXCEPT !.pc = pc]
  <2>1. r.pc = pc /\ r.id = worker[w].id /\ r.op = worker[w].op /\ r.verdict = worker[w].verdict
    BY <1>1 DEF Requests
  <2>2. worker' = [worker EXCEPT ![w] = r]
    BY <1>1, <1>2 DEF Move
  <2> HIDE DEF r
  <2>3. OpOk(r) /\ Served(r) = Served(worker[w])
    BY <1>1, <1>2, <2>1, ServedBusy DEF OpOk, HalfWay
  <2> QED
    BY <2>1, <2>2, <2>3
<1>4. CASE ShipDraw(w)
  <2> DEFINE id == worker[w].id
             o == Tracked(orders[id])
  <2>1. /\ Move(w, "label") /\ worker[w].pc = "draw" /\ UNCHANGED order_id_counter
        /\ orders' = [orders EXCEPT ![id] = o]
    BY <1>4 DEF ShipDraw, At
  <2>2. /\ id \in DOMAIN orders /\ o.tracking /\ o.status = orders[id].status
        /\ o.infinite = orders[id].infinite
    BY <1>1, <2>1 DEF Tracked, Orders, HalfWay
  <2> HIDE DEF id, o
  <2>3. NumbersKept /\ BookNow' = BookNow /\ orders'[id].tracking
    BY <2>1, <2>2 DEF NumbersKept, BookNow
  <2>4. PICK r : /\ worker' = [worker EXCEPT ![w] = r]
                 /\ r.pc = "label" /\ r.id = id
                 /\ OpOk(r) /\ Served(r) = Served(worker[w])
    BY <1>2, <2>1 DEF id
  <2> QED
    BY <2>1, <2>3, <2>4, InnerStep
<1>5. CASE DeliverSign(w)
  <2> DEFINE id == worker[w].id
             o == [orders[id] EXCEPT !.delivered_at = TRUE]
  <2>1. /\ Move(w, "closing") /\ worker[w].pc = "sign" /\ UNCHANGED order_id_counter
        /\ orders' = [orders EXCEPT ![id] = o]
    BY <1>1, <1>5 DEF DeliverSign, At, HalfWay
  <2>2. /\ id \in DOMAIN orders /\ o.tracking = orders[id].tracking
        /\ o.status = orders[id].status /\ o.infinite = orders[id].infinite
    BY <1>1, <2>1 DEF Orders, HalfWay
  <2> HIDE DEF id, o
  <2>3. NumbersKept /\ BookNow' = BookNow
    BY <2>1, <2>2 DEF NumbersKept, BookNow
  <2>4. PICK r : /\ worker' = [worker EXCEPT ![w] = r]
                 /\ r.pc = "closing"
                 /\ OpOk(r) /\ Served(r) = Served(worker[w])
    BY <1>2, <2>1 DEF id
  <2> QED
    BY <2>1, <2>3, <2>4, InnerStep
<1>6. CASE ShipLabel(w)
  <2>1. /\ Move(w, "closing") /\ worker[w].pc = "label"
        /\ UNCHANGED <<order_id_counter, orders>>
    BY <1>6 DEF ShipLabel, At, ShipFails
  <2>2. PICK r : /\ worker' = [worker EXCEPT ![w] = r]
                 /\ r.pc = "closing"
                 /\ OpOk(r) /\ Served(r) = Served(worker[w])
    BY <1>2, <2>1
  <2> QED
    BY <2>1, <2>2, InnerStep, BookSame
<1>7. CASE GetEnd(w) \/ ScanSpoils(w)
  <2>1. /\ Reading(worker[w]) /\ worker[w].op = "read"
        /\ UNCHANGED <<order_id_counter, orders>>
    BY <1>1, <1>7 DEF GetEnd, ScanSpoils, At, OpOk, Reading
  <2>2. PICK verdict \in {"ok", "missing", "failed"} : Finish(w, verdict)
    BY <1>7 DEF GetEnd, ScanSpoils, Rendered
  <2>3. PICK r : /\ worker' = [worker EXCEPT ![w] = r]
                 /\ r.pc = "answer" /\ r.op = worker[w].op /\ r.verdict = verdict
    BY <2>2, Returns
  <2>4. HasRead(r, verdict)
    BY <2>1, <2>3 DEF HasRead
  <2> QED
    BY <2>1, <2>3, <2>4, ReadRefines
<1>8. CASE ScanStep(w)
  <2>1. /\ worker[w].pc = "scan" /\ worker[w].op = "read"
        /\ UNCHANGED <<order_id_counter, orders>>
    BY <1>1, <1>8 DEF ScanStep, At, OpOk
  <2>2. CASE Finish(w, "failed")
    <3>1. PICK r : /\ worker' = [worker EXCEPT ![w] = r]
                   /\ r.pc = "answer" /\ r.op = worker[w].op /\ r.verdict = "failed"
      BY <2>2, Returns
    <3>2. Reading(worker[w]) /\ HasRead(r, "failed")
      BY <2>1, <3>1 DEF Reading, HasRead
    <3> QED
      BY <2>1, <3>1, <3>2, ReadRefines
  <2>3. CASE Counted(w)
    <3> DEFINE r == [Returned("read", 0, "ok") EXCEPT !.seen = worker[w].seen, !.size = Size]
    <3>1. Reading(worker[w]) /\ HasRead(r, "ok")
      BY <2>1 DEF Reading, HasRead, Returned, Rest
    <3>2. worker' = [worker EXCEPT ![w] = r]
      BY <2>3 DEF Counted
    <3> HIDE DEF r
    <3> QED
      BY <2>1, <3>1, <3>2, ReadRefines
  <2>4. CASE worker' = [worker EXCEPT ![w].seen = @ + 1]
    <3> DEFINE r == [worker[w] EXCEPT !.seen = worker[w].seen + 1]
    <3>1. r.pc = "scan" /\ r.op = "read"
      BY <1>1, <2>1 DEF Requests
    <3>2. worker' = [worker EXCEPT ![w] = r]
      BY <2>4 DEF TypeInv, TypeOK
    <3> HIDE DEF r
    <3>3. OpOk(r) /\ Served(r) = Served(worker[w])
      BY <2>1, <3>1, ServedIdle DEF OpOk, HalfWay
    <3> QED
      BY <2>1, <3>1, <3>2, <3>3, InnerStep, BookSame
  <2> QED
    BY <1>8, <2>2, <2>3, <2>4 DEF ScanStep
<1>9. CASE Close(w)
  <2>1. /\ worker[w].pc = "closing" /\ worker[w].op \notin {"none", "read"}
        /\ worker[w].verdict = "ok"
        /\ UNCHANGED <<order_id_counter, orders>>
    BY <1>1, <1>9 DEF Close, At, OpOk, HalfWay
  <2>2. CASE Finish(w, "ok")
    <3>1. PICK r : /\ worker' = [worker EXCEPT ![w] = r]
                   /\ r.pc = "answer" /\ r.op = worker[w].op /\ r.id = worker[w].id
                   /\ r.verdict = "ok"
      BY <2>2, Returns
    <3>2. OpOk(r) /\ Served(r) = Served(worker[w])
      BY <2>1, <3>1, ServedBusy DEF OpOk, HalfWay
    <3> QED
      BY <2>1, <3>1, <3>2, InnerStep, BookSame
  <2>3. CASE orders[worker[w].id].infinite /\ Finish(w, "failed")
    <3>1. Serves(w) /\ Book!Err(w)
      BY <1>1, <2>1, <2>3, ErrStep DEF HalfWay
    <3>2. Served(worker[w]).id \in InfNow
      <4>1. Served(worker[w]) = Told(worker[w].op, worker[w].id, "ok")
        BY <2>1, ServedBusy
      <4> QED
        BY <1>1, <2>1, <2>3, <4>1 DEF Told, InfNow, HalfWay
    <3>3. InfNow' = InfNow
      BY <2>1, BookSame
    <3> QED
      BY <3>1, <3>2, <3>3 DEF Book!Request, InfNow
  <2> QED
    BY <1>9, <2>2, <2>3 DEF Close, Rendered
<1> QED
  BY <1>4, <1>5, <1>6, <1>7, <1>8, <1>9 DEF Go

\* Every step but those of a create serves one request of the book, if it is
\* not a failing log line.
LEMMA StepServes ==
  ASSUME TypeInv, OpsKept, [Next]_vars
  PROVE  \/ UNCHANGED vars
         \/ \E w \in Workers :
              \/ CreateRead(w) \/ CreateFails(w) \/ CreateStore(w) \/ ShipFails(w)
              \/ Serves(w) /\ [Book!Request(w)]_(Book!vars)
<1>5. ASSUME NEW w \in Workers, NEW id \in Addressed, Request(w, id)
      PROVE  Serves(w) /\ [Book!Request(w)]_(Book!vars)
  BY <1>5, IdsAssumption, RequestRefines
<1>6. ASSUME NEW w \in Workers, Go(w) \/ ScanSpoils(w),
             ~CreateFails(w), ~CreateStore(w), ~ShipFails(w)
      PROVE  Serves(w) /\ [Book!Request(w)]_(Book!vars)
  BY <1>6, GoRefines
<1>7. ASSUME NEW w \in Workers, ScanBegin(w)
      PROVE  Serves(w) /\ [Book!Request(w)]_(Book!vars)
  <2> DEFINE r == [Rest EXCEPT !.pc = "scan", !.op = "read", !.seen = 1, !.size = Size]
  <2>1. r.pc = "scan" /\ r.op = "read"
    BY DEF Rest
  <2>2. /\ worker' = [worker EXCEPT ![w] = r] /\ UNCHANGED <<order_id_counter, orders>>
        /\ worker[w].pc = "idle"
    BY <1>7 DEF ScanBegin, At
  <2> HIDE DEF r
  <2>3. OpOk(r) /\ Served(r) = Served(worker[w])
    BY <2>1, <2>2, ServedIdle DEF OpOk, HalfWay
  <2> QED
    BY <2>1, <2>2, <2>3, InnerStep, BookSame
<1>8. ASSUME NEW w \in Workers, Respond(w)
      PROVE  Serves(w) /\ [Book!Request(w)]_(Book!vars)
  <2>1. /\ worker' = [worker EXCEPT ![w] = Rest] /\ UNCHANGED <<order_id_counter, orders>>
        /\ worker[w].pc = "answer" /\ worker[w].op # "none"
    BY <1>8 DEF Respond, At, OpsKept, OpOk
  <2>2. Rest.pc = "idle"
    BY DEF Rest
  <2>3. Serves(w)
    BY <2>1, <2>2, BookSame DEF OpOk, HalfWay, Serves
  <2>4. Served(worker[w]) # Book!Nothing /\ Served(Rest) = Book!Nothing
    BY <2>1, <2>2 DEF Served, Nothing, Book!Nothing
  <2>5. [v \in Workers |-> Served(worker'[v])]
          = [[v \in Workers |-> Served(worker[v])] EXCEPT ![w] = Served(Rest)]
    BY <2>1, OwedFrame
  <2>6. Book!Receive(w) /\ InfNow' = InfNow
    BY <2>1, <2>4, <2>5, BookSame DEF Book!Receive, BookNow
  <2> QED
    BY <2>3, <2>6 DEF Book!Request, InfNow
<1> QED
  BY <1>5, <1>6, <1>7, <1>8 DEF Next

\* What a step of a create does to the thread.
LEMMA CreateMoves ==
  ASSUME TypeInv, OpsKept, NEW w \in Workers, CreateStore(w)
  PROVE  \E r \in Requests :
           /\ worker' = [worker EXCEPT ![w] = r]
           /\ r.pc = "closing" /\ r.op = "create" /\ r.id = worker[w].id
           /\ r.verdict = "ok"
<1> DEFINE r == [worker[w] EXCEPT !.pc = "closing"]
<1>1. r \in Requests /\ worker' = [worker EXCEPT ![w] = r]
  BY MoveType DEF CreateStore
<1>2. /\ r.pc = "closing" /\ r.op = worker[w].op /\ r.id = worker[w].id
      /\ r.verdict = worker[w].verdict
  BY DEF TypeInv, TypeOK, Requests
<1>3. worker[w].op = "create" /\ worker[w].verdict = "ok"
  BY DEF CreateStore, At, OpsKept, OpOk
<1> HIDE DEF r
<1> QED
  BY <1>1, <1>2, <1>3

LEMMA CreateBegins ==
  ASSUME NEW w \in Workers, CreateRead(w)
  PROVE  \E r :
           /\ worker' = [worker EXCEPT ![w] = r]
           /\ r.pc = "priced" /\ r.op = "create" /\ r.id = order_id_counter
           /\ r.known = DOMAIN orders /\ r.verdict = "ok"
<1> DEFINE r == [Rest EXCEPT !.pc = "priced", !.op = "create",
                             !.id = order_id_counter, !.known = DOMAIN orders]
<1>1. /\ r.pc = "priced" /\ r.op = "create" /\ r.id = order_id_counter
      /\ r.known = DOMAIN orders /\ r.verdict = "ok"
  BY DEF Rest
<1>2. worker' = [worker EXCEPT ![w] = r]
  BY DEF CreateRead
<1> HIDE DEF r
<1> QED
  BY <1>1, <1>2

\* A create that fails: the book refuses it.
LEMMA CreateGivesUp ==
  ASSUME TypeInv, NEW w \in Workers, CreateFails(w)
  PROVE  /\ Book!Refuse(w, "create", "failed") /\ Book!Request(w)
         /\ \E r : /\ worker' = [worker EXCEPT ![w] = r]
                   /\ r.pc = "answer" /\ r.op = "create"
<1>1. PICK r : r = Returned("create", 0, "failed")
  OBVIOUS
<1>2. r.pc = "answer" /\ r.op = "create" /\ r.id = 0 /\ r.verdict = "failed"
  BY <1>1 DEF Returned, Rest
<1>3. /\ worker' = [worker EXCEPT ![w] = r] /\ worker[w].pc = "priced"
      /\ UNCHANGED <<order_id_counter, orders>>
  BY <1>1 DEF CreateFails, At
<1>4. Served(worker[w]) = Nothing /\ Served(r) = Told("create", 0, "failed")
  BY <1>2, <1>3, ServedBusy, ServedIdle
<1>5. Book!Answer(w, "create", 0, "failed")
  BY <1>3, <1>4, OwedAnswer
<1>6. Book!Refuse(w, "create", "failed") /\ InfNow' = InfNow
  BY <1>3, <1>5, BookSame DEF Book!Refuse
<1> QED
  BY <1>2, <1>3, <1>6 DEF Book!Request, InfNow

LEMMA BookGrows ==
  ASSUME NEW id, Insert(id)
  PROVE  /\ DOMAIN orders' = DOMAIN orders \cup {id}
         /\ \A i \in DOMAIN orders \ {id} : orders'[i] = orders[i]
         /\ BookNow' = [i \in DOMAIN orders \cup {id} |->
                         IF i = id THEN "pending" ELSE BookNow[i]]
         /\ InfNow' \in {InfNow \ {id}, InfNow \cup {id}}
<1>1. PICK o : /\ o.status = "pending" /\ o.infinite \in BOOLEAN
               /\ orders' = [i \in DOMAIN orders \cup {id} |-> IF i = id THEN o ELSE orders[i]]
  <2>1. PICK inf \in BOOLEAN :
          orders' = [i \in DOMAIN orders \cup {id} |->
                       IF i = id THEN [Order("pending") EXCEPT !.infinite = inf]
                       ELSE orders[i]]
    BY DEF Insert
  <2>2. PICK o : o = [Order("pending") EXCEPT !.infinite = inf]
    OBVIOUS
  <2>3. o.status = "pending" /\ o.infinite = inf
    BY <2>2 DEF Order
  <2> QED
    BY <2>1, <2>2, <2>3
<1>2. /\ DOMAIN orders' = DOMAIN orders \cup {id}
      /\ \A i \in DOMAIN orders' : orders'[i] = IF i = id THEN o ELSE orders[i]
  BY <1>1
<1>3. BookNow' = [i \in DOMAIN orders \cup {id} |->
                    IF i = id THEN "pending" ELSE BookNow[i]]
  BY <1>1, <1>2 DEF BookNow
<1>4. CASE o.infinite
  <2>1. InfNow' = InfNow \cup {id}
    BY <1>2, <1>4 DEF InfNow
  <2> QED
    BY <1>2, <1>3, <2>1
<1>5. CASE ~o.infinite
  <2>1. InfNow' = InfNow \ {id}
    BY <1>2, <1>5 DEF InfNow
  <2> QED
    BY <1>2, <1>3, <2>1
<1> QED
  BY <1>4, <1>5

-----------------------------------------------------------------------------
(***************************************************************************)
(* The invariant adds to the allocation of ids that the id a create has    *)
(* read is one of the book's, and that the log line of ship_order finds    *)
(* its tracking number as long as no order is lost.                        *)
(***************************************************************************)
PricedInRange == \A w \in Workers : At(w, "priced") => worker[w].id \in 1..MaxId

LabelHasNumber ==
  \A w \in Workers : At(w, "label") => orders[worker[w].id].tracking

CrowdInv ==
  /\ TypeInv /\ AllocInv /\ order_id_counter > 0 /\ OpsKept /\ PricedInRange
  /\ Complete => LabelHasNumber

LEMMA CrowdInvInit == Init => CrowdInv
<1> SUFFICES ASSUME Init PROVE CrowdInv
  OBVIOUS
<1>1. \A w \in Workers : worker[w].pc = "idle"
  BY DEF Init, Rest
<1> QED
  BY <1>1, InitType, AllocInit
  DEF Init, CrowdInv, OpsKept, OpOk, HalfWay, PricedInRange, LabelHasNumber, At

\* An order is lost when a create is stored under another id than the next one,
\* and from then on one is missing.
LEMMA CompleteStore ==
  ASSUME CrowdInv, NEW w \in Workers, CreateStore(w), Complete'
  PROVE  /\ Complete /\ worker[w].id = order_id_counter
         /\ worker[w].id \notin DOMAIN orders
<1> DEFINE n == order_id_counter
           id == worker[w].id
<1>1. /\ n \in Nat /\ n > 0 /\ order_id_counter' = n + 1
      /\ \A i \in DOMAIN orders : i \in Nat /\ i < n
  BY DEF CreateStore, CrowdInv, TypeInv, TypeOK, AllocInv, IdsBelow
<1>2. DOMAIN orders' = DOMAIN orders \cup {id}
  BY BookGrows DEF CreateStore
<1>3. DOMAIN orders \cup {id} = 1..n
  <2>1. (n + 1) - 1 = n
    BY <1>1
  <2> QED
    BY <1>1, <1>2, <2>1 DEF Complete
<1>4. id = n
  BY <1>1, <1>3
<1>5. n \notin DOMAIN orders
  BY <1>1
<1>6. DOMAIN orders = (1..n) \ {n}
  BY <1>3, <1>4, <1>5
<1>7. (1..n) \ {n} = 1..n - 1
  BY <1>1
<1> QED
  BY <1>1, <1>4, <1>5, <1>6, <1>7 DEF Complete

\* The label steps of the other threads after a step of thread w.
LEMMA LabelFrame ==
  ASSUME CrowdInv, NEW w \in Workers, NEW r, worker' = [worker EXCEPT ![w] = r],
         r.pc = "label" => orders'[r.id].tracking,
         Complete' => /\ Complete
                      /\ \A i \in DOMAIN orders : orders[i].tracking => orders'[i].tracking
  PROVE  (Complete => LabelHasNumber)'
<1> SUFFICES ASSUME Complete', NEW v \in Workers, worker'[v].pc = "label"
             PROVE  orders'[worker'[v].id].tracking
  BY DEF LabelHasNumber, At
<1>1. worker'[v] = IF v = w THEN r ELSE worker[v]
  BY DEF CrowdInv, TypeInv, TypeOK
<1>2. CASE v = w
  BY <1>1, <1>2
<1>3. CASE v # w
  <2>1. worker'[v] = worker[v]
    BY <1>1, <1>3
  <2>2. worker[v].id \in DOMAIN orders /\ orders[worker[v].id].tracking
    BY <2>1 DEF CrowdInv, TypeInv, TypeOK, LabelHasNumber, At, Stored
  <2> QED
    BY <2>1, <2>2
<1> QED
  BY <1>2, <1>3

\* The two abstract books agree on what a request may do.
LEMMA RequestIsCalm ==
  /\ \A w : Book!Request(w) => Crowd!Request(w)
  /\ UNCHANGED Book!vars <=> UNCHANGED Crowd!vars
  /\ \A w, op, id, verdict : Book!Answer(w, op, id, verdict) => Crowd!Answer(w, op, id, verdict)
  /\ \A w, op, verdict : Book!Refuse(w, op, verdict) => Crowd!Refuse(w, op, verdict)
  /\ \A w : Book!Err(w) => Crowd!Err(w)
BY Zenon
DEF Book!Request, Book!Put, Book!Cancel, Book!Advance, Book!Write, Book!Refuse,
    Book!Answer, Book!Read, Book!Receive, Book!Valid, Book!Moves, Book!Nothing,
    Book!Before, Book!After, Book!vars, Book!Err,
    Crowd!Request, Crowd!Put, Crowd!Cancel, Crowd!Advance, Crowd!Write, Crowd!Refuse,
    Crowd!Answer, Crowd!Read, Crowd!Receive, Crowd!Valid, Crowd!Moves, Crowd!Nothing,
    Crowd!Before, Crowd!After, Crowd!vars, Crowd!Err

FreeNow == [v \in Workers |-> Free(worker[v])]

LEMMA FreeFrame ==
  ASSUME TypeInv, NEW w \in Workers, NEW r, worker' = [worker EXCEPT ![w] = r]
  PROVE  FreeNow' = [FreeNow EXCEPT ![w] = Free(r)]
<1>1. \A v \in Workers : worker'[v] = IF v = w THEN r ELSE worker[v]
  BY DEF TypeInv, TypeOK
<1>2. \A v \in Workers : Free(worker'[v]) = IF v = w THEN Free(r) ELSE Free(worker[v])
  BY <1>1
<1> QED
  BY <1>2 DEF FreeNow

LEMMA CalmStep ==
  ASSUME TypeInv, NEW w \in Workers, Serves(w), [Book!Request(w)]_(Book!vars)
  PROVE  [Crowd!CrowdedNext]_(Crowd!crowd)
<1>1. PICK r : /\ worker' = [worker EXCEPT ![w] = r] /\ worker[w].pc # "priced" /\ r.pc # "priced"
               /\ UNCHANGED order_id_counter
  BY DEF Serves
<1>2. FreeNow[w] = {} /\ FreeNow' = FreeNow
  <2>1. Free(worker[w]) = {} /\ Free(r) = {}
    BY <1>1 DEF Free
  <2>2. FreeNow' = [FreeNow EXCEPT ![w] = Free(r)]
    BY <1>1, FreeFrame
  <2> QED
    BY <2>1, <2>2 DEF FreeNow
<1>3. CASE UNCHANGED Book!vars
  BY <1>1, <1>2, <1>3, RequestIsCalm DEF Crowd!crowd, FreeNow
<1>4. CASE Book!Request(w)
  <2>1. Crowd!Calm(w)
    BY <1>1, <1>2, <1>4, RequestIsCalm DEF Crowd!Calm, FreeNow
  <2> QED
    BY <2>1 DEF Crowd!CrowdedNext
<1> QED
  BY <1>3, <1>4

LEMMA CrowdFrame ==
  ASSUME CrowdInv, TypeInv', AllocInv', NEW w \in Workers, Serves(w)
  PROVE  CrowdInv'
<1>1. PICK r : /\ worker' = [worker EXCEPT ![w] = r] /\ r.pc # "priced" /\ OpOk(r)
               /\ r.pc = "label" => orders'[r.id].tracking
  BY DEF Serves
<1>2. worker'[w] = r /\ \A v \in Workers \ {w} : worker'[v] = worker[v]
  BY <1>1 DEF CrowdInv, TypeInv, TypeOK
<1>3. UNCHANGED order_id_counter /\ NumbersKept
  BY DEF Serves
<1>4. (Complete => LabelHasNumber)'
  <2>1. Complete' => Complete
    BY <1>3 DEF Complete, NumbersKept
  <2>2. \A i \in DOMAIN orders : orders[i].tracking => orders'[i].tracking
    BY <1>3 DEF NumbersKept
  <2> QED
    BY <1>1, <2>1, <2>2, LabelFrame
<1> QED
  BY <1>1, <1>2, <1>3, <1>4 DEF CrowdInv, OpsKept, PricedInRange, At

LEMMA BeginStep ==
  ASSUME CrowdInv, TypeInv', AllocInv', NEW w \in Workers, CreateRead(w)
  PROVE  CrowdInv' /\ Crowd!Begin(w) /\ UNCHANGED Book!vars
<1>1. PICK r : /\ worker' = [worker EXCEPT ![w] = r]
               /\ r.pc = "priced" /\ r.op = "create" /\ r.id = order_id_counter
               /\ r.known = DOMAIN orders /\ r.verdict = "ok"
  BY CreateBegins
<1>2. /\ UNCHANGED <<order_id_counter, orders>> /\ worker[w].pc = "idle"
      /\ order_id_counter \in 1..MaxId
  BY IdsAssumption DEF CreateRead, At, CrowdInv, TypeInv, TypeOK
<1>3. worker'[w] = r /\ \A v \in Workers \ {w} : worker'[v] = worker[v]
  BY <1>1 DEF CrowdInv, TypeInv, TypeOK
<1>4. (Complete => LabelHasNumber)'
  BY <1>1, <1>2, LabelFrame DEF Complete
<1>5. OpsKept' /\ PricedInRange'
  BY <1>1, <1>2, <1>3 DEF CrowdInv, OpsKept, OpOk, HalfWay, PricedInRange, At
<1>6. CrowdInv'
  BY <1>2, <1>4, <1>5 DEF CrowdInv
<1>7. Served(worker[w]) = Nothing /\ Served(r) = Nothing
  BY <1>1, <1>2, ServedIdle
<1>8. UNCHANGED Book!vars
  BY <1>1, <1>2, <1>7, OwedSame, BookSame DEF CrowdInv, Book!vars, BookNow, InfNow
<1>9. Free(worker[w]) = {} /\ Free(r) = (1..MaxId) \ DOMAIN orders
  BY <1>1, <1>2 DEF Free
<1>10. FreeNow' = [FreeNow EXCEPT ![w] = (1..MaxId) \ DOMAIN BookNow]
  BY <1>1, <1>9, FreeFrame DEF CrowdInv, BookNow
<1>11. Served(worker[w]) = Crowd!Nothing /\ UNCHANGED Crowd!vars
  BY <1>7, <1>8, RequestIsCalm DEF Nothing, Crowd!Nothing
<1> QED
  BY <1>2, <1>6, <1>8, <1>9, <1>10, <1>11 DEF Crowd!Begin, FreeNow, BookNow

LEMMA AbandonStep ==
  ASSUME CrowdInv, TypeInv', AllocInv', NEW w \in Workers, CreateFails(w)
  PROVE  CrowdInv' /\ Crowd!Abandon(w) /\ Book!Request(w)
<1>1. PICK r : worker' = [worker EXCEPT ![w] = r] /\ r.pc = "answer" /\ r.op = "create"
  BY CreateGivesUp DEF CrowdInv
<1>2. UNCHANGED <<order_id_counter, orders>> /\ At(w, "priced")
  BY DEF CreateFails
<1>3. worker'[w] = r /\ \A v \in Workers \ {w} : worker'[v] = worker[v]
  BY <1>1 DEF CrowdInv, TypeInv, TypeOK
<1>4. (Complete => LabelHasNumber)'
  BY <1>1, <1>2, LabelFrame DEF Complete
<1>5. CrowdInv'
  <2>1. OpsKept' /\ PricedInRange'
    BY <1>1, <1>3 DEF CrowdInv, OpsKept, OpOk, HalfWay, PricedInRange, At
  <2> QED
    BY <1>2, <1>4, <2>1 DEF CrowdInv
<1>6. Free(worker[w]) # {} /\ Free(r) = {}
  <2>1. worker[w].id \in 1..MaxId /\ worker[w].id \notin worker[w].known
    BY <1>2 DEF CrowdInv, PricedInRange, AllocInv, ReplacesOnlyNewer
  <2> QED
    BY <1>1, <1>2, <2>1 DEF Free, At
<1>7. FreeNow[w] # {} /\ FreeNow' = [FreeNow EXCEPT ![w] = {}]
  BY <1>1, <1>6, FreeFrame DEF CrowdInv, FreeNow
<1>8. Crowd!Refuse(w, "create", "failed") /\ Book!Request(w)
  BY CreateGivesUp, RequestIsCalm DEF CrowdInv
<1>9. InfNow' = InfNow
  BY <1>2, BookSame
<1> QED
  BY <1>2, <1>5, <1>7, <1>8, <1>9 DEF Crowd!Abandon, FreeNow, InfNow

LEMMA PlaceStep ==
  ASSUME CrowdInv, TypeInv', AllocInv', NEW w \in Workers, CreateStore(w)
  PROVE  /\ CrowdInv' /\ \E id \in 1..MaxId : Crowd!PlaceOver(w, id)
         /\ Complete' => Book!Next
<1>1. PICK r : /\ worker' = [worker EXCEPT ![w] = r] /\ r.pc = "closing" /\ r.op = "create"
               /\ r.id = worker[w].id /\ r.verdict = "ok"
  BY CreateMoves DEF CrowdInv
<1>2. PICK id \in 1..MaxId : id = worker[w].id /\ id \notin worker[w].known
  BY DEF CreateStore, CrowdInv, PricedInRange, AllocInv, ReplacesOnlyNewer, At
<1>3. /\ worker[w].pc = "priced"
      /\ Insert(id) /\ order_id_counter' = order_id_counter + 1
  BY <1>2 DEF CreateStore, At
<1>4. worker'[w] = r /\ \A v \in Workers \ {w} : worker'[v] = worker[v]
  BY <1>1 DEF CrowdInv, TypeInv, TypeOK
<1>5. CrowdInv'
  <2>1. OpsKept' /\ PricedInRange'
    BY <1>1, <1>4 DEF CrowdInv, OpsKept, OpOk, HalfWay, PricedInRange, At
  <2>2. order_id_counter' > 0
    BY <1>3 DEF CrowdInv, TypeInv, TypeOK
  <2>3. Complete' => /\ Complete
                     /\ \A i \in DOMAIN orders : orders[i].tracking => orders'[i].tracking
    <3> SUFFICES ASSUME Complete' PROVE /\ Complete
                                        /\ \A i \in DOMAIN orders :
                                             orders[i].tracking => orders'[i].tracking
      OBVIOUS
    <3>1. Complete /\ id \notin DOMAIN orders
      BY <1>2, CompleteStore
    <3>2. \A i \in DOMAIN orders \ {id} : orders'[i] = orders[i]
      BY <1>3, BookGrows
    <3> QED
      BY <3>1, <3>2
  <2>4. (Complete => LabelHasNumber)'
    BY <1>1, <2>3, LabelFrame
  <2> QED
    BY <2>1, <2>2, <2>4 DEF CrowdInv
<1>6. Served(worker[w]) = Nothing /\ Served(r) = Told("create", id, "ok")
  BY <1>1, <1>2, <1>3, ServedBusy, ServedIdle
<1>7. Book!Answer(w, "create", id, "ok")
  BY <1>1, <1>6, OwedAnswer DEF CrowdInv
<1>8. BookNow' = [i \in DOMAIN BookNow \cup {id} |->
                    IF i = id THEN "pending" ELSE BookNow[i]]
  BY <1>3, BookGrows DEF BookNow
<1>9. InfNow' \in {InfNow \ {id}, InfNow \cup {id}}
  BY <1>3, BookGrows
<1>10. id \in FreeNow[w] /\ FreeNow' = [FreeNow EXCEPT ![w] = {}]
  <2>1. Free(worker[w]) = (1..MaxId) \ worker[w].known /\ Free(r) = {}
    BY <1>1, <1>3 DEF Free
  <2>2. FreeNow' = [FreeNow EXCEPT ![w] = Free(r)]
    BY <1>1, FreeFrame DEF CrowdInv
  <2> QED
    BY <1>2, <2>1, <2>2 DEF FreeNow
<1>11. Crowd!PlaceOver(w, id)
  <2>1. Crowd!Answer(w, "create", id, "ok")
    BY <1>7, RequestIsCalm
  <2>2. order_id_counter' - 1 = (order_id_counter - 1) + 1
    BY <1>3 DEF CrowdInv, TypeInv, TypeOK
  <2> QED
    BY <1>8, <1>9, <1>10, <2>1, <2>2 DEF Crowd!PlaceOver, BookNow, FreeNow, InfNow
<1>12. ASSUME Complete' PROVE Book!Next
  <2>1. id \notin DOMAIN orders
    BY <1>2, <1>12, CompleteStore
  <2>2. InfNow' \in {InfNow, InfNow \cup {id}}
    <3>1. InfNow \ {id} = InfNow
      BY <2>1 DEF InfNow
    <3> QED
      BY <1>9, <3>1
  <2>3. Book!Place(w, id)
    BY <1>7, <1>8, <2>1, <2>2 DEF Book!Place, BookNow, InfNow
  <2> QED
    BY <2>3 DEF Book!Next
<1> QED
  BY <1>5, <1>11, <1>12

LEMMA FailStep ==
  ASSUME CrowdInv, NEW w \in Workers, ShipFails(w)
  PROVE  Serves(w) /\ Crowd!Fail(w) /\ ~Complete'
<1>1. /\ worker[w].pc = "label" /\ worker[w].op = "ship" /\ worker[w].verdict = "ok"
      /\ HalfWay(worker[w])
      /\ Finish(w, "failed") /\ UNCHANGED <<order_id_counter, orders>>
  BY DEF ShipFails, ShipLabel, At, CrowdInv, OpsKept, OpOk, HalfWay
<1>2. Serves(w) /\ Book!Err(w)
  BY <1>1, ErrStep DEF CrowdInv
<1>3. ~Complete
  BY <1>1 DEF ShipFails, CrowdInv, LabelHasNumber, At
<1>4. PICK r : worker' = [worker EXCEPT ![w] = r] /\ r.pc = "answer"
  BY <1>1, Returns
<1>5. FreeNow' = FreeNow
  <2>1. Free(r) = {} /\ Free(worker[w]) = {}
    BY <1>1, <1>4 DEF Free
  <2>2. FreeNow' = [FreeNow EXCEPT ![w] = Free(r)]
    BY <1>4, FreeFrame DEF CrowdInv
  <2> QED
    BY <2>1, <2>2 DEF FreeNow
<1>6. Served(worker[w]).op = "ship"
  <2>1. Served(worker[w]) = Told("ship", worker[w].id, "ok")
    BY <1>1, ServedBusy
  <2> QED
    BY <2>1 DEF Told
<1>7. Crowd!Err(w) /\ InfNow' = InfNow
  BY <1>1, <1>2, BookSame, RequestIsCalm
<1>8. Crowd!Fail(w)
  BY <1>1, <1>3, <1>5, <1>6, <1>7 DEF Crowd!Fail, Complete, FreeNow, InfNow, BookNow
<1> QED
  BY <1>1, <1>2, <1>3, <1>8 DEF Complete

LEMMA CrowdNext ==
  ASSUME CrowdInv, [Next]_vars
  PROVE  /\ CrowdInv' /\ [Crowd!CrowdedNext]_(Crowd!crowd)
         /\ [Book!Next \/ ~Complete']_(Book!vars)
<1>1. TypeInv' /\ AllocInv'
  BY TypeNext, AllocNext DEF CrowdInv
<1>2. CASE UNCHANGED vars
  <2>1. CrowdInv'
    BY <1>1, <1>2
    DEF vars, CrowdInv, OpsKept, PricedInRange, LabelHasNumber, Complete, At
  <2>2. UNCHANGED Crowd!crowd /\ UNCHANGED Book!vars
    BY <1>2, BookSame DEF vars, Crowd!crowd, Crowd!vars, Book!vars, BookNow, InfNow
  <2> QED
    BY <2>1, <2>2
<1>3. ASSUME NEW w \in Workers, CreateRead(w)
      PROVE  /\ CrowdInv' /\ [Crowd!CrowdedNext]_(Crowd!crowd)
             /\ [Book!Next \/ ~Complete']_(Book!vars)
  BY <1>1, <1>3, BeginStep DEF Crowd!CrowdedNext
<1>4. ASSUME NEW w \in Workers, CreateStore(w)
      PROVE  /\ CrowdInv' /\ [Crowd!CrowdedNext]_(Crowd!crowd)
             /\ [Book!Next \/ ~Complete']_(Book!vars)
  BY <1>1, <1>4, PlaceStep DEF Crowd!CrowdedNext
<1>5. ASSUME NEW w \in Workers, ShipFails(w)
      PROVE  /\ CrowdInv' /\ [Crowd!CrowdedNext]_(Crowd!crowd)
             /\ [Book!Next \/ ~Complete']_(Book!vars)
  BY <1>1, <1>5, FailStep, CrowdFrame DEF Crowd!CrowdedNext
<1>6. ASSUME NEW w \in Workers, Serves(w), [Book!Request(w)]_(Book!vars)
      PROVE  /\ CrowdInv' /\ [Crowd!CrowdedNext]_(Crowd!crowd)
             /\ [Book!Next \/ ~Complete']_(Book!vars)
  BY <1>1, <1>6, CalmStep, CrowdFrame DEF CrowdInv, Book!Next
<1>7. ASSUME NEW w \in Workers, CreateFails(w)
      PROVE  /\ CrowdInv' /\ [Crowd!CrowdedNext]_(Crowd!crowd)
             /\ [Book!Next \/ ~Complete']_(Book!vars)
  BY <1>1, <1>7, AbandonStep DEF Crowd!CrowdedNext, Book!Next
<1> QED
  BY <1>2, <1>3, <1>4, <1>5, <1>6, <1>7, StepServes DEF CrowdInv

LEMMA BooksInit == Init => Crowd!CrowdedInit /\ Book!Init
<1> SUFFICES ASSUME Init PROVE Crowd!CrowdedInit /\ Book!Init
  OBVIOUS
<1>1. \A w \in Workers : worker[w].pc = "idle"
  BY DEF Init, Rest
<1>2. \A w \in Workers : /\ Served(worker[w]) = Crowd!Nothing
                         /\ Served(worker[w]) = Book!Nothing
                         /\ Free(worker[w]) = {}
  BY <1>1 DEF Served, Free, Nothing, Crowd!Nothing, Book!Nothing
<1>3. \A id \in DOMAIN Samples : ~Samples[id].infinite
  BY DEF Samples, Order
<1>4. InfNow = {}
  BY <1>3 DEF Init, InfNow
<1>5. order_id_counter - 1 = 3
  BY DEF Init
<1> QED
  BY <1>2, <1>4, <1>5 DEF Init, InfNow, Crowd!CrowdedInit, Crowd!Init, Book!Init

(***************************************************************************)
(* However many creates of the order service overlap: a create is stored   *)
(* under an id that was free when it began, so that what it may cost is an *)
(* order placed meanwhile; every other request is atomic, and its answer   *)
(* says what it did, but for a ship once an order was replaced, and for an *)
(* order whose numbers cannot be written.                                  *)
(***************************************************************************)
THEOREM ServiceIsCrowdedBook == Spec => IsCrowdedBook
<1>1. CrowdInv /\ [Next]_vars => CrowdInv' /\ [Crowd!CrowdedNext]_(Crowd!crowd)
  BY CrowdNext
<1> QED
  BY <1>1, BooksInit, CrowdInvInit, PTL DEF Spec, IsCrowdedBook, Crowd!CrowdedSpec

\* Whatever threads create: until a create replaces an order, the service is an
\* order book, where every request takes effect at once, its answer says what
\* the effect was, and no id is used twice.
THEOREM ServiceIsOrderBook == Spec => IsOrderBook
<1>1. CrowdInv /\ [Next]_vars => CrowdInv' /\ [Book!Next \/ ~Complete']_(Book!vars)
  BY CrowdNext
<1> QED
  BY <1>1, BooksInit, CrowdInvInit, PTL DEF Spec, IsOrderBook

-----------------------------------------------------------------------------
(***************************************************************************)
(* The counts of an iteration: it never counts more orders than there were *)
(* when it began, and orders_db is never empty.                            *)
(***************************************************************************)
CountOK(r) ==
  /\ r.pc = "scan" => 1 <= r.seen /\ r.seen <= r.size
  /\ r.pc = "answer" /\ r.op = "read" => r.seen \in {0, r.size}

CountInv == 1 \in DOMAIN orders /\ \A w \in Workers : CountOK(worker[w])

LEMMA CountFrame ==
  ASSUME TypeInv, CountInv, NEW w \in Workers, NEW r, CountOK(r),
         worker' = [worker EXCEPT ![w] = r], 1 \in DOMAIN orders'
  PROVE  CountInv'
BY DEF TypeInv, TypeOK, CountInv

LEMMA ReturnedCounts ==
  ASSUME NEW op, NEW id, NEW verdict PROVE CountOK(Returned(op, id, verdict))
BY DEF Returned, Rest, CountOK

LEMMA StartedCounts ==
  ASSUME NEW pc \in PCs \ {"scan", "answer"}, NEW op, NEW id PROVE CountOK(Started(pc, op, id))
BY DEF Started, Rest, CountOK

LEMMA MovedCounts ==
  ASSUME TypeInv, NEW w \in Workers, NEW pc \in PCs \ {"scan", "answer"}
  PROVE  CountOK([worker[w] EXCEPT !.pc = pc])
<1>1. worker[w] \in Requests
  BY DEF TypeInv, TypeOK, Requests
<1> QED
  BY <1>1 DEF Requests, CountOK

LEMMA RequestCounts ==
  ASSUME TypeInv, CountInv, NEW w \in Workers, NEW id, Request(w, id) PROVE CountInv'
<1>1. ASSUME NEW pc \in PCs \ {"scan", "answer"}, NEW op, Serve(w, pc, op, id),
             DOMAIN orders' = DOMAIN orders
      PROVE  CountInv'
  BY <1>1, StartedCounts, CountFrame DEF Serve, CountInv
<1>2. ASSUME NEW op, NEW verdict, Reject(w, op, verdict) PROVE CountInv'
  BY <1>2, ReturnedCounts, CountFrame DEF Reject, CountInv
<1>3. CASE Update(w, id) \/ Cancel(w, id) \/ Confirm(w, id)
           \/ Deliver(w, id) \/ GetBegin(w, id)
  BY <1>1, <1>3 DEF Update, Cancel, Confirm, Deliver, GetBegin, SetStatus
<1>4. CASE Ship(w, id)
  BY <1>1, <1>4 DEF Ship, SetStatus
<1>5. CASE \/ UpdateInvalid(w, id) \/ \E op \in Moves : Wrong(w, op, id)
           \/ \E op \in Moves \cup {"put", "cancel"} : NotFound(w, op, id)
  BY <1>2, <1>5 DEF UpdateInvalid, Wrong, NotFound
<1> QED
  BY <1>3, <1>4, <1>5 DEF Request

LEMMA GoCounts ==
  ASSUME TypeInv, CountInv, NEW w \in Workers, Go(w) \/ ScanSpoils(w) PROVE CountInv'
<1>1. ASSUME NEW pc \in PCs \ {"scan", "answer"}, Move(w, pc), 1 \in DOMAIN orders' PROVE CountInv'
  BY <1>1, MovedCounts, CountFrame DEF Move
<1>2. ASSUME NEW verdict, Finish(w, verdict), UNCHANGED orders PROVE CountInv'
  BY <1>2, ReturnedCounts, CountFrame DEF Finish, CountInv
<1>3. CASE CreateStore(w)
  <2>1. 1 \in DOMAIN orders'
    BY <1>3 DEF CreateStore, Insert, CountInv
  <2> QED
    BY <1>1, <1>3, <2>1 DEF CreateStore
<1>4. CASE ShipDraw(w) \/ DeliverSign(w)
  <2>1. 1 \in DOMAIN orders'
    BY <1>4 DEF ShipDraw, DeliverSign, CountInv
  <2> QED
    BY <1>1, <1>4, <2>1 DEF ShipDraw, DeliverSign
<1>5. CASE ShipLabel(w) \/ GetEnd(w) \/ Close(w) \/ ScanSpoils(w)
  BY <1>1, <1>2, <1>5 DEF ShipLabel, GetEnd, Close, ScanSpoils, CountInv
<1>6. CASE ScanStep(w)
  <2>1. PICK q \in Requests : q = worker[w] /\ q.pc = "scan" /\ CountOK(q)
    BY <1>6 DEF ScanStep, At, TypeInv, TypeOK, Requests, CountInv
  <2>2. UNCHANGED orders /\ 1 \in DOMAIN orders' /\ Size \in Nat
    BY <1>6, SizeType DEF ScanStep, CountInv
  <2>3. CASE Finish(w, "failed")
    BY <1>2, <2>2, <2>3
  <2>4. CASE q.seen < q.size /\ worker' = [worker EXCEPT ![w].seen = @ + 1]
    <3>1. PICK r : r = [q EXCEPT !.seen = q.seen + 1]
      OBVIOUS
    <3>2. worker' = [worker EXCEPT ![w] = r]
      BY <2>1, <2>4, <3>1
    <3>3. CountOK(r)
      BY <2>1, <2>4, <3>1 DEF CountOK, Requests
    <3> QED
      BY <2>2, <3>2, <3>3, CountFrame
  <2>5. CASE ~(q.seen < q.size) /\ Size = q.size /\ Counted(w)
    <3>1. q.seen = Size /\ q.seen \in Nat
      BY <2>1, <2>5 DEF CountOK, Requests
    <3>2. PICK n \in Requests : n = Returned("read", 0, "ok") /\ n.pc = "answer"
      BY ReturnedType
    <3>3. PICK r : r = [n EXCEPT !.seen = q.seen, !.size = Size]
      OBVIOUS
    <3>4. worker' = [worker EXCEPT ![w] = r]
      BY <2>1, <2>5, <3>2, <3>3 DEF Counted
    <3>5. CountOK(r)
      BY <3>1, <3>2, <3>3 DEF CountOK, Requests
    <3> QED
      BY <2>2, <3>4, <3>5, CountFrame
  <2> QED
    BY <1>6, <2>1, <2>3, <2>4, <2>5 DEF ScanStep
<1>7. CASE CreateFails(w)
  BY <1>7, ReturnedCounts, CountFrame DEF CreateFails, CountInv
<1> QED
  BY <1>3, <1>4, <1>5, <1>6, <1>7 DEF Go

LEMMA CountNext == TypeInv /\ CountInv /\ [Next]_vars => CountInv'
<1> SUFFICES ASSUME TypeInv, CountInv, [Next]_vars PROVE CountInv'
  OBVIOUS
<1>1. CASE UNCHANGED vars
  BY <1>1 DEF vars, CountInv
<1>2. ASSUME NEW w \in Workers, CreateRead(w) PROVE CountInv'
  <2> DEFINE r == [Rest EXCEPT !.pc = "priced", !.op = "create",
                               !.id = order_id_counter, !.known = DOMAIN orders]
  <2>1. CountOK(r) /\ worker' = [worker EXCEPT ![w] = r] /\ 1 \in DOMAIN orders'
    BY <1>2 DEF CreateRead, Rest, CountOK, CountInv
  <2> HIDE DEF r
  <2> QED
    BY <2>1, CountFrame
<1>3. ASSUME NEW w \in Workers, ScanBegin(w) PROVE CountInv'
  <2>1. Size \in Nat /\ Size # 0
    BY SizeType, FS_EmptySet DEF TypeInv, OrdersFinite, CountInv, Size
  <2> DEFINE r == [Rest EXCEPT !.pc = "scan", !.op = "read", !.seen = 1, !.size = Size]
  <2>2. CountOK(r) /\ worker' = [worker EXCEPT ![w] = r] /\ 1 \in DOMAIN orders'
    BY <1>3, <2>1 DEF ScanBegin, Rest, CountOK, CountInv
  <2> HIDE DEF r
  <2> QED
    BY <2>2, CountFrame
<1>4. ASSUME NEW w \in Workers, Respond(w) PROVE CountInv'
  <2>1. CountOK(Rest) /\ 1 \in DOMAIN orders'
    BY <1>4 DEF Respond, Rest, CountOK, CountInv
  <2> QED
    BY <1>4, <2>1, CountFrame DEF Respond
<1> QED
  BY <1>1, <1>2, <1>3, <1>4, RequestCounts, GoCounts DEF Next

(***************************************************************************)
(* health() and get_stats() of the order service answer with numbers that  *)
(* agree, or fail: no create that falls into the iteration shows in one of *)
(* them and not in the other.                                              *)
(***************************************************************************)
THEOREM CountsAgree == Spec => []CountsAddUp
<1>1. Init => CountInv
  BY SamplesType DEF Init, Rest, CountOK, CountInv
<1>2. CountInv => CountsAddUp
  BY DEF CountInv, CountOK, CountsAddUp, At
<1> QED
  BY <1>1, <1>2, InitType, TypeNext, CountNext, PTL DEF Spec

-----------------------------------------------------------------------------
(***************************************************************************)
(* The marks that shipping and delivery leave: MarksFollow is inductive.   *)
(***************************************************************************)
Marked(id, o) ==
  /\ o.status \in {"shipped", "delivered"} => o.tracking \/ Busy("draw", id)
  /\ o.status = "delivered" => o.delivered_at \/ Busy("sign", id)

LEMMA MarksAre == MarksFollow <=> \A id \in DOMAIN orders \ forced : Marked(id, orders[id])
BY DEF MarksFollow, Marked

\* Thread w gets the request record r; only for id may it have been busy.
LEMMA BusyFrame ==
  ASSUME TypeInv, NEW w \in Workers, NEW r, worker' = [worker EXCEPT ![w] = r],
         NEW pc, NEW id, Busy(pc, id), worker[w].pc # pc \/ worker[w].id # id
  PROVE  Busy(pc, id)'
<1>1. PICK v \in Workers : worker[v].pc = pc /\ worker[v].id = id
  BY DEF Busy, At
<1>2. v # w /\ worker'[v] = worker[v]
  BY <1>1 DEF TypeInv, TypeOK
<1> QED
  BY <1>1, <1>2 DEF Busy, At

LEMMA BusyNow ==
  ASSUME TypeInv, NEW w \in Workers, NEW r, worker' = [worker EXCEPT ![w] = r]
  PROVE  Busy(r.pc, r.id)'
BY DEF TypeInv, TypeOK, Busy, At

\* A step that changes no order.
LEMMA MarksRead ==
  ASSUME TypeInv, MarksFollow, NEW w \in Workers, NEW r, worker' = [worker EXCEPT ![w] = r],
         worker[w].pc \notin {"draw", "sign"}, UNCHANGED <<orders, forced>>
  PROVE  MarksFollow'
BY MarksAre, BusyFrame DEF MarksFollow

\* A step that writes the order o under id, and no other.
LEMMA MarksWrite ==
  ASSUME TypeInv, MarksFollow, NEW w \in Workers, NEW r, worker' = [worker EXCEPT ![w] = r],
         NEW id, NEW o, DOMAIN orders' = DOMAIN orders \cup {id},
         \A i \in DOMAIN orders' : orders'[i] = IF i = id THEN o ELSE orders[i],
         worker[w].pc \in {"draw", "sign"} => worker[w].id = id,
         forced \ {id} \subseteq forced',
         id \notin forced' =>
           /\ o.status \in {"shipped", "delivered"} => o.tracking \/ Busy("draw", id)'
           /\ o.status = "delivered" => o.delivered_at \/ Busy("sign", id)'
  PROVE  MarksFollow'
<1> SUFFICES ASSUME NEW i \in DOMAIN orders' \ forced'
             PROVE  /\ orders'[i].status \in {"shipped", "delivered"} =>
                         orders'[i].tracking \/ Busy("draw", i)'
                    /\ orders'[i].status = "delivered" =>
                         orders'[i].delivered_at \/ Busy("sign", i)'
  BY DEF MarksFollow
<1>1. CASE i = id
  BY <1>1
<1>2. CASE i # id
  <2>1. i \in DOMAIN orders \ forced /\ orders'[i] = orders[i]
    BY <1>2
  <2>2. Marked(i, orders[i])
    BY <2>1, MarksAre
  <2>3. Busy("draw", i) => Busy("draw", i)'
    BY <1>2, BusyFrame
  <2>4. Busy("sign", i) => Busy("sign", i)'
    BY <1>2, BusyFrame
  <2> QED
    BY <2>1, <2>2, <2>3, <2>4 DEF Marked
<1> QED
  BY <1>1, <1>2

LEMMA RequestMarks ==
  ASSUME TypeInv, MarksFollow, NEW w \in Workers, NEW id, Request(w, id) PROVE MarksFollow'
<1>1. ASSUME NEW r, worker' = [worker EXCEPT ![w] = r], At(w, "idle"), UNCHANGED <<orders, forced>>
      PROVE  MarksFollow'
  BY <1>1, MarksRead DEF At
<1>2. ASSUME NEW op, NEW verdict, Reject(w, op, verdict) PROVE MarksFollow'
  BY <1>1, <1>2 DEF Reject
\* The handler that stores o and goes on at pc.
<1>3. ASSUME NEW pc \in PCs, NEW op, Serve(w, pc, op, id), Stored(id),
             NEW o, orders' = [orders EXCEPT ![id] = o], forced \ {id} \subseteq forced',
             id \notin forced' =>
               /\ o.status \in {"shipped", "delivered"} => o.tracking \/ Busy("draw", id)'
               /\ o.status = "delivered" => o.delivered_at \/ Busy("sign", id)'
      PROVE  MarksFollow'
  <2>1. PICK r : r = Started(pc, op, id)
    OBVIOUS
  <2>2. worker' = [worker EXCEPT ![w] = r] /\ worker[w].pc = "idle"
    BY <1>3, <2>1 DEF Serve, At
  <2>3. DOMAIN orders' = DOMAIN orders \cup {id}
        /\ \A i \in DOMAIN orders' : orders'[i] = IF i = id THEN o ELSE orders[i]
    BY <1>3 DEF Stored, TypeInv, TypeOK
  <2> QED
    BY <1>3, <2>2, <2>3, MarksWrite
<1>4. ASSUME NEW s, SetStatus(id, s), Stored(id)
      PROVE  \E o : /\ orders' = [orders EXCEPT ![id] = o]
                    /\ o.status = s /\ o.tracking = orders[id].tracking
                    /\ o.delivered_at = orders[id].delivered_at
  <2>1. orders[id] \in Orders
    BY <1>4 DEF Stored, TypeInv, TypeOK
  <2>2. PICK o : o = [orders[id] EXCEPT !.status = s]
    OBVIOUS
  <2>3. o.status = s /\ o.tracking = orders[id].tracking /\ o.delivered_at = orders[id].delivered_at
    BY <2>1, <2>2 DEF Orders
  <2>4. orders' = [orders EXCEPT ![id] = o]
    BY <1>4, <2>2 DEF SetStatus
  <2> QED
    BY <2>3, <2>4
<1>5. ASSUME NEW pc, NEW op, Serve(w, pc, op, id) PROVE Busy(pc, id)'
  <2>1. Started(pc, op, id).pc = pc /\ Started(pc, op, id).id = id
    BY DEF Started, Rest
  <2> QED
    BY <1>5, <2>1, BusyNow DEF Serve
<1>6. CASE Update(w, id)
  <2>1. CASE UNCHANGED <<orders, forced>>
    BY <1>1, <1>6, <2>1 DEF Update, Serve
  <2>2. CASE \E s \in VALID_STATUSES : SetStatus(id, s) /\ forced' = forced \cup {id}
    <3>1. PICK s : SetStatus(id, s) /\ forced' = forced \cup {id}
      BY <2>2
    <3>2. Stored(id) /\ Serve(w, "closing", "put", id)
      BY <1>6 DEF Update
    <3>3. PICK o : orders' = [orders EXCEPT ![id] = o]
      BY <1>4, <3>1, <3>2
    <3> QED
      BY <1>3, <3>1, <3>2, <3>3
  <2> QED
    BY <1>6, <2>1, <2>2 DEF Update
<1>7. CASE Cancel(w, id) \/ Confirm(w, id)
  <2>1. PICK s \in {"cancelled", "confirmed"}, op \in Ops :
          SetStatus(id, s) /\ Serve(w, "closing", op, id) /\ Stored(id) /\ UNCHANGED forced
    BY <1>7 DEF Cancel, Confirm, HasStatus
  <2>2. PICK o : orders' = [orders EXCEPT ![id] = o] /\ o.status = s
    BY <1>4, <2>1
  <2> QED
    BY <1>3, <2>1, <2>2
<1>8. CASE Ship(w, id)
  <2>1. Stored(id) /\ orders[id] \in Orders /\ UNCHANGED forced
    BY <1>8 DEF Ship, HasStatus, Stored, TypeInv, TypeOK
  <2>2. CASE Serve(w, "draw", "ship", id) /\ SetStatus(id, "shipped")
    <3>1. PICK o : orders' = [orders EXCEPT ![id] = o] /\ o.status = "shipped"
      BY <1>4, <2>1, <2>2
    <3>2. Busy("draw", id)'
      BY <1>5, <2>2
    <3> QED
      BY <1>3, <2>1, <2>2, <3>1, <3>2
  <2>3. CASE /\ Serve(w, "label", "ship", id)
             /\ orders' = [orders EXCEPT ![id] =
                             Tracked([orders[id] EXCEPT !.status = "shipped"])]
    <3>1. PICK o : o = Tracked([orders[id] EXCEPT !.status = "shipped"])
      OBVIOUS
    <3>2. o.status = "shipped" /\ o.tracking = TRUE
      BY <2>1, <3>1 DEF Tracked, Orders
    <3> QED
      BY <1>3, <2>1, <2>3, <3>1, <3>2
  <2> QED
    BY <1>8, <2>2, <2>3 DEF Ship
<1>9. CASE Deliver(w, id)
  <2>1. /\ Stored(id) /\ orders[id].status = "shipped" /\ UNCHANGED forced
        /\ Serve(w, "sign", "deliver", id) /\ SetStatus(id, "delivered")
    BY <1>9 DEF Deliver, HasStatus
  <2>2. PICK o : orders' = [orders EXCEPT ![id] = o] /\ o.tracking = orders[id].tracking
    BY <1>4, <2>1
  <2>3. Busy("sign", id)'
    BY <1>5, <2>1
  <2>4. id \notin forced => orders[id].tracking \/ Busy("draw", id)
    BY <2>1, MarksAre DEF Marked, Stored
  <2>5. Busy("draw", id) => Busy("draw", id)'
    BY <2>1, BusyFrame DEF Serve, At
  <2> QED
    BY <1>3, <2>1, <2>2, <2>3, <2>4, <2>5
<1>10. CASE GetBegin(w, id)
  BY <1>1, <1>10 DEF GetBegin, Serve
<1>11. CASE \/ UpdateInvalid(w, id) \/ \E op \in Moves : Wrong(w, op, id)
            \/ \E op \in Moves \cup {"put", "cancel"} : NotFound(w, op, id)
  BY <1>2, <1>11 DEF UpdateInvalid, Wrong, NotFound
<1> QED
  BY <1>6, <1>7, <1>8, <1>9, <1>10, <1>11 DEF Request

LEMMA GoMarks ==
  ASSUME TypeInv, MarksFollow, NEW w \in Workers, Go(w) PROVE MarksFollow'
<1>1. PICK q \in Requests : q = worker[w]
  BY DEF TypeInv, TypeOK, Requests
<1>2. ASSUME NEW r, worker' = [worker EXCEPT ![w] = r], q.pc \notin {"draw", "sign"},
             UNCHANGED <<orders, forced>>
      PROVE  MarksFollow'
  BY <1>1, <1>2, MarksRead
<1>3. CASE CreateStore(w)
  <2>1. PICK o : /\ o.status = "pending"
                 /\ orders' = [i \in DOMAIN orders \cup {q.id} |-> IF i = q.id THEN o ELSE orders[i]]
    <3>1. PICK inf \in BOOLEAN :
            orders' = [i \in DOMAIN orders \cup {q.id} |->
                         IF i = q.id THEN [Order("pending") EXCEPT !.infinite = inf]
                         ELSE orders[i]]
      BY <1>1, <1>3 DEF CreateStore, Insert
    <3>2. [Order("pending") EXCEPT !.infinite = inf].status = "pending"
      BY DEF Order
    <3> QED
      BY <3>1, <3>2
  <2>2. /\ DOMAIN orders' = DOMAIN orders \cup {q.id}
        /\ \A i \in DOMAIN orders' : orders'[i] = IF i = q.id THEN o ELSE orders[i]
        /\ forced' = forced \ {q.id} /\ q.pc = "priced"
    BY <1>1, <1>3, <2>1 DEF CreateStore, At
  <2>3. PICK r : worker' = [worker EXCEPT ![w] = r]
    BY <1>3 DEF CreateStore, Move
  <2>4. forced \ {q.id} \subseteq forced' /\ worker[w].pc = "priced"
    BY <1>1, <2>2
  <2> QED
    BY <2>1, <2>2, <2>3, <2>4, MarksWrite
<1>4. CASE ShipDraw(w)
  <2>1. q.pc = "draw" /\ q.id \in DOMAIN orders /\ UNCHANGED forced
    BY <1>1, <1>4 DEF ShipDraw, At, TypeInv, TypeOK, Stored
  <2>2. orders[q.id] \in Orders
    BY <2>1 DEF TypeInv, TypeOK
  <2>3. PICK o : o = Tracked(orders[q.id])
    OBVIOUS
  <2>4. o.tracking = TRUE /\ o.status = orders[q.id].status
        /\ o.delivered_at = orders[q.id].delivered_at
    BY <2>2, <2>3 DEF Tracked, Orders
  <2>5. DOMAIN orders' = DOMAIN orders \cup {q.id}
        /\ \A i \in DOMAIN orders' : orders'[i] = IF i = q.id THEN o ELSE orders[i]
    BY <1>1, <1>4, <2>1, <2>3 DEF ShipDraw, TypeInv, TypeOK
  <2>6. PICK r : worker' = [worker EXCEPT ![w] = r]
    BY <1>4 DEF ShipDraw, Move
  <2>7. q.id \notin forced /\ o.status = "delivered" => o.delivered_at \/ Busy("sign", q.id)
    BY <2>1, <2>4, MarksAre DEF Marked
  <2>8. Busy("sign", q.id) => Busy("sign", q.id)'
    BY <1>1, <2>1, <2>6, BusyFrame
  <2>9. /\ forced \ {q.id} \subseteq forced' /\ worker[w].id = q.id
        /\ q.id \notin forced' =>
             /\ o.status \in {"shipped", "delivered"} => o.tracking \/ Busy("draw", q.id)'
             /\ o.status = "delivered" => o.delivered_at \/ Busy("sign", q.id)'
    BY <1>1, <2>1, <2>4, <2>7, <2>8
  <2> QED
    BY <2>5, <2>6, <2>9, MarksWrite
<1>5. CASE DeliverSign(w)
  <2>1. q.pc = "sign" /\ q.id \in DOMAIN orders /\ UNCHANGED forced
    BY <1>1, <1>5 DEF DeliverSign, At, TypeInv, TypeOK, Stored
  <2>2. orders[q.id] \in Orders
    BY <2>1 DEF TypeInv, TypeOK
  <2>3. PICK o : o = [orders[q.id] EXCEPT !.delivered_at = TRUE]
    OBVIOUS
  <2>4. o.delivered_at = TRUE /\ o.status = orders[q.id].status
        /\ o.tracking = orders[q.id].tracking
    BY <2>2, <2>3 DEF Orders
  <2>5. DOMAIN orders' = DOMAIN orders \cup {q.id}
        /\ \A i \in DOMAIN orders' : orders'[i] = IF i = q.id THEN o ELSE orders[i]
    BY <1>1, <1>5, <2>1, <2>3 DEF DeliverSign, TypeInv, TypeOK
  <2>6. PICK r : worker' = [worker EXCEPT ![w] = r]
    BY <1>5 DEF DeliverSign, Move
  <2>7. q.id \notin forced /\ o.status \in {"shipped", "delivered"} =>
          o.tracking \/ Busy("draw", q.id)
    BY <2>1, <2>4, MarksAre DEF Marked
  <2>8. Busy("draw", q.id) => Busy("draw", q.id)'
    BY <1>1, <2>1, <2>6, BusyFrame
  <2>9. /\ forced \ {q.id} \subseteq forced' /\ worker[w].id = q.id
        /\ q.id \notin forced' =>
             /\ o.status \in {"shipped", "delivered"} => o.tracking \/ Busy("draw", q.id)'
             /\ o.status = "delivered" => o.delivered_at \/ Busy("sign", q.id)'
    BY <1>1, <2>1, <2>4, <2>7, <2>8
  <2> QED
    BY <2>5, <2>6, <2>9, MarksWrite
<1>6. CASE CreateFails(w) \/ ShipLabel(w) \/ GetEnd(w) \/ ScanStep(w) \/ Close(w)
  <2>1. q.pc \notin {"draw", "sign"} /\ UNCHANGED <<orders, forced>>
    BY <1>1, <1>6 DEF CreateFails, ShipLabel, GetEnd, ScanStep, Close, At
  <2>2. PICK r : worker' = [worker EXCEPT ![w] = r]
    BY <1>6 DEF CreateFails, ShipLabel, GetEnd, ScanStep, Close, Move, Finish, Counted
  <2> QED
    BY <1>2, <2>1, <2>2
<1> QED
  BY <1>3, <1>4, <1>5, <1>6 DEF Go

LEMMA MarksNext == TypeInv /\ MarksFollow /\ [Next]_vars => MarksFollow'
<1> SUFFICES ASSUME TypeInv, MarksFollow, [Next]_vars PROVE MarksFollow'
  OBVIOUS
<1>1. CASE UNCHANGED vars
  BY <1>1 DEF vars, MarksFollow, Busy, At
<1>2. ASSUME NEW w \in Workers,
             CreateRead(w) \/ ScanBegin(w) \/ ScanSpoils(w) \/ Respond(w)
      PROVE  MarksFollow'
  <2>1. worker[w].pc \notin {"draw", "sign"} /\ UNCHANGED <<orders, forced>>
    BY <1>2 DEF CreateRead, ScanBegin, ScanSpoils, Respond, At
  <2>2. PICK r : worker' = [worker EXCEPT ![w] = r]
    BY <1>2 DEF CreateRead, ScanBegin, ScanSpoils, Respond, Finish
  <2> QED
    BY <2>1, <2>2, MarksRead
<1> QED
  BY <1>1, <1>2, RequestMarks, GoMarks DEF Next

(***************************************************************************)
(* The tracking number that ship_order draws and the date that             *)
(* deliver_order writes after the status reach their order, also when the  *)
(* two handlers overtake one another or a create replaces the order.       *)
(***************************************************************************)
THEOREM MarksKept == Spec => []MarksFollow
<1>1. Init => MarksFollow
  BY SamplesType DEF Init, MarksFollow
<1> QED
  BY <1>1, InitType, TypeNext, MarksNext, PTL DEF Spec
=============================================================================
