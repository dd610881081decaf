----------------------------- MODULE ProductProofs -----------------------------
(***************************************************************************)
(* The theorems about the product service: type correctness, the calm      *)
(* requests, and that the service implements Shelf.  The invariant is that *)
(* of the store (StoreProofs), a stock for every record, and that whose    *)
(* price is infinite are records.                                          *)
(***************************************************************************)
EXTENDS ProductService, StoreProofs

StockOK == stock \in Seq(Int) /\ Len(stock) = Len(ids)

PricesOK == infinite \subseteq Records

ProductInv == StoreInv /\ StockOK /\ PricesOK

-----------------------------------------------------------------------------
LEMMA SetStock ==
  ASSUME ProductInv, UNCHANGED ids, NEW o \in Records, NEW n \in Int,
         stock' = [stock EXCEPT ![o] = n]
  PROVE  StockOK'
<1>1. o \in 1..Len(stock) /\ stock \in Seq(Int) /\ Len(stock) = Len(ids)
  BY DEF ProductInv, StockOK, Records
<1>2. stock' \in Seq(Int) /\ Len(stock') = Len(stock)
  BY <1>1, ExceptSeq
<1> QED
  BY <1>1, <1>2 DEF StockOK

LEMMA InitInv == Init => ProductInv
<1> SUFFICES ASSUME Init PROVE ProductInv
  OBVIOUS
<1>1. StoreInv
  BY StoreInvInit DEF Init
<1>2. ids = <<1, 2, 3>> /\ stock = <<10, 50, 25>>
  BY DEF Init, StoreInit
<1>3. StockOK
  BY <1>2 DEF StockOK
<1> QED
  BY <1>1, <1>3 DEF ProductInv, PricesOK, Init

LEMMA PricesStay ==
  ASSUME ProductInv, UNCHANGED ids, UNCHANGED infinite PROVE PricesOK'
BY DEF ProductInv, PricesOK, Records

\* The stock a change leaves.
LEMMA ChangeStep ==
  ASSUME ProductInv, NEW w \in Workers, NEW op \in {"purchase", "restock"}, NEW id \in Nat,
         NEW pc \in {"look", "answer"}, NEW verdict \in {"ok", "overflow"},
         NEW n, Has(id), Change(w, pc, op, id, n, verdict)
  PROVE  ProductInv'
<1>1. op \in Writers /\ op \in Ops /\ pc \in PCs /\ verdict \in Verdicts
  BY DEF Writers, Ops, PCs, Verdicts
<1>2. PICK r : r = [Started(pc, op, id) EXCEPT !.obj = db[id], !.verdict = verdict]
  OBVIOUS
<1>3. Taken(r, pc, op, id, verdict)
  BY <1>1, <1>2, TakenIs DEF ProductInv
<1>4. RequestOK(r) /\ CalmOK(r)
  BY <1>1, <1>3, TakenIsOK DEF ProductInv
<1>5. Serve(w, r) /\ UNCHANGED tables /\ Bounded(n) /\ stock' = [stock EXCEPT ![db[id]] = n]
      /\ UNCHANGED infinite
  BY <1>2 DEF Change
<1>6. StoreInv'
  BY <1>4, <1>5, ServeStep DEF ProductInv
<1>7. n \in Int
  BY <1>5, IntegersAssumption DEF Bounded
<1>8. StockOK' /\ PricesOK'
  <2>1. UNCHANGED ids
    BY <1>5 DEF tables
  <2>2. db[id] \in Records
    BY FoundOK DEF ProductInv
  <2> QED
    BY <1>5, <1>7, <2>1, <2>2, SetStock, PricesStay
<1> QED
  BY <1>6, <1>8 DEF ProductInv

LEMMA CreateStep ==
  ASSUME ProductInv, NEW w \in Workers, Create(w) PROVE ProductInv'
<1>1. StoreInv'
  BY CreateStoreStep DEF ProductInv, Create
<1>2. PICK n \in Levels : stock' = Append(stock, n)
  BY DEF Create
<1>3. ids' = Append(ids, worker[w].id) /\ ids \in Seq(Nat) /\ worker[w].id \in Nat
  BY DEF Create, CreateStore, ProductInv, StoreInv, TablesOK, RequestOK, Requests
<1>4. n \in Int /\ stock \in Seq(Int) /\ Len(stock) = Len(ids)
  BY IntegersAssumption DEF ProductInv, StockOK
<1>5. Len(ids') = Len(ids) + 1
  BY <1>3
<1>6. stock' \in Seq(Int) /\ Len(stock') = Len(stock) + 1
  BY <1>2, <1>4
<1>7. PricesOK'
  <2>1. infinite' \subseteq infinite \cup {Len(ids) + 1}
    BY DEF Create
  <2>2. Len(ids) \in Nat /\ infinite \subseteq 1..Len(ids)
    BY <1>3 DEF ProductInv, PricesOK, Records
  <2>3. infinite' \subseteq 1..(Len(ids) + 1)
    BY <2>1, <2>2
  <2> QED
    BY <1>5, <2>3 DEF PricesOK, Records
<1> QED
  BY <1>1, <1>4, <1>5, <1>6, <1>7 DEF ProductInv, StockOK

LEMMA UpdateStep ==
  ASSUME ProductInv, NEW w \in Workers, NEW id \in Nat, Update(w, id) PROVE ProductInv'
<1>1. StoreInv'
  BY UpdateFieldsStep DEF ProductInv, Update
<1>2. UNCHANGED ids
  BY DEF Update, UpdateFields, tables
<1>5. PricesOK'
  <2>1. infinite' \subseteq infinite \cup {db[id]} /\ db[id] \in Records
    BY FoundOK DEF Update, UpdateFields, ProductInv
  <2>2. infinite' \subseteq Records
    BY <2>1 DEF ProductInv, PricesOK
  <2> QED
    BY <1>2, <2>2 DEF PricesOK, Records
<1>3. CASE UNCHANGED stock
  BY <1>1, <1>2, <1>3, <1>5 DEF ProductInv, StockOK
<1>4. ASSUME NEW n \in Levels, stock' = [stock EXCEPT ![db[id]] = n] PROVE ProductInv'
  <2>1. n \in Int
    BY IntegersAssumption
  <2>2. db[id] \in Records
    BY FoundOK DEF ProductInv, Update, UpdateFields
  <2>3. StockOK'
    BY <1>2, <1>4, <2>1, <2>2, SetStock
  <2> QED
    BY <1>1, <1>5, <2>3 DEF ProductInv
<1> QED
  BY <1>3, <1>4 DEF Update

LEMMA StatsBeginStep ==
  ASSUME StoreInv, NEW w \in Workers, StatsBegin(w) PROVE StoreInv'
<1>1. "stats" \in Walks
  BY DEF Walks
<1> QED
  BY <1>1, WalkStep DEF StatsBegin

LEMMA StatsAgainStep ==
  ASSUME StoreInv, NEW w \in Workers, StatsAgain(w) PROVE StoreInv'
<1>1. PICK q : q = worker[w]
  OBVIOUS
<1>2. q \in Requests /\ RequestOK(q) /\ (w \in calm => CalmOK(q)) /\ q.pc = "again"
      /\ UNCHANGED tables /\ UNCHANGED calm
  BY <1>1 DEF StoreInv, StatsAgain, At
<1>3. CASE Size = q.size
  <2>0. PICK verdict \in {"ok", "overflow"} :
          Becomes(w, [q EXCEPT !.pc = "sum", !.verdict = verdict])
    BY <1>1, <1>3 DEF StatsAgain
  <2>1. PICK r : r = [q EXCEPT !.pc = "sum", !.verdict = verdict]
    OBVIOUS
  <2>2. "sum" \in PCs /\ verdict \in Verdicts
    BY DEF PCs, Verdicts
  <2>3. r \in Requests /\ r.pc = "sum" /\ r.op = q.op /\ r.id = q.id /\ r.obj = q.obj
        /\ r.ref = q.ref /\ r.verdict = verdict
    BY <1>2, <2>1, <2>2 DEF Requests
  <2>4. RequestOK(r)
    BY <1>2, <2>3 DEF RequestOK
  <2>5. w \in calm => CalmOK(r)
    BY <1>2, <2>3 DEF CalmOK
  <2>6. Becomes(w, r)
    BY <2>0, <2>1
  <2> QED
    BY <1>2, <2>4, <2>5, <2>6, QuietStep
<1>4. CASE Size # q.size
  <2>1. Verdict(w, "failed") /\ "failed" \in Verdicts
    BY <1>1, <1>4 DEF StatsAgain, Verdicts
  <2>2. w \notin calm
    BY <1>2, <1>4 DEF CalmOK
  <2> QED
    BY <1>2, <2>1, <2>2, VerdictOK
<1> QED
  BY <1>3, <1>4

LEMMA StatsSumStep ==
  ASSUME StoreInv, NEW w \in Workers, StatsSum(w) PROVE StoreInv'
<1>1. PICK q : q = worker[w]
  OBVIOUS
<1>2. q \in Requests /\ RequestOK(q) /\ (w \in calm => CalmOK(q)) /\ q.pc = "sum"
      /\ UNCHANGED tables /\ UNCHANGED calm
  BY <1>1 DEF StoreInv, StatsSum, At
<1>3. PICK size \in Nat : size = Size
  BY SizeIsNat DEF StoreInv
<1>4. PICK r : r = [q EXCEPT !.pc = "walk", !.size = size]
  OBVIOUS
<1>5. "walk" \in PCs
  BY DEF PCs
<1>6. r \in Requests /\ r.pc = "walk" /\ r.op = q.op /\ r.id = q.id /\ r.obj = q.obj
      /\ r.ref = q.ref /\ r.verdict = q.verdict /\ r.size = size
  BY <1>2, <1>4, <1>5 DEF Requests
<1>7. RequestOK(r)
  BY <1>2, <1>6 DEF RequestOK
<1>8. w \in calm => CalmOK(r)
  BY <1>2, <1>3, <1>6 DEF CalmOK
<1>9. Becomes(w, r)
  BY <1>1, <1>3, <1>4 DEF StatsSum
<1> QED
  BY <1>2, <1>7, <1>8, <1>9, QuietStep

LEMMA StatsFailStep ==
  ASSUME StoreInv, NEW w \in Workers, StatsFail(w) PROVE StoreInv'
<1>1. Verdict(w, "overflow") /\ "overflow" \in Verdicts /\ UNCHANGED tables /\ UNCHANGED calm
  BY DEF StatsFail, Verdicts
<1> QED
  BY <1>1, VerdictOK

\* list_products with a filter that its answer cannot repeat.
LEMMA BoundedListBegins ==
  ASSUME StoreInv, NEW w \in Workers, ListBegin(w)
  PROVE  \E r : /\ Begun(r, "walk", "search", 0, Size, "overflow")
               /\ Serve(w, r) /\ UNCHANGED tables
<1>1. Size \in Nat /\ "search" \in Ops /\ "walk" \in PCs /\ 0 \in Nat /\ "overflow" \in Verdicts
  BY SizeIsNat DEF StoreInv, Ops, PCs, Walks, Verdicts
<1>2. PICK q : q = Started("walk", "search", 0)
  OBVIOUS
<1>3. Begun(q, "walk", "search", 0, 0, "ok")
  BY <1>1, <1>2, StartedIsBegun
<1>4. PICK size \in Nat : size = Size
  BY <1>1
<1>5. Begun([q EXCEPT !.size = size, !.verdict = "overflow"], "walk", "search", 0, size, "overflow")
  BY <1>1, <1>3 DEF Begun, Requests
<1> QED
  BY <1>2, <1>4, <1>5 DEF ListBegin

LEMMA ListBeginStep ==
  ASSUME StoreInv, NEW w \in Workers, ListBegin(w) PROVE StoreInv'
<1>1. PICK r : Begun(r, "walk", "search", 0, Size, "overflow") /\ Serve(w, r) /\ UNCHANGED tables
  BY BoundedListBegins
<1>2. "search" \in Walks
  BY DEF Walks
<1> QED
  BY <1>1, <1>2, BegunStep

LEMMA OffStockStep ==
  ASSUME StoreInv, NEW w \in Workers, NEW id \in Nat, OffStock(w, id) PROVE StoreInv'
<1>1. CASE GetBegin(w, id)
  BY <1>1, GetBeginStep
<1>2. CASE Delete(w, id)
  BY <1>2, DeleteStep
<1>3. ASSUME NEW op \in {"put", "delete", "purchase", "restock"}, NotFound(w, op, id) PROVE StoreInv'
  <2>1. op \in Ops /\ Reject(w, op, "missing")
    BY <1>3 DEF NotFound, Ops
  <2> QED
    BY <2>1, RejectStep
<1> QED
  BY <1>1, <1>2, <1>3 DEF OffStock

\* ids, and with it the number of stocks, is left alone by what leaves stock alone.
LEMMA IdsUnchanged ==
  ASSUME NEW w \in Workers,
         \/ CreateRead(w) \/ WalkBegin(w) \/ ListBegin(w) \/ Stats(w)
         \/ \E id \in Addressed : OffStock(w, id)
         \/ StoreGo(w, Writable(w))
  PROVE  UNCHANGED ids
<1>1. CASE CreateRead(w) \/ WalkBegin(w) \/ ListBegin(w) \/ Stats(w)
  BY <1>1 DEF CreateRead, WalkBegin, ListBegin, Stats, StatsBegin, StatsAgain, StatsSum,
              StatsFail, tables
<1>2. CASE \E id \in Addressed : OffStock(w, id)
  BY <1>2 DEF OffStock, GetBegin, Delete, NotFound, Reject, tables
<1>3. CASE StoreGo(w, Writable(w))
  BY <1>3 DEF StoreGo, UpdateDate, LookUp, GetEnd, WalkFind, WalkEnd, WalkFail,
              EncodeBegin, EncodeEnd, Respond, tables
<1> QED
  BY <1>1, <1>2, <1>3

LEMMA NextKeepsInv == ProductInv /\ [Next]_vars => ProductInv'
<1> SUFFICES ASSUME ProductInv, [Next]_vars PROVE ProductInv'
  OBVIOUS
<1>1. CASE UNCHANGED vars
  BY <1>1, StoreStutter, PricesStay DEF ProductInv, StockOK, vars, store, tables
<1>2. ASSUME NEW w \in Workers, Create(w) PROVE ProductInv'
  BY <1>2, CreateStep
<1>3. ASSUME NEW w \in Workers, NEW id \in Addressed, OnStock(w, id) PROVE ProductInv'
  <2>1. id \in Nat
    BY BoundsAssumption
  <2>2. ASSUME NEW q \in Quantities, Purchase(w, id, q) PROVE ProductInv'
    <3>1. PICK pc \in {"look", "answer"}, verdict \in {"ok", "overflow"} :
            Change(w, pc, "purchase", id, StockOf(id) - q, verdict)
      BY <2>2 DEF Purchase, Sale
    <3>2. Has(id)
      BY <2>2 DEF Purchase
    <3> QED
      BY <2>1, <3>1, <3>2, ChangeStep
  <2>3. ASSUME NEW q \in Quantities, Restock(w, id, q) PROVE ProductInv'
    BY <2>1, <2>3, ChangeStep DEF Restock
  <2>4. ASSUME NEW q \in Quantities, Insufficient(w, id, q) PROVE ProductInv'
    <3>1. Reject(w, "purchase", "refused") /\ UNCHANGED <<stock, infinite>> /\ "purchase" \in Ops
      BY <2>4 DEF Insufficient, Ops
    <3>2. StoreInv'
      BY <3>1, RejectStep DEF ProductInv
    <3>3. UNCHANGED ids
      BY <3>1 DEF Reject, tables
    <3> QED
      BY <3>1, <3>2, <3>3, PricesStay DEF ProductInv, StockOK
  <2>5. CASE Update(w, id)
    BY <2>1, <2>5, UpdateStep
  <2> QED
    BY <1>3, <2>2, <2>3, <2>4, <2>5 DEF OnStock
<1>4. ASSUME NEW w \in Workers, UNCHANGED <<stock, infinite>>,
             \/ CreateRead(w) \/ WalkBegin(w) \/ ListBegin(w) \/ Stats(w)
             \/ \E id \in Addressed : OffStock(w, id)
             \/ StoreGo(w, Writable(w))
      PROVE  ProductInv'
  <2>1. StoreInv
    BY DEF ProductInv
  <2>2. StoreInv'
    <3>1. ASSUME NEW id \in Addressed, OffStock(w, id) PROVE StoreInv'
      <4>1. id \in Nat
        BY BoundsAssumption
      <4> QED
        BY <2>1, <3>1, <4>1, OffStockStep
    <3> QED
      BY <1>4, <2>1, <3>1, CreateReadStep, WalkBeginStep, ListBeginStep, StatsBeginStep,
         StatsAgainStep, StatsSumStep, StatsFailStep, StoreGoStep DEF Stats
  <2>3. UNCHANGED ids
    BY <1>4, IdsUnchanged
  <2> QED
    BY <1>4, <2>2, <2>3, PricesStay DEF ProductInv, StockOK
<1> QED
  BY <1>1, <1>2, <1>3, <1>4 DEF Next

LEMMA ProductInvHolds == Spec => []ProductInv
BY InitInv, NextKeepsInv, PTL DEF Spec

-----------------------------------------------------------------------------
\* Whatever requests the threads of product_service serve, every variable keeps
\* its type, and every product ever stored keeps a stock.
THEOREM ProductTypeOK == Spec => []TypeOK
<1>1. ProductInv => TypeOK
  BY StoreInvSays DEF ProductInv, StockOK, PricesOK, TypeOK
<1> QED
  BY <1>1, ProductInvHolds, PTL

\* A request for a product fails only when another request disturbed it, or a
\* number of its answer cannot be computed or written.
THEOREM ProductCalmRequestsSucceed == Spec => []CalmRequestsSucceed
<1>1. ProductInv => CalmRequestsSucceed
  BY StoreInvSays DEF ProductInv
<1> QED
  BY <1>1, ProductInvHolds, PTL

-----------------------------------------------------------------------------
(***************************************************************************)
(* The refinement.  What Shelf sees of a request depends on the request    *)
(* alone.                                                                  *)
(***************************************************************************)
Errs(r) == r.pc = "answer" /\ r.verdict \in {"failed", "overflow"}

DealOf(r) ==
  IF r.pc = "idle"                  THEN "none"
  ELSE IF r.verdict = "refused"     THEN "refused"
  ELSE IF r.obj = 0                 THEN "open"
  ELSE IF Errs(r)                   THEN "spoiled"
  ELSE r.op

deal == [w \in Workers |-> Deal(w)]

\* A step that Shelf takes too, or does not see.
Mapped == Promise!Next \/ UNCHANGED <<stock, Listed, deal>>

LEMMA DealIs ==
  /\ deal \in [Workers -> {DealOf(worker[w]) : w \in Workers}]
  /\ \A w \in Workers : deal[w] = DealOf(worker[w])
BY DEF deal, Deal, DealOf, Erred, Errs, At

LEMMA DealCases ==
  ASSUME NEW r, r.obj # 0 => r.op \in Writers
  PROVE  /\ r.pc = "idle" => DealOf(r) = "none"
         /\ r.pc # "idle" /\ r.verdict = "refused" => DealOf(r) = "refused"
         /\ r.pc # "idle" /\ r.verdict # "refused" /\ r.obj = 0 => DealOf(r) = "open"
         /\ Errs(r) /\ r.obj # 0 => DealOf(r) = "spoiled"
         /\ r.pc # "idle" /\ r.verdict # "refused" /\ ~Errs(r) /\ r.obj # 0
              => DealOf(r) = r.op /\ r.op \in Promise!Effects
<1>1. r.obj # 0 => r.op \in Promise!Effects
  BY DEF Writers, Promise!Effects
<1>2. r.pc = "idle" => DealOf(r) = "none"
  BY DEF DealOf
<1>3. r.pc # "idle" /\ r.verdict = "refused" => DealOf(r) = "refused"
  BY DEF DealOf
<1>4. r.pc # "idle" /\ r.verdict # "refused" /\ r.obj = 0 => DealOf(r) = "open"
  BY DEF DealOf
<1>5. Errs(r) /\ r.obj # 0 => DealOf(r) = "spoiled"
  BY DEF DealOf, Errs
<1>6. r.pc # "idle" /\ r.verdict # "refused" /\ ~Errs(r) /\ r.obj # 0 => DealOf(r) = r.op
  BY DEF DealOf
<1> QED
  BY <1>1, <1>2, <1>3, <1>4, <1>5, <1>6

LEMMA DealBecomes ==
  ASSUME StoreInv, NEW w \in Workers, NEW r, Becomes(w, r)
  PROVE  deal' = [deal EXCEPT ![w] = DealOf(r)]
<1>1. \A v \in Workers : worker'[v] = IF v = w THEN r ELSE worker[v]
  BY DEF Becomes, StoreInv
<1>2. \A v \in Workers : Deal(v)' = IF v = w THEN DealOf(r) ELSE Deal(v)
  BY <1>1 DEF Deal, DealOf, Erred, Errs, At
<1> QED
  BY <1>2 DEF deal

LEMMA MovesTo ==
  ASSUME StoreInv, NEW w \in Workers, NEW r, Becomes(w, r), NEW from, DealOf(worker[w]) \in from
  PROVE  Promise!Moves(w, from, DealOf(r))
<1>1. deal[w] \in from
  BY DealIs
<1>2. deal' = [deal EXCEPT ![w] = DealOf(r)]
  BY DealBecomes
<1> QED
  BY <1>1, <1>2 DEF Promise!Moves, deal

LEMMA StepMapped ==
  ASSUME NEW w \in Workers, NEW from, NEW to, Promise!Moves(w, from, to), to \notin from,
         Promise!Step(w)
  PROVE  Mapped
<1>1. deal[w] \in from /\ deal' = [deal EXCEPT ![w] = to] /\ w \in DOMAIN deal
  BY DEF Promise!Moves, deal
<1>2. deal'[w] # deal[w]
  BY <1>1
<1> QED
  BY <1>2 DEF Mapped, Promise!Next, deal

LEMMA StaysAt ==
  ASSUME StoreInv, NEW w \in Workers, NEW r, Becomes(w, r), DealOf(r) = DealOf(worker[w]),
         UNCHANGED db, UNCHANGED stock
  PROVE  Mapped
<1>1. deal' = deal
  BY DealBecomes, DealIs DEF deal
<1>2. Listed' = Listed
  BY DEF Listed
<1> QED
  BY <1>1, <1>2 DEF Mapped

\* A request begins without an effect.
LEMMA OpenStep ==
  ASSUME StoreInv, NEW w \in Workers, NEW r, Serve(w, r), UNCHANGED tables, UNCHANGED stock,
         r.pc # "idle", r.obj = 0, r.verdict # "refused"
  PROVE  Mapped
<1>1. Becomes(w, r) /\ DealOf(worker[w]) \in {"none"} /\ DealOf(r) = "open"
  BY DEF Serve, At, DealOf
<1>2. Promise!Moves(w, {"none"}, "open")
  BY <1>1, MovesTo
<1>3. Promise!Open(w)
  BY <1>2 DEF Promise!Open, Listed, tables
<1> QED
  BY <1>3, <1>2, StepMapped DEF Promise!Step

LEMMA BegunOpens ==
  ASSUME StoreInv, NEW w \in Workers, NEW r, NEW pc, NEW op, NEW id, NEW size, NEW verdict,
         Begun(r, pc, op, id, size, verdict), pc # "idle", verdict # "refused",
         Serve(w, r), UNCHANGED tables, UNCHANGED stock
  PROVE  Mapped
BY OpenStep DEF Begun

LEMMA CreateReadMaps ==
  ASSUME StoreInv, NEW w \in Workers, CreateRead(w), UNCHANGED stock PROVE Mapped
<1>1. id_counter \in Nat /\ Len(ids) \in Nat /\ "stamp" \in PCs /\ "create" \in Ops
  BY DEF StoreInv, TablesOK, PCs, Ops
<1>2. PICK q : q = Started("stamp", "create", id_counter)
  OBVIOUS
<1>3. Begun([q EXCEPT !.size = Len(ids)], "stamp", "create", id_counter, Len(ids), "ok")
  BY <1>1, <1>2, StartedIsBegun, SizedIsBegun
<1>4. Serve(w, [q EXCEPT !.size = Len(ids)]) /\ UNCHANGED tables
  BY <1>2 DEF CreateRead
<1> QED
  BY <1>3, <1>4, BegunOpens

LEMMA WalkMaps ==
  ASSUME StoreInv, NEW w \in Workers, NEW pc \in {"walk", "again"}, NEW op \in Walks,
         Serve(w, [Started(pc, op, 0) EXCEPT !.size = Size]), UNCHANGED tables, UNCHANGED stock
  PROVE  Mapped
<1>1. Size \in Nat /\ op \in Ops /\ pc \in PCs /\ 0 \in Nat
  BY SizeIsNat DEF StoreInv, Ops, PCs
<1>2. PICK q : q = Started(pc, op, 0)
  OBVIOUS
<1>3. Begun([q EXCEPT !.size = Size], pc, op, 0, Size, "ok")
  BY <1>1, <1>2, StartedIsBegun, SizedIsBegun
<1>4. Serve(w, [q EXCEPT !.size = Size])
  BY <1>2
<1> QED
  BY <1>3, <1>4, BegunOpens

LEMMA RejectForm ==
  ASSUME NEW w \in Workers, NEW op \in Ops, NEW verdict \in {"missing", "refused"},
         Reject(w, op, verdict)
  PROVE  \E r : Begun(r, "answer", op, 0, 0, verdict) /\ Serve(w, r) /\ UNCHANGED tables
<1>1. "answer" \in PCs /\ 0 \in Nat /\ verdict \in Verdicts
  BY DEF PCs, Verdicts
<1>2. PICK q : q = Started("answer", op, 0)
  OBVIOUS
<1>3. Begun([q EXCEPT !.verdict = verdict], "answer", op, 0, 0, verdict)
  BY <1>1, <1>2, StartedIsBegun, DecidedIsBegun
<1>4. Serve(w, [q EXCEPT !.verdict = verdict]) /\ UNCHANGED tables
  BY <1>2 DEF Reject
<1> QED
  BY <1>3, <1>4

LEMMA NotFoundMaps ==
  ASSUME StoreInv, NEW w \in Workers, NEW op \in Ops, NEW id, NotFound(w, op, id), UNCHANGED stock
  PROVE  Mapped
<1>1. PICK r : Begun(r, "answer", op, 0, 0, "missing") /\ Serve(w, r) /\ UNCHANGED tables
  BY RejectForm DEF NotFound
<1> QED
  BY <1>1, BegunOpens

LEMMA InsufficientMaps ==
  ASSUME StoreInv, NEW w \in Workers, NEW id, NEW q \in Quantities, Insufficient(w, id, q)
  PROVE  Mapped
<1>1. "purchase" \in Ops
  BY DEF Ops
<1>2. PICK r : Begun(r, "answer", "purchase", 0, 0, "refused") /\ Serve(w, r) /\ UNCHANGED tables
  BY <1>1, RejectForm DEF Insufficient
<1>3. Becomes(w, r) /\ DealOf(worker[w]) \in {"none"} /\ DealOf(r) = "refused"
  BY <1>2 DEF Serve, At, DealOf, Begun
<1>4. Promise!Moves(w, {"none"}, "refused")
  BY <1>3, MovesTo
<1>5. db[id] \in Listed /\ stock[db[id]] < q /\ UNCHANGED stock
  BY DEF Insufficient, StockOf, Listed, Has
<1>6. Promise!Refuse(w)
  BY <1>2, <1>4, <1>5 DEF Promise!Refuse, Listed, tables
<1> QED
  BY <1>6, <1>4, StepMapped DEF Promise!Step

\* A request takes a record in hand and changes its stock.
LEMMA TakenMoves ==
  ASSUME StoreInv, NEW w \in Workers, NEW op \in Writers, NEW id \in Nat, Has(id),
         NEW pc \in {"date", "look", "answer"}, NEW verdict \in {"ok", "overflow"},
         NEW r, Taken(r, pc, op, id, verdict), Serve(w, r)
  PROVE  Promise!Moves(w, {"none"}, IF pc = "answer" /\ verdict = "overflow" THEN "spoiled" ELSE op)
<1>1. db[id] # 0
  BY FoundOK DEF Records
<1>2. r.pc = pc /\ r.op = op /\ r.obj # 0 /\ r.verdict = verdict
  BY <1>1 DEF Taken
<1>3. DealOf(r) = IF pc = "answer" /\ verdict = "overflow" THEN "spoiled" ELSE op
  BY <1>2 DEF DealOf, Errs
<1>4. Becomes(w, r) /\ DealOf(worker[w]) \in {"none"}
  BY DEF Serve, At, DealOf
<1>5. Promise!Moves(w, {"none"}, DealOf(r))
  BY <1>4, MovesTo
<1> QED
  BY <1>3, <1>5

LEMMA ChangeMoves ==
  ASSUME StoreInv, NEW w \in Workers, NEW op \in {"purchase", "restock"}, NEW id \in Nat, Has(id),
         NEW pc \in {"look", "answer"}, NEW verdict \in {"ok", "overflow"}, NEW n,
         Change(w, pc, op, id, n, verdict)
  PROVE  /\ Promise!Moves(w, {"none"},
              IF pc = "answer" /\ verdict = "overflow" THEN "spoiled" ELSE op)
         /\ UNCHANGED tables /\ stock' = [stock EXCEPT ![db[id]] = n]
<1>1. op \in Writers /\ op \in Ops /\ pc \in PCs /\ verdict \in Verdicts
  BY DEF Writers, Ops, PCs, Verdicts
<1>2. PICK r : r = [Started(pc, op, id) EXCEPT !.obj = db[id], !.verdict = verdict]
  OBVIOUS
<1>3. Taken(r, pc, op, id, verdict)
  BY <1>1, <1>2, TakenIs
<1>4. Serve(w, r) /\ UNCHANGED tables /\ stock' = [stock EXCEPT ![db[id]] = n]
  BY <1>2 DEF Change
<1> QED
  BY <1>1, <1>3, <1>4, TakenMoves

LEMMA PurchaseMaps ==
  ASSUME StoreInv, NEW w \in Workers, NEW id \in Nat, NEW q \in Quantities, Purchase(w, id, q)
  PROVE  Mapped
<1>1. Has(id) /\ stock[db[id]] >= q
  BY DEF Purchase, StockOf
<1>2. PICK pc \in {"look", "answer"}, verdict \in {"ok", "overflow"} :
        Change(w, pc, "purchase", id, stock[db[id]] - q, verdict)
  BY DEF Purchase, Sale, StockOf
<1>3. PICK to \in {"purchase", "spoiled"} : Promise!Moves(w, {"none"}, to)
  BY <1>1, <1>2, ChangeMoves
<1>4. UNCHANGED tables /\ stock' = [stock EXCEPT ![db[id]] = stock[db[id]] - q]
  BY <1>1, <1>2, ChangeMoves
<1>5. PICK o \in Listed : o = db[id]
  BY <1>1 DEF Listed, Has
<1>6. Promise!Sell(w, o, q)
  BY <1>1, <1>3, <1>4, <1>5 DEF Promise!Sell, Listed, tables
<1>7. to \notin {"none"}
  OBVIOUS
<1> QED
  BY <1>3, <1>5, <1>6, <1>7, StepMapped DEF Promise!Step

LEMMA RestockMaps ==
  ASSUME StoreInv, NEW w \in Workers, NEW id \in Nat, NEW q \in Quantities, Restock(w, id, q)
  PROVE  Mapped
<1>1. Has(id) /\ Change(w, "look", "restock", id, stock[db[id]] + q, "ok")
  BY DEF Restock, StockOf
<1>2. Promise!Moves(w, {"none"}, "restock")
  BY <1>1, ChangeMoves
<1>3. UNCHANGED tables /\ stock' = [stock EXCEPT ![db[id]] = stock[db[id]] + q]
  BY <1>1, ChangeMoves
<1>4. PICK o \in Listed : o = db[id]
  BY <1>1 DEF Listed, Has
<1>5. Promise!Refill(w, o, q)
  BY <1>1, <1>2, <1>3, <1>4 DEF Promise!Refill, Listed, tables
<1> QED
  BY <1>2, <1>4, <1>5, StepMapped DEF Promise!Step

LEMMA UpdateMaps ==
  ASSUME ProductInv, NEW w \in Workers, NEW id \in Nat, Update(w, id)
  PROVE  Mapped
<1>1. Has(id) /\ "put" \in Writers /\ UNCHANGED tables
  BY DEF Update, UpdateFields, Writers
<1>2. Promise!Moves(w, {"none"}, "put")
  <2>1. PICK r : r = [Started("date", "put", id) EXCEPT !.obj = db[id]]
    OBVIOUS
  <2>2. "date" \in PCs /\ "put" \in Ops /\ "ok" \in Verdicts
    BY DEF PCs, Ops, Verdicts
  <2>3. Taken(r, "date", "put", id, "ok")
    BY <1>1, <2>1, <2>2, TakenIs DEF ProductInv
  <2>4. Serve(w, r)
    BY <2>1 DEF Update, UpdateFields
  <2> QED
    BY <1>1, <2>3, <2>4, TakenMoves DEF ProductInv
<1>3. PICK o \in Listed : o = db[id]
  BY <1>1 DEF Listed, Has
<1>4. PICK n \in Levels \cup {stock[o]} : stock' = [stock EXCEPT ![o] = n]
  <2>1. CASE UNCHANGED stock
    <3>1. stock \in Seq(Int)
      BY DEF ProductInv, StockOK
    <3>2. [stock EXCEPT ![o] = stock[o]] = stock
      BY <3>1
    <3> QED
      BY <2>1, <3>2
  <2>2. CASE \E n \in Levels : stock' = [stock EXCEPT ![db[id]] = n]
    BY <2>2, <1>3
  <2> QED
    BY <2>1, <2>2 DEF Update
<1>5. Promise!Recount(w, o, n)
  BY <1>1, <1>2, <1>3 , <1>4 DEF Promise!Recount, Listed, tables
<1> QED
  BY <1>3, <1>4, <1>5, <1>2, StepMapped DEF Promise!Step

LEMMA CreateMaps ==
  ASSUME ProductInv, NEW w \in Workers, Create(w) PROVE Mapped
<1>1. PICK q \in Requests : q = worker[w]
  BY DEF ProductInv, StoreInv
<1>2. RequestOK(q) /\ q.pc = "stamp"
  BY <1>1 DEF ProductInv, StoreInv, Create, CreateStore, At
<1>3. PICK o \in Nat : o = Len(ids) + 1 /\ o = Len(stock) + 1 /\ o # 0
  BY DEF ProductInv, StoreInv, TablesOK, StockOK
<1>4. PICK r : r = [q EXCEPT !.pc = "look", !.obj = o]
  OBVIOUS
<1>5. r.pc = "look" /\ r.obj = o /\ r.op = q.op /\ r.verdict = q.verdict
  BY <1>4, <1>1 DEF Requests
<1>6. DealOf(r) = "create" /\ DealOf(q) \in {"open"}
  BY <1>2, <1>3, <1>5 DEF DealOf, Errs, RequestOK
<1>7. Becomes(w, r)
  BY <1>1, <1>3, <1>4 DEF Create, CreateStore
<1>8. Promise!Moves(w, {"open"}, "create")
  BY <1>1, <1>6, <1>7, MovesTo DEF ProductInv
<1>9. DOMAIN db' = DOMAIN db \cup {q.id} /\ db'[q.id] = o
      /\ \A i \in DOMAIN db : i # q.id => db'[i] = db[i]
  BY <1>1, <1>3 DEF Create, CreateStore
<1>10. \A i, j \in DOMAIN db : db[i] = db[j] => i = j
  BY DEF ProductInv, StoreInv, TablesOK
<1>11. Listed' = Listed \cup {o} \/ \E lost \in Listed : Listed' = (Listed \ {lost}) \cup {o}
  <2>1. CASE q.id \notin DOMAIN db
    <3>1. Listed' = Listed \cup {o}
      BY <2>1, <1>9 DEF Listed
    <3> QED
      BY <3>1
  <2>2. CASE q.id \in DOMAIN db
    <3>1. Listed' = (Listed \ {db[q.id]}) \cup {o}
      BY <2>2, <1>9, <1>10 DEF Listed
    <3>2. db[q.id] \in Listed
      BY <2>2 DEF Listed
    <3> QED
      BY <3>1, <3>2
  <2> QED
    BY <2>1, <2>2
<1>12. PICK n \in Levels : stock' = Append(stock, n)
  BY DEF Create
<1>13. Promise!Place(w, n)
  BY <1>3, <1>8, <1>11, <1>12 DEF Promise!Place
<1> QED
  BY <1>13, <1>8, StepMapped DEF Promise!Step

LEMMA DeleteMaps ==
  ASSUME StoreInv, NEW w \in Workers, NEW id \in Nat, Delete(w, id), UNCHANGED stock
  PROVE  Mapped
<1>1. PICK o \in Nat : o = db[id] /\ o # 0
  BY FoundOK DEF Delete, Records
<1>2. PICK s : s = Started("handed", "delete", id)
  OBVIOUS
<1>3. "handed" \in PCs /\ "delete" \in Ops
  BY DEF PCs, Ops
<1>4. Begun(s, "handed", "delete", id, 0, "ok")
  BY <1>2, <1>3, StartedIsBegun
<1>5. PICK r : r = [s EXCEPT !.obj = o, !.ref = o]
  OBVIOUS
<1>6. r.pc = "handed" /\ r.obj = o /\ r.op = "delete" /\ r.verdict = "ok"
  BY <1>4, <1>5 DEF Begun, Requests
<1>7. DealOf(r) = "delete"
  BY <1>1, <1>6 DEF DealOf, Errs
<1>8. Becomes(w, r) /\ DealOf(worker[w]) \in {"none"}
  BY <1>1, <1>2, <1>5 DEF Delete, At, DealOf
<1>9. Promise!Moves(w, {"none"}, "delete")
  BY <1>7, <1>8, MovesTo
<1>10. DOMAIN db' = DOMAIN db \ {id} /\ (\A i \in DOMAIN db' : db'[i] = db[i]) /\ id \in DOMAIN db
  BY DEF Delete, Has
<1>11. \A i, j \in DOMAIN db : db[i] = db[j] => i = j
  BY DEF StoreInv, TablesOK
<1>12. Listed' = Listed \ {o} /\ o \in Listed
  BY <1>1, <1>10, <1>11 DEF Listed
<1>13. Promise!Withdraw(w, o)
  BY <1>9, <1>12 DEF Promise!Withdraw
<1> QED
  BY <1>12, <1>13, <1>9, StepMapped DEF Promise!Step

\* Between its effect and its answer a request goes on, or fails.
LEMMA OnTheWay ==
  ASSUME StoreInv, NEW w \in Workers, NEW r, Becomes(w, r), UNCHANGED db, UNCHANGED stock,
         worker[w].pc \notin {"idle", "answer"}, r.pc # "idle", r.verdict # "refused",
         r.obj = worker[w].obj, r.op = worker[w].op
  PROVE  Mapped
<1>1. PICK q : q = worker[w]
  OBVIOUS
<1>2. RequestOK(q)
  BY <1>1 DEF StoreInv
<1>3. q.verdict # "refused" /\ ~Errs(q) /\ (q.obj # 0 => q.op \in Writers)
  BY <1>1, <1>2 DEF RequestOK, Errs
<1>4. CASE r.obj = 0
  <2>1. DealOf(r) = "open" /\ DealOf(q) = "open"
    BY <1>1, <1>3, <1>4, DealCases
  <2> QED
    BY <1>1, <2>1, StaysAt
<1>5. CASE r.obj # 0 /\ ~Errs(r)
  <2>1. DealOf(r) = DealOf(q)
    BY <1>1, <1>3, <1>5, DealCases
  <2> QED
    BY <1>1, <2>1, StaysAt
<1>6. CASE r.obj # 0 /\ Errs(r)
  <2>1. DealOf(r) = "spoiled" /\ DealOf(q) \in Promise!Effects
    BY <1>1, <1>3, <1>6, DealCases
  <2>2. Promise!Moves(w, Promise!Effects, "spoiled")
    BY <1>1, <2>1, MovesTo
  <2>3. Promise!Spoil(w)
    BY <2>2 DEF Promise!Spoil, Listed
  <2>4. "spoiled" \notin Promise!Effects
    BY DEF Promise!Effects
  <2> QED
    BY <2>2, <2>3, <2>4, StepMapped DEF Promise!Step
<1> QED
  BY <1>4, <1>5, <1>6

LEMMA HandMaps ==
  ASSUME StoreInv, NEW w \in Workers, NEW ref, Hand(w, ref), UNCHANGED tables, UNCHANGED stock,
         worker[w].pc \notin {"idle", "answer"}
  PROVE  Mapped
<1>1. PICK q \in Requests : q = worker[w]
  BY DEF StoreInv
<1>2. PICK r : r = [q EXCEPT !.pc = "handed", !.ref = ref]
  OBVIOUS
<1>3. r.pc = "handed" /\ r.obj = q.obj /\ r.op = q.op /\ r.verdict = q.verdict
  BY <1>2 DEF Requests
<1>4. q.verdict # "refused"
  BY <1>1 DEF StoreInv, RequestOK
<1>5. Becomes(w, r) /\ UNCHANGED db
  BY <1>1, <1>2 DEF Hand, tables
<1> QED
  BY <1>1, <1>3, <1>4, <1>5, OnTheWay

LEMMA VerdictMaps ==
  ASSUME StoreInv, NEW w \in Workers, NEW verdict, Verdict(w, verdict), UNCHANGED db, UNCHANGED stock,
         worker[w].pc \notin {"idle", "answer"}, verdict # "refused"
  PROVE  Mapped
<1>1. PICK q \in Requests : q = worker[w]
  BY DEF StoreInv
<1>2. PICK r : r = [q EXCEPT !.pc = "answer", !.verdict = verdict]
  OBVIOUS
<1>3. r.pc = "answer" /\ r.obj = q.obj /\ r.op = q.op /\ r.verdict = verdict
  BY <1>2 DEF Requests
<1>4. Becomes(w, r)
  BY <1>1, <1>2 DEF Verdict
<1> QED
  BY <1>1, <1>3, <1>4, OnTheWay

LEMMA StepOnTheWay ==
  ASSUME StoreInv, NEW w \in Workers, UNCHANGED stock,
         \/ UpdateDate(w) \/ LookUp(w) \/ GetEnd(w) \/ WalkFind(w) \/ WalkEnd(w) \/ WalkFail(w)
         \/ StatsAgain(w) \/ StatsSum(w) \/ StatsFail(w)
         \/ EncodeBegin(w) \/ EncodeEnd(w, Writable(w))
  PROVE  Mapped
<1>1. PICK q \in Requests : q = worker[w]
  BY DEF StoreInv
<1>2. RequestOK(q)
  BY <1>1 DEF StoreInv
<1>3. CASE UpdateDate(w)
  <2>1. q.pc = "date" /\ UNCHANGED db
    BY <1>1, <1>3 DEF UpdateDate, At
  <2>2. CASE Verdict(w, "failed")
    BY <1>1, <2>1, <2>2, VerdictMaps
  <2>3. CASE Becomes(w, [q EXCEPT !.pc = "look"])
    <3>1. PICK r : r = [q EXCEPT !.pc = "look"]
      OBVIOUS
    <3>2. r.pc = "look" /\ r.obj = q.obj /\ r.op = q.op /\ r.verdict = q.verdict
      BY <3>1 DEF Requests
    <3>3. q.verdict # "refused"
      BY <1>2, <2>1 DEF RequestOK
    <3> QED
      BY <1>1, <2>1, <2>3, <3>1, <3>2, <3>3, OnTheWay
  <2> QED
    BY <1>1, <1>3, <2>2, <2>3 DEF UpdateDate
<1>4. CASE LookUp(w)
  <2>1. q.pc = "look" /\ UNCHANGED tables /\ UNCHANGED db
    BY <1>1, <1>4 DEF LookUp, At, tables
  <2> QED
    BY <1>1, <1>4, <2>1, HandMaps, VerdictMaps DEF LookUp
<1>5. CASE GetEnd(w)
  <2>1. q.pc = "read" /\ UNCHANGED tables /\ UNCHANGED db
    BY <1>1, <1>5 DEF GetEnd, At, tables
  <2> QED
    BY <1>1, <1>5, <2>1, HandMaps, VerdictMaps DEF GetEnd
<1>6. CASE WalkFind(w)
  <2>1. q.pc = "walk" /\ UNCHANGED db
    BY <1>1, <1>6 DEF WalkFind, Walking, At, tables
  <2>2. PICK ref : Becomes(w, [q EXCEPT !.ref = ref])
    BY <1>1, <1>6 DEF WalkFind
  <2>3. PICK r : r = [q EXCEPT !.ref = ref]
    OBVIOUS
  <2>4. r.pc = "walk" /\ r.obj = q.obj /\ r.op = q.op /\ r.verdict = q.verdict
    BY <2>1, <2>3 DEF Requests
  <2>5. q.verdict # "refused"
    BY <1>2, <2>1 DEF RequestOK
  <2> QED
    BY <1>1, <2>1, <2>2, <2>3, <2>4, <2>5, OnTheWay
<1>7. CASE WalkEnd(w)
  <2>1. q.pc = "walk" /\ UNCHANGED tables
    BY <1>1, <1>7 DEF WalkEnd, Walking, At
  <2> QED
    BY <1>1, <1>7, <2>1, HandMaps DEF WalkEnd
<1>8. CASE WalkFail(w)
  <2>1. q.pc = "walk" /\ UNCHANGED db
    BY <1>1, <1>8 DEF WalkFail, At, tables
  <2> QED
    BY <1>1, <1>8, <2>1, VerdictMaps DEF WalkFail
<1>9. CASE StatsAgain(w)
  <2>1. q.pc = "again" /\ UNCHANGED db
    BY <1>1, <1>9 DEF StatsAgain, At, tables
  <2>2. CASE Verdict(w, "failed")
    BY <1>1, <2>1, <2>2, VerdictMaps
  <2>3. ASSUME NEW verdict \in {"ok", "overflow"},
               Becomes(w, [q EXCEPT !.pc = "sum", !.verdict = verdict])
        PROVE  Mapped
    <3>1. PICK r : r = [q EXCEPT !.pc = "sum", !.verdict = verdict]
      OBVIOUS
    <3>2. r.pc = "sum" /\ r.obj = q.obj /\ r.op = q.op /\ r.verdict = verdict
      BY <3>1 DEF Requests
    <3> QED
      BY <1>1, <2>1, <2>3, <3>1, <3>2, OnTheWay
  <2> QED
    BY <1>1, <1>9, <2>2, <2>3 DEF StatsAgain
<1>10. CASE StatsSum(w)
  <2>1. q.pc = "sum" /\ UNCHANGED db
    BY <1>1, <1>10 DEF StatsSum, At, tables
  <2>2. PICK size : Becomes(w, [q EXCEPT !.pc = "walk", !.size = size])
    BY <1>1, <1>10 DEF StatsSum
  <2>3. PICK r : r = [q EXCEPT !.pc = "walk", !.size = size]
    OBVIOUS
  <2>4. r.pc = "walk" /\ r.obj = q.obj /\ r.op = q.op /\ r.verdict = q.verdict
    BY <2>3 DEF Requests
  <2>5. q.verdict # "refused"
    BY <1>2, <2>1 DEF RequestOK
  <2> QED
    BY <1>1, <2>1, <2>2, <2>3, <2>4, <2>5, OnTheWay
<1>11. CASE EncodeBegin(w)
  <2>1. q.pc = "handed" /\ UNCHANGED db
    BY <1>1, <1>11 DEF EncodeBegin, At, tables
  <2>2. PICK r : Becomes(w, r) /\ \E keys : r = [q EXCEPT !.pc = "encoding", !.keys = keys]
    BY <1>1, <1>11 DEF EncodeBegin
  <2>3. r.pc # "idle" /\ r.obj = q.obj /\ r.op = q.op /\ r.verdict = q.verdict
    BY <2>2 DEF Requests
  <2>4. q.verdict # "refused"
    BY <1>2, <2>1 DEF RequestOK
  <2> QED
    BY <1>1, <2>1, <2>2, <2>3, <2>4, OnTheWay
<1>12. CASE EncodeEnd(w, Writable(w))
  <2>1. q.pc = "encoding" /\ UNCHANGED db
    BY <1>1, <1>12 DEF EncodeEnd, At, tables
  <2>2. q.verdict # "refused"
    BY <1>2, <2>1 DEF RequestOK
  <2>3. \E verdict \in {q.verdict, "failed", "overflow"} : Verdict(w, verdict)
    BY <1>1, <1>12 DEF EncodeEnd
  <2> QED
    BY <1>1, <2>1, <2>2, <2>3, VerdictMaps
<1>13. CASE StatsFail(w)
  <2>1. q.pc = "again" /\ UNCHANGED db /\ Verdict(w, "overflow")
    BY <1>1, <1>13 DEF StatsFail, At, tables
  <2> QED
    BY <1>1, <2>1, VerdictMaps
<1> QED
  BY <1>3, <1>4, <1>5, <1>6, <1>7, <1>8, <1>9, <1>10, <1>11, <1>12, <1>13

LEMMA RespondMaps ==
  ASSUME StoreInv, NEW w \in Workers, Respond(w), UNCHANGED stock PROVE Mapped
<1> DEFINE busy == {"open", "refused", "spoiled"} \cup Promise!Effects
<1>1. PICK q \in Requests : q = worker[w]
  BY DEF StoreInv
<1>2. q.pc = "answer" /\ (q.obj # 0 => q.op \in Writers)
  BY <1>1 DEF StoreInv, RequestOK, Respond, At
<1>3. DealOf(q) \in busy
  BY <1>2, DealCases
<1>7. "none" \notin busy
  BY DEF Promise!Effects
<1>4. Becomes(w, Rest) /\ DealOf(Rest) = "none" /\ UNCHANGED tables
  BY DEF Respond, Rest, DealOf
<1>5. Promise!Moves(w, busy, "none")
  BY <1>1, <1>3, <1>4, MovesTo
<1>6. Promise!Reply(w)
  BY <1>4, <1>5 DEF Promise!Reply, Listed, tables
<1> QED
  BY <1>5, <1>6, <1>7, StepMapped DEF Promise!Step

-----------------------------------------------------------------------------
LEMMA InitMaps == Init => Promise!Init
<1> SUFFICES ASSUME Init PROVE Promise!Init
  OBVIOUS
<1>1. db = [id \in 1..3 |-> id] /\ \A w \in Workers : worker[w] = Rest
  BY DEF Init, StoreInit
<1>2. Listed = 1..3
  BY <1>1 DEF Listed
<1>3. \A w \in Workers : Deal(w) = "none"
  BY <1>1 DEF Deal, At, Rest
<1>4. stock = <<10, 50, 25>>
  BY DEF Init
<1> QED
  BY <1>2, <1>3, <1>4 DEF Promise!Init

LEMMA StepMaps == ProductInv /\ [Next]_vars => [Promise!Next]_(Promise!vars)
<1> SUFFICES ASSUME ProductInv, [Next]_vars PROVE Mapped
  BY DEF Mapped, Promise!vars, deal
<1>1. StoreInv
  BY DEF ProductInv
<1>2. CASE UNCHANGED vars
  BY <1>2 DEF Mapped, vars, store, tables, Listed, deal, Deal, Erred, At
<1>3. ASSUME NEW w \in Workers, Create(w) PROVE Mapped
  BY <1>3, CreateMaps
<1>4. ASSUME NEW w \in Workers, NEW id \in Addressed, OnStock(w, id) PROVE Mapped
  <2>1. id \in Nat
    BY BoundsAssumption
  <2> QED
    BY <1>1, <1>4, <2>1, PurchaseMaps, InsufficientMaps, RestockMaps, UpdateMaps DEF OnStock
<1>5. ASSUME NEW w \in Workers, NEW id \in Addressed, OffStock(w, id), UNCHANGED stock PROVE Mapped
  <2>1. id \in Nat /\ "read" \in PCs /\ "get" \in Ops
    BY BoundsAssumption DEF PCs, Ops
  <2>2. CASE GetBegin(w, id)
    <3>1. Begun(Started("read", "get", id), "read", "get", id, 0, "ok")
      BY <2>1, StartedIsBegun
    <3> QED
      BY <1>1, <1>5, <2>2, <3>1, BegunOpens DEF GetBegin
  <2>3. CASE Delete(w, id)
    BY <1>1, <1>5, <2>1, <2>3, DeleteMaps
  <2>4. ASSUME NEW op \in {"put", "delete", "purchase", "restock"}, NotFound(w, op, id) PROVE Mapped
    <3>1. op \in Ops
      BY DEF Ops
    <3> QED
      BY <1>1, <1>5, <2>4, <3>1, NotFoundMaps
  <2> QED
    BY <1>5, <2>2, <2>3, <2>4 DEF OffStock
<1>6. ASSUME NEW w \in Workers, WalkBegin(w) \/ StatsBegin(w), UNCHANGED stock PROVE Mapped
  <2>1. "search" \in Walks /\ "stats" \in Walks
    BY DEF Walks
  <2> QED
    BY <1>1, <1>6, <2>1, WalkMaps DEF WalkBegin, StatsBegin
<1>7. ASSUME NEW w \in Workers, CreateRead(w), UNCHANGED stock PROVE Mapped
  BY <1>1, <1>7, CreateReadMaps
<1>8. ASSUME NEW w \in Workers, UNCHANGED stock,
             StatsAgain(w) \/ StatsSum(w) \/ StatsFail(w) \/ StoreGo(w, Writable(w))
      PROVE  Mapped
  BY <1>1, <1>8, StepOnTheWay, RespondMaps DEF StoreGo
<1>9. ASSUME NEW w \in Workers, ListBegin(w), UNCHANGED stock PROVE Mapped
  <2>1. PICK r : Begun(r, "walk", "search", 0, Size, "overflow") /\ Serve(w, r) /\ UNCHANGED tables
    BY <1>1, <1>9, BoundedListBegins
  <2> QED
    BY <1>1, <1>9, <2>1, BegunOpens
<1> QED
  BY <1>2, <1>3, <1>4, <1>5, <1>6, <1>7, <1>8, <1>9 DEF Next, Stats

\* The product service implements Shelf: whatever its threads do in between,
\* every request takes effect at most once and at one instant, and goods are
\* sold only from enough stock.
THEOREM ProductKeepsPromise == Spec => KeepsPromise
BY InitMaps, StepMaps, ProductInvHolds, PTL DEF Spec, KeepsPromise, Promise!Spec
=============================================================================
