--------------------------------- MODULE Store ---------------------------------
(***************************************************************************)
(* The store that user_service/server.py and product_service/server.py     *)
(* share line for line: a dictionary from ids to records and a counter,    *)
(* both without a lock, used by the "def" endpoints on the threads of a    *)
(* pool.  As in OrderService a step is what a handler does between two     *)
(* calls.                                                                  *)
(*                                                                         *)
(* A handler returns the record itself, not a copy: FastAPI encodes it     *)
(* later, on the event loop, while other threads may write to it.          *)
(***************************************************************************)
EXTENDS Naturals, Sequences, FiniteSets

CONSTANTS
  Workers,    \* threads of the pool
  Addressed,  \* the ids that requests name
  MaxId       \* bound: no record is created once the counter exceeds it

ASSUME BoundsAssumption == Addressed \subseteq Nat /\ MaxId \in Nat

VARIABLES
  id_counter, \* user_id_counter, product_id_counter
  db,         \* users_db, products_db: id -> record, records numbered as stored
  ids,        \* ids[o]: the field "id" of record o
  dated,      \* the records that have a key "updated_at"
  worker,     \* the request each thread serves
  calm        \* history: busy threads that no other request has disturbed

tables == <<id_counter, db, ids, dated>>
store  == <<tables, worker, calm>>

\* obj is the record a handler has changed, ref the one it answers with, keys
\* and size what an iteration over a record or over db began with.  A create
\* keeps in size, as history, how many records there were when it began.  A
\* request whose answer is bound to hold an infinite number has the verdict
\* "overflow" from then on.
Rest == [pc |-> "idle", op |-> "none", id |-> 0, obj |-> 0, ref |-> 0,
         keys |-> FALSE, size |-> 0, verdict |-> "ok"]

StoreInit ==
  /\ id_counter = 4
  /\ db = [id \in 1..3 |-> id]
  /\ ids = <<1, 2, 3>>
  /\ dated = {}
  /\ worker = [w \in Workers |-> Rest]
  /\ calm = {}

-----------------------------------------------------------------------------
At(w, pc)    == worker[w].pc = pc
Becomes(w, r) == worker' = [worker EXCEPT ![w] = r]

Has(id) == id \in DOMAIN db
Size    == Cardinality(DOMAIN db)
Listed  == {db[id] : id \in DOMAIN db}
Watched == {db[id] : id \in DOMAIN db \cap Addressed}

\* A thread starts to serve a request.
Serve(w, r) ==
  /\ At(w, "idle")
  /\ Becomes(w, r)
  /\ calm' = calm \cup {w}

Started(pc, op, id) == [Rest EXCEPT !.pc = pc, !.op = op, !.id = id]

Verdict(w, verdict) ==
  Becomes(w, [worker[w] EXCEPT !.pc = "answer", !.verdict = verdict])

Hand(w, ref) == Becomes(w, [worker[w] EXCEPT !.pc = "handed", !.ref = ref])

\* HTTPException before anything is changed.
Reject(w, op, verdict) ==
  /\ Serve(w, [Started("answer", op, 0) EXCEPT !.verdict = verdict])
  /\ UNCHANGED tables

NotFound(w, op, id) == ~Has(id) /\ Reject(w, op, "missing")

\* The change of a record disturbs requests that name its id or walk over db.
Walks         == {"search", "list", "stats"}
About(v, id)  == worker[v].op \in Walks \/ worker[v].id = id
Unmoved(id)   == {v \in calm : ~About(v, id)}
Disturb(w, id) == calm' = Unmoved(id) \cup (calm \cap {w})

-----------------------------------------------------------------------------
(***************************************************************************)
(* create_user, create_product.  The counter is read; str() and strftime() *)
(* are called; then the record is stored and the counter incremented.      *)
(***************************************************************************)
CreateRead(w) ==
  /\ id_counter <= MaxId
  /\ Serve(w, [Started("stamp", "create", id_counter) EXCEPT !.size = Len(ids)])
  /\ UNCHANGED tables

\* Mutant of CreateStore: the counter is set from the id read earlier.
CreateStoreFromId(w) ==
  LET id == worker[w].id
      o  == Len(ids) + 1
  IN /\ At(w, "stamp")
     /\ db' = [i \in DOMAIN db \cup {id} |-> IF i = id THEN o ELSE db[i]]
     /\ ids' = Append(ids, id)
     /\ id_counter' = id + 1
     /\ Becomes(w, [worker[w] EXCEPT !.pc = "look", !.obj = o])
     /\ Disturb(w, id)
     /\ UNCHANGED dated

CreateStore(w) ==
  LET id == worker[w].id
      o  == Len(ids) + 1
  IN /\ At(w, "stamp")
     /\ db' = [i \in DOMAIN db \cup {id} |-> IF i = id THEN o ELSE db[i]]
     /\ ids' = Append(ids, id)
     /\ id_counter' = id_counter + 1
     /\ Becomes(w, [worker[w] EXCEPT !.pc = "look", !.obj = o])
     /\ Disturb(w, id)
     /\ UNCHANGED dated

\* update_user, update_product: the fields are written without a call in
\* between; then strftime() is called.
UpdateFields(w, id) ==
  /\ Has(id)
  /\ Serve(w, [Started("date", "put", id) EXCEPT !.obj = db[id]])
  /\ UNCHANGED tables

\* The record is looked up again for "updated_at": KeyError if it was deleted.
UpdateDate(w) ==
  LET id == worker[w].id
  IN /\ At(w, "date")
     /\ \/ /\ Has(id)
           /\ dated' = dated \cup {db[id]}
           /\ IF db[id] \in dated THEN UNCHANGED calm ELSE Disturb(w, id)
           /\ Becomes(w, [worker[w] EXCEPT !.pc = "look"])
        \/ ~Has(id) /\ Verdict(w, "failed") /\ UNCHANGED <<dated, calm>>
     /\ UNCHANGED <<id_counter, db, ids>>

\* Mutant of LookUp: a create answers with the record of the last id given out.
LookUpNewest(w) ==
  LET id == IF worker[w].op = "create" THEN id_counter - 1 ELSE worker[w].id
  IN /\ At(w, "look")
     /\ IF Has(id) THEN Hand(w, db[id]) ELSE Verdict(w, "failed")
     /\ UNCHANGED <<tables, calm>>

\* After the log line the record is looked up once more, for the answer.
LookUp(w) ==
  /\ At(w, "look")
  /\ IF Has(worker[w].id) THEN Hand(w, db[worker[w].id]) ELSE Verdict(w, "failed")
  /\ UNCHANGED <<tables, calm>>

\* Mutant of Delete: the answer is looked up after the record was removed.
DeleteThenLook(w, id) ==
  /\ Has(id) /\ At(w, "idle")
  /\ db' = [i \in DOMAIN db \ {id} |-> db[i]]
  /\ Becomes(w, [Started("look", "delete", id) EXCEPT !.obj = db[id]])
  /\ calm' = Unmoved(id) \cup {w}
  /\ UNCHANGED <<id_counter, ids, dated>>

\* delete_user, delete_product: the test and pop(); the answer is what pop()
\* returned.
Delete(w, id) ==
  /\ Has(id) /\ At(w, "idle")
  /\ db' = [i \in DOMAIN db \ {id} |-> db[i]]
  /\ Becomes(w, [Started("handed", "delete", id) EXCEPT !.obj = db[id], !.ref = db[id]])
  /\ calm' = Unmoved(id) \cup {w}
  /\ UNCHANGED <<id_counter, ids, dated>>

\* get_user, get_product log first.
GetBegin(w, id) == Serve(w, Started("read", "get", id)) /\ UNCHANGED tables

GetEnd(w) ==
  /\ At(w, "read")
  /\ IF Has(worker[w].id) THEN Hand(w, db[worker[w].id]) ELSE Verdict(w, "missing")
  /\ UNCHANGED <<tables, calm>>

-----------------------------------------------------------------------------
(***************************************************************************)
(* search_users, search_products, list_products: Python compares the size  *)
(* of the dictionary at every turn of the loop and raises RuntimeError     *)
(* when it differs.  ref is a record it finds, of those requests name, or  *)
(* none.                                                                   *)
(***************************************************************************)
Walking(w) == At(w, "walk") /\ Size = worker[w].size

WalkBegin(w) ==
  /\ Serve(w, [Started("walk", "search", 0) EXCEPT !.size = Size])
  /\ UNCHANGED tables

WalkFind(w) ==
  /\ Walking(w) /\ worker[w].op # "stats" /\ worker[w].ref = 0
  /\ \E ref \in Watched : Becomes(w, [worker[w] EXCEPT !.ref = ref])
  /\ UNCHANGED <<tables, calm>>

WalkEnd(w) ==
  /\ Walking(w)
  /\ Hand(w, worker[w].ref)
  /\ UNCHANGED <<tables, calm>>

WalkFail(w) ==
  /\ At(w, "walk") /\ ~Walking(w)
  /\ Verdict(w, "failed")
  /\ UNCHANGED <<tables, calm>>

-----------------------------------------------------------------------------
(***************************************************************************)
(* The event loop encodes one answer at a time.  jsonable_encoder walks    *)
(* over the record's items: RuntimeError when a key is added meanwhile,    *)
(* which only the first "updated_at" of a record does.  json.dumps then    *)
(* raises ValueError if a number is infinite or NaN: not writable.         *)
(***************************************************************************)
EncodeBegin(w) ==
  /\ At(w, "handed")
  /\ \A v \in Workers : ~At(v, "encoding")
  /\ Becomes(w, [worker[w] EXCEPT !.pc = "encoding", !.keys = worker[w].ref \in dated])
  /\ UNCHANGED <<tables, calm>>

\* The record's numbers are read here, at the end of the walk: had they been
\* read earlier, the walk might as well have ended there.
EncodeEnd(w, writable) ==
  /\ At(w, "encoding")
  /\ Verdict(w, IF (worker[w].ref \in dated) # worker[w].keys THEN "failed"
                ELSE IF ~writable THEN "overflow" ELSE worker[w].verdict)
  /\ UNCHANGED <<tables, calm>>

Respond(w) ==
  /\ At(w, "answer")
  /\ Becomes(w, Rest)
  /\ calm' = calm \ {w}
  /\ UNCHANGED tables

\* What a thread, and then the loop, do once there is a request.
StoreGo(w, writable) ==
  \/ UpdateDate(w) \/ LookUp(w) \/ GetEnd(w) \/ WalkFind(w) \/ WalkEnd(w) \/ WalkFail(w)
  \/ EncodeBegin(w) \/ EncodeEnd(w, writable) \/ Respond(w)

-----------------------------------------------------------------------------
PCs      == {"idle", "stamp", "date", "look", "read", "walk", "again", "sum", "list",
             "handed", "encoding", "answer"}
Ops      == {"none", "create", "put", "delete", "get", "restock", "purchase"} \cup Walks
Verdicts == {"ok", "missing", "refused", "failed", "uneven", "overflow"}
Records  == 1..Len(ids)

\* Every variable has its type; a record number is that of a stored record,
\* which db keeps under the record's own id.
StoreTypeOK ==
  /\ ids \in Seq(Nat) /\ id_counter = Len(ids) + 1
  /\ DOMAIN db \subseteq Nat
  /\ \A id \in DOMAIN db : db[id] \in Records /\ ids[db[id]] = id
  /\ dated \subseteq Records
  /\ worker \in [Workers -> [pc : PCs, op : Ops, id : Nat, obj : Records \cup {0},
                             ref : Records \cup {0}, keys : BOOLEAN, size : Nat,
                             verdict : Verdicts]]
  /\ calm \subseteq Workers

\* A request is answered with HTTP 500, or with a total that is not the number
\* of records it lists, only when another request stored, deleted or for the
\* first time updated a record of the same id while this one was served (any
\* record, for a request that walks over all of them), or when a number of the
\* answer cannot be computed or written as JSON ("overflow": products only).  No
\* request stumbles over its own changes, and none over what others do to stocks
\* or, from the second time on, to fields, unless by such a number.
CalmRequestsSucceed ==
  \A w \in calm : At(w, "answer") => worker[w].verdict \notin {"failed", "uneven"}

Writers     == {"create", "put", "delete", "restock", "purchase"}
Shared(id)  == \E o, p \in Records : o # p /\ ids[o] = id /\ ids[p] = id

\* A request that changed a record answers with that record, whatever happened
\* between the change and the answer, unless two creates shared its id.
AnswersItsOwn ==
  \A w \in Workers :
    worker[w].op \in Writers /\ worker[w].ref # 0 =>
      worker[w].ref = worker[w].obj \/ Shared(worker[w].id)

\* A record that a create replaces was stored while that create was being
\* served: no record that existed before is ever lost to one.
ReplacedStep ==
  \A id \in DOMAIN db \cap DOMAIN db' :
    db'[id] # db[id] =>
      \E w \in Workers : At(w, "stamp") /\ worker[w].id = id /\ db[id] > worker[w].size

ReplacesOnlyNewer == [][ReplacedStep]_store
=============================================================================
