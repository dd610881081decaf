------------------------------ MODULE StoreProofs ------------------------------
(***************************************************************************)
(* The inductive invariant of Store, and that every action of Store keeps  *)
(* it.  UserProofs and ProductProofs draw the theorems from these lemmas.  *)
(***************************************************************************)
EXTENDS Store, SequenceTheorems, FiniteSetTheorems, TLAPS

-----------------------------------------------------------------------------
\* The tables: ids only ever handed out below the counter, a finite db whose
\* entries are records of their own id.
TablesOK ==
  /\ ids \in Seq(Nat) /\ id_counter = Len(ids) + 1
  /\ \A o \in Records : ids[o] < id_counter
  /\ DOMAIN db \subseteq Nat /\ IsFiniteSet(DOMAIN db)
  /\ \A id \in DOMAIN db : db[id] \in Records /\ ids[db[id]] = id
  /\ dated \subseteq Records

Requests == [pc : PCs, op : Ops, id : Nat, obj : Nat, ref : Nat, keys : BOOLEAN,
             size : Nat, verdict : Verdicts]

IsRecord(o, id) == o \in Records /\ ids[o] = id

\* A request under way: what it has changed and what it answers with are
\* records of its id; a create has read the counter when size records existed.
RequestOK(r) ==
  /\ r \in Requests
  /\ r.obj \in Records \cup {0} /\ r.ref \in Records \cup {0}
  /\ r.pc \in {"walk", "again", "sum", "list"} => r.op \in Walks
  /\ r.pc = "read" => r.op = "get"
  /\ r.pc \in {"stamp", "read", "walk", "again", "sum", "list"} => r.obj = 0
  /\ r.obj # 0 => r.op \in Writers
  /\ r.verdict \in {"refused", "failed"} => r.pc = "answer"
  /\ r.pc \in {"stamp", "date", "look"} => r.ref = 0
  /\ r.pc = "stamp" => r.op = "create" /\ r.id <= id_counter /\ r.size <= Len(ids)
  /\ r.pc = "stamp" => \A o \in Records : ids[o] = r.id => o > r.size
  /\ r.pc \in {"date", "look"} => IsRecord(r.obj, r.id)
  /\ r.ref # 0 /\ r.op \notin Walks => ids[r.ref] = r.id
  /\ r.op \in Writers /\ r.ref # 0 => r.ref = r.obj \/ Shared(r.id)

\* An undisturbed request: nothing has failed, what it looks for is there, and
\* what it walks over has not changed.
CalmOK(r) ==
  /\ r.verdict \notin {"failed", "uneven"}
  /\ r.pc \in {"date", "look"} => Has(r.id)
  /\ r.pc \in {"walk", "again", "list"} => r.size = Size
  /\ r.pc = "encoding" => (r.keys <=> r.ref \in dated)

StoreInv ==
  /\ TablesOK
  /\ worker \in [Workers -> Requests]
  /\ \A w \in Workers : RequestOK(worker[w])
  /\ calm \subseteq Workers
  /\ \A w \in calm : CalmOK(worker[w])

-----------------------------------------------------------------------------
LEMMA SizeIsNat == TablesOK => Size \in Nat
BY FS_CardinalityType DEF TablesOK, Size

LEMMA StoreInvInit == StoreInit => StoreInv
<1> SUFFICES ASSUME StoreInit PROVE StoreInv
  OBVIOUS
<1>1. IsFiniteSet(DOMAIN db)
  <2>1. DOMAIN db = 1..3
    BY DEF StoreInit
  <2>2. ASSUME NEW n \in Int PROVE IsFiniteSet(1..n)
    BY FS_Interval
  <2>3. 3 \in Int
    OBVIOUS
  <2> QED
    BY <2>1, <2>2, <2>3, Zenon
<1>2. ids \in Seq(Nat) /\ Len(ids) = 3 /\ \A o \in 1..3 : ids[o] = o
  BY DEF StoreInit
<1>3. TablesOK
  BY <1>1, <1>2 DEF StoreInit, TablesOK, Records
<1>4. Rest \in Requests
  BY DEF Rest, Requests, PCs, Ops, Verdicts, Walks
<1>5. RequestOK(Rest)
  BY <1>4 DEF Rest, RequestOK, Walks, Writers
<1>6. \A w \in Workers : worker[w] = Rest
  BY DEF StoreInit
<1> QED
  BY <1>3, <1>4, <1>5, <1>6 DEF StoreInit, StoreInv

-----------------------------------------------------------------------------
\* A step of one request that leaves the tables alone.
LEMMA QuietStep ==
  ASSUME StoreInv, NEW w \in Workers, NEW r,
         UNCHANGED tables, Becomes(w, r), RequestOK(r),
         calm' \subseteq calm \cup {w}, w \in calm' => CalmOK(r)
  PROVE  StoreInv'
<1>1. TablesOK'
  BY DEF StoreInv, TablesOK, Records, tables
<1>2. worker' = [worker EXCEPT ![w] = r] /\ r \in Requests
  BY DEF Becomes, RequestOK
<1>3. worker' \in [Workers -> Requests]
  BY <1>2 DEF StoreInv
<1>4. \A v \in Workers : worker'[v] = IF v = w THEN r ELSE worker[v]
  BY <1>2 DEF StoreInv
<1>5. ASSUME NEW v \in Workers PROVE RequestOK(worker[v])'
  <2>1. PICK q : q = IF v = w THEN r ELSE worker[v]
    OBVIOUS
  <2>2. RequestOK(q)
    BY <2>1 DEF StoreInv
  <2>3. RequestOK(q)'
    BY <2>2 DEF RequestOK, Records, IsRecord, Shared, tables
  <2>4. worker'[v] = q
    BY <1>4, <2>1
  <2> QED
    BY <2>3, <2>4 DEF RequestOK
<1>6. calm' \subseteq Workers
  BY DEF StoreInv
<1>7. ASSUME NEW v \in calm' PROVE CalmOK(worker[v])'
  <2>1. CalmOK(IF v = w THEN r ELSE worker[v])
    BY DEF StoreInv
  <2>2. worker'[v] = IF v = w THEN r ELSE worker[v]
    BY <1>4, <1>6
  <2> QED
    BY <2>1, <2>2 DEF CalmOK, Has, Size, tables
<1> QED
  BY <1>1, <1>3, <1>5, <1>6, <1>7 DEF StoreInv

-----------------------------------------------------------------------------
\* The tables change as CreateStore, UpdateDate and Delete change them: records
\* are never taken away from ids.
Grows ==
  /\ Len(ids) <= Len(ids') /\ id_counter <= id_counter'
  /\ \A o \in Records : o \in Records' /\ ids'[o] = ids[o]
  /\ \A o \in Records' : o \notin Records => o > Len(ids)

LEMMA RequestStaysOK ==
  ASSUME StoreInv, TablesOK', Grows, NEW q, RequestOK(q)
  PROVE  RequestOK(q)'
<1>1. q \in Requests /\ Len(ids) \in Nat /\ Len(ids') \in Nat
  BY DEF StoreInv, TablesOK, RequestOK
<1>2. id_counter \in Nat /\ id_counter' \in Nat
  BY <1>1 DEF StoreInv, TablesOK
<1>3. q.obj \in Records' \cup {0} /\ q.ref \in Records' \cup {0}
  BY DEF RequestOK, Grows
<1>4. q.pc = "stamp" => q.id <= id_counter' /\ q.size <= Len(ids')
  BY <1>1, <1>2 DEF RequestOK, Grows, Requests
<1>5. q.pc = "stamp" => \A o \in Records' : ids'[o] = q.id => o > q.size
  <2> SUFFICES ASSUME q.pc = "stamp", NEW o \in Records', ids'[o] = q.id
               PROVE  o > q.size
    OBVIOUS
  <2>1. CASE o \in Records
    BY <2>1 DEF RequestOK, Grows
  <2>2. CASE o \notin Records
    BY <2>2, <1>1 DEF RequestOK, Grows, Requests, Records
  <2> QED
    BY <2>1, <2>2
<1>6. q.pc \in {"date", "look"} => IsRecord(q.obj, q.id)'
  BY DEF RequestOK, Grows, IsRecord
<1>7. q.ref # 0 /\ q.op \notin Walks => ids'[q.ref] = q.id
  BY DEF RequestOK, Grows
<1>8. Shared(q.id) => Shared(q.id)'
  BY DEF Shared, Grows
<1> QED
  BY <1>1, <1>3, <1>4, <1>5, <1>6, <1>7, <1>8 DEF RequestOK

\* A step of one request that changes the tables.
LEMMA TableStep ==
  ASSUME StoreInv, TablesOK', Grows, NEW w \in Workers, NEW r,
         Becomes(w, r), RequestOK(r)',
         calm' \subseteq calm \cup {w}, w \in calm' => CalmOK(r)',
         \A v \in calm' : \A q : v # w /\ q = worker[v] => CalmOK(q)'
  PROVE  StoreInv'
<1>1. worker' = [worker EXCEPT ![w] = r] /\ r \in Requests
  BY DEF Becomes, RequestOK
<1>2. worker' \in [Workers -> Requests]
  BY <1>1 DEF StoreInv
<1>3. \A v \in Workers : worker'[v] = IF v = w THEN r ELSE worker[v]
  BY <1>1 DEF StoreInv
<1>4. ASSUME NEW v \in Workers PROVE RequestOK(worker[v])'
  <2> DEFINE q == IF v = w THEN r ELSE worker[v]
  <2>1. CASE v = w
    <3>1. worker'[v] = r
      BY <1>3, <2>1
    <3> QED
      BY <3>1 DEF RequestOK
  <2>2. CASE v # w
    <3>1. PICK p : p = worker[v]
      OBVIOUS
    <3>2. RequestOK(p)
      BY <3>1 DEF StoreInv
    <3>3. RequestOK(p)'
      BY <3>2, RequestStaysOK
    <3>4. worker'[v] = p
      BY <3>1, <1>3, <2>2
    <3> QED
      BY <3>3, <3>4 DEF RequestOK
  <2> QED
    BY <2>1, <2>2
<1>5. calm' \subseteq Workers
  BY DEF StoreInv
<1>6. ASSUME NEW v \in calm' PROVE CalmOK(worker[v])'
  <2>1. v \in Workers
    BY <1>5
  <2>2. CASE v = w
    <3>1. worker'[v] = r /\ CalmOK(r)'
      BY <1>3, <2>1, <2>2
    <3> QED
      BY <3>1 DEF CalmOK
  <2>3. CASE v # w
    <3>1. PICK p : p = worker[v]
      OBVIOUS
    <3>2. CalmOK(p)'
      BY <3>1, <2>3
    <3>3. worker'[v] = p
      BY <3>1, <1>3, <2>1, <2>3
    <3> QED
      BY <3>2, <3>3 DEF CalmOK
  <2> QED
    BY <2>2, <2>3
<1> QED
  BY <1>2, <1>4, <1>5, <1>6 DEF StoreInv

-----------------------------------------------------------------------------
(***************************************************************************)
(* The actions that leave the tables alone.                                *)
(***************************************************************************)
LEMMA RestOK == StoreInv => RequestOK(Rest)
<1>1. Rest \in Requests
  BY DEF Rest, Requests, PCs, Ops, Verdicts, Walks
<1> QED
  BY <1>1 DEF Rest, RequestOK, Walks, Writers

\* A request that has only begun, or is answered without having done anything.
Begun(r, pc, op, id, size, verdict) ==
  /\ r \in Requests
  /\ r.pc = pc /\ r.op = op /\ r.id = id /\ r.obj = 0 /\ r.ref = 0
  /\ r.size = size /\ r.verdict = verdict

LEMMA StartedIsBegun ==
  ASSUME NEW pc \in PCs, NEW op \in Ops, NEW id \in Nat
  PROVE  Begun(Started(pc, op, id), pc, op, id, 0, "ok")
<1>1. Rest \in Requests
  BY DEF Rest, Requests, PCs, Ops, Verdicts, Walks
<1>2. Rest.obj = 0 /\ Rest.ref = 0 /\ Rest.size = 0 /\ Rest.verdict = "ok"
  BY DEF Rest
<1>3. PICK q \in Requests : q = Rest
  BY <1>1
<1>4. Started(pc, op, id) = [q EXCEPT !.pc = pc, !.op = op, !.id = id]
  BY <1>3 DEF Started
<1>5. Begun([q EXCEPT !.pc = pc, !.op = op, !.id = id], pc, op, id, 0, "ok")
  BY <1>2, <1>3 DEF Begun, Requests
<1> QED
  BY <1>4, <1>5

LEMMA SizedIsBegun ==
  ASSUME NEW q, NEW pc, NEW op, NEW id, NEW size \in Nat, Begun(q, pc, op, id, 0, "ok")
  PROVE  Begun([q EXCEPT !.size = size], pc, op, id, size, "ok")
BY DEF Begun, Requests

LEMMA DecidedIsBegun ==
  ASSUME NEW q, NEW pc, NEW op, NEW id, NEW verdict \in Verdicts, Begun(q, pc, op, id, 0, "ok")
  PROVE  Begun([q EXCEPT !.verdict = verdict], pc, op, id, 0, verdict)
BY DEF Begun, Requests

LEMMA ServeStep ==
  ASSUME StoreInv, NEW w \in Workers, NEW r, Serve(w, r), UNCHANGED tables,
         RequestOK(r), CalmOK(r)
  PROVE  StoreInv'
BY QuietStep DEF Serve

LEMMA BegunStep ==
  ASSUME StoreInv, NEW w \in Workers, NEW r,
         NEW pc \in {"answer", "read", "walk", "list", "again"},
         NEW op, NEW id, NEW size, NEW verdict, Begun(r, pc, op, id, size, verdict),
         pc \in {"walk", "again", "list"} => op \in Walks /\ size = Size,
         pc = "read" => op = "get", verdict \in {"refused", "failed"} => pc = "answer",
         verdict \notin {"failed", "uneven"},
         Serve(w, r), UNCHANGED tables
  PROVE  StoreInv'
<1>1. RequestOK(r)
  BY DEF Begun, RequestOK
<1>2. CalmOK(r)
  BY DEF Begun, CalmOK
<1> QED
  BY <1>1, <1>2, ServeStep

LEMMA RejectStep ==
  ASSUME StoreInv, NEW w \in Workers, NEW op \in Ops, NEW verdict \in {"missing", "refused"},
         Reject(w, op, verdict)
  PROVE  StoreInv'
<1>1. "answer" \in PCs /\ 0 \in Nat /\ verdict \in Verdicts /\ verdict \notin {"failed", "uneven"}
  BY DEF PCs, Verdicts
<1>2. PICK q : q = Started("answer", op, 0)
  OBVIOUS
<1>3. Begun([q EXCEPT !.verdict = verdict], "answer", op, 0, 0, verdict)
  BY <1>1, <1>2, StartedIsBegun, DecidedIsBegun
<1>4. Serve(w, [q EXCEPT !.verdict = verdict]) /\ UNCHANGED tables
  BY <1>2 DEF Reject
<1> QED
  BY <1>1, <1>3, <1>4, BegunStep

LEMMA CreateReadStep ==
  ASSUME StoreInv, NEW w \in Workers, CreateRead(w) PROVE StoreInv'
<1>1. id_counter \in Nat /\ Len(ids) \in Nat /\ "stamp" \in PCs /\ "create" \in Ops
  BY DEF StoreInv, TablesOK, PCs, Ops
<1>2. \A o \in Records : ids[o] \in Nat /\ ids[o] < id_counter
  BY DEF StoreInv, TablesOK, Records
<1>3. PICK q : q = Started("stamp", "create", id_counter)
  OBVIOUS
<1>4. PICK r : r = [q EXCEPT !.size = Len(ids)]
  OBVIOUS
<1>5. Begun(r, "stamp", "create", id_counter, Len(ids), "ok")
  BY <1>1, <1>3, <1>4, StartedIsBegun, SizedIsBegun
<1>6. Serve(w, r) /\ UNCHANGED tables
  BY <1>3, <1>4 DEF CreateRead
<1>7. RequestOK(r)
  BY <1>1, <1>2, <1>5 DEF Begun, RequestOK
<1>8. CalmOK(r)
  BY <1>5 DEF Begun, CalmOK
<1> QED
  BY <1>6, <1>7, <1>8, ServeStep

\* A request that begins with the record of its id in hand.
Taken(r, pc, op, id, verdict) ==
  /\ r \in Requests
  /\ r.pc = pc /\ r.op = op /\ r.id = id /\ r.obj = db[id] /\ r.ref = 0
  /\ r.verdict = verdict

LEMMA TakenIs ==
  ASSUME StoreInv, NEW pc \in PCs, NEW op \in Ops, NEW id \in Nat, NEW verdict \in Verdicts, Has(id)
  PROVE  /\ Taken([Started(pc, op, id) EXCEPT !.obj = db[id], !.verdict = verdict],
                  pc, op, id, verdict)
         /\ Taken([Started(pc, op, id) EXCEPT !.obj = db[id]], pc, op, id, "ok")
<1>1. db[id] \in Nat
  BY DEF StoreInv, TablesOK, Has, Records
<1>2. PICK q : q = Started(pc, op, id)
  OBVIOUS
<1>3. Begun(q, pc, op, id, 0, "ok")
  BY <1>2, StartedIsBegun
<1>4. PICK o \in Nat : o = db[id]
  BY <1>1
<1>5. Taken([q EXCEPT !.obj = o, !.verdict = verdict], pc, op, id, verdict)
  BY <1>3, <1>4 DEF Begun, Taken, Requests
<1>6. Taken([q EXCEPT !.obj = o], pc, op, id, "ok")
  BY <1>3, <1>4 DEF Begun, Taken, Requests
<1> QED
  BY <1>2, <1>4, <1>5, <1>6

LEMMA TakenIsOK ==
  ASSUME StoreInv, NEW op \in Writers, NEW id \in Nat, NEW pc \in {"date", "look", "answer"},
         NEW verdict \in {"ok", "overflow"}, Has(id),
         NEW r, Taken(r, pc, op, id, verdict)
  PROVE  RequestOK(r) /\ CalmOK(r)
<1>1. IsRecord(db[id], id) /\ db[id] \in Nat
  BY DEF StoreInv, TablesOK, IsRecord, Has, Records
<1>2. PICK o \in Nat : o = db[id] /\ IsRecord(o, id)
  BY <1>1
<1>3. r \in Requests /\ r.pc = pc /\ r.op = op /\ r.id = id /\ r.obj = o
      /\ r.ref = 0 /\ r.verdict = verdict
  BY <1>2 DEF Taken
<1>4. RequestOK(r)
  BY <1>2, <1>3 DEF RequestOK, IsRecord
<1>5. CalmOK(r)
  BY <1>3 DEF CalmOK, Has
<1> QED
  BY <1>4, <1>5

LEMMA UpdateFieldsStep ==
  ASSUME StoreInv, NEW w \in Workers, NEW id \in Nat, UpdateFields(w, id) PROVE StoreInv'
<1>1. "put" \in Writers /\ "put" \in Ops /\ "date" \in PCs /\ "ok" \in Verdicts
  BY DEF Writers, Ops, PCs, Verdicts
<1>2. PICK r : r = [Started("date", "put", id) EXCEPT !.obj = db[id]]
  OBVIOUS
<1>3. Serve(w, r) /\ UNCHANGED tables /\ Has(id)
  BY <1>2 DEF UpdateFields
<1>4. Taken(r, "date", "put", id, "ok")
  BY <1>1, <1>2, <1>3, TakenIs
<1>5. RequestOK(r) /\ CalmOK(r)
  BY <1>1, <1>3, <1>4, TakenIsOK
<1> QED
  BY <1>3, <1>5, ServeStep

LEMMA GetBeginStep ==
  ASSUME StoreInv, NEW w \in Workers, NEW id \in Nat, GetBegin(w, id) PROVE StoreInv'
<1>1. "read" \in PCs /\ "get" \in Ops
  BY DEF PCs, Ops
<1>2. Begun(Started("read", "get", id), "read", "get", id, 0, "ok")
  BY <1>1, StartedIsBegun
<1> QED
  BY <1>2, BegunStep DEF GetBegin

\* search, list, and the first walk of get_stats.
LEMMA WalkStep ==
  ASSUME StoreInv, NEW w \in Workers, NEW pc \in {"walk", "list", "again"}, NEW op \in Walks,
         Serve(w, [Started(pc, op, 0) EXCEPT !.size = Size]), UNCHANGED tables
  PROVE  StoreInv'
<1>1. Size \in Nat /\ op \in Ops /\ pc \in PCs /\ 0 \in Nat
  BY SizeIsNat DEF StoreInv, Ops, PCs
<1>2. PICK q : q = Started(pc, op, 0)
  OBVIOUS
<1>3. Begun([q EXCEPT !.size = Size], pc, op, 0, Size, "ok")
  BY <1>1, <1>2, StartedIsBegun, SizedIsBegun
<1>4. Serve(w, [q EXCEPT !.size = Size])
  BY <1>2
<1> QED
  BY <1>3, <1>4, BegunStep

LEMMA WalkBeginStep ==
  ASSUME StoreInv, NEW w \in Workers, WalkBegin(w) PROVE StoreInv'
<1>1. "search" \in Walks
  BY DEF Walks
<1> QED
  BY <1>1, WalkStep DEF WalkBegin

-----------------------------------------------------------------------------
(***************************************************************************)
(* What a request under way does without changing the tables.              *)
(***************************************************************************)
LEMMA HandOK ==
  ASSUME StoreInv, NEW w \in Workers, NEW ref \in Records \cup {0}, Hand(w, ref),
         worker[w].pc # "answer",
         ref # 0 /\ worker[w].op \notin Walks => ids[ref] = worker[w].id,
         worker[w].op \in Writers /\ ref # 0 => ref = worker[w].obj \/ Shared(worker[w].id),
         UNCHANGED tables, UNCHANGED calm
  PROVE  StoreInv'
<1>1. PICK q : q = worker[w]
  OBVIOUS
<1>2. q \in Requests /\ RequestOK(q) /\ (w \in calm => CalmOK(q)) /\ ref \in Nat /\ "handed" \in PCs
  BY <1>1 DEF StoreInv, Records, PCs
<1>3. PICK r : r = [q EXCEPT !.pc = "handed", !.ref = ref]
  OBVIOUS
<1>4. r \in Requests /\ r.pc = "handed" /\ r.ref = ref /\ r.op = q.op /\ r.id = q.id
      /\ r.obj = q.obj /\ r.verdict = q.verdict
  BY <1>2, <1>3 DEF Requests
<1>5. RequestOK(r)
  BY <1>1, <1>2, <1>4 DEF RequestOK
<1>6. w \in calm => CalmOK(r)
  BY <1>2, <1>4 DEF CalmOK
<1>7. Becomes(w, r)
  BY <1>1, <1>3 DEF Hand
<1> QED
  BY <1>5, <1>6, <1>7, QuietStep

LEMMA VerdictOK ==
  ASSUME StoreInv, NEW w \in Workers, NEW verdict \in Verdicts, Verdict(w, verdict),
         w \in calm => verdict \notin {"failed", "uneven"},
         UNCHANGED tables, UNCHANGED calm
  PROVE  StoreInv'
<1>1. PICK q : q = worker[w]
  OBVIOUS
<1>2. q \in Requests /\ RequestOK(q) /\ "answer" \in PCs
  BY <1>1 DEF StoreInv, PCs
<1>3. PICK r : r = [q EXCEPT !.pc = "answer", !.verdict = verdict]
  OBVIOUS
<1>4. r \in Requests /\ r.pc = "answer" /\ r.ref = q.ref /\ r.op = q.op /\ r.id = q.id
      /\ r.obj = q.obj /\ r.verdict = verdict
  BY <1>2, <1>3 DEF Requests
<1>5. RequestOK(r)
  BY <1>2, <1>4 DEF RequestOK
<1>6. w \in calm => CalmOK(r)
  BY <1>4 DEF CalmOK
<1>7. Becomes(w, r)
  BY <1>1, <1>3 DEF Verdict
<1> QED
  BY <1>5, <1>6, <1>7, QuietStep

\* What is found under an id.
LEMMA FoundOK ==
  ASSUME StoreInv, NEW id, Has(id) PROVE db[id] \in Records /\ ids[db[id]] = id
BY DEF StoreInv, TablesOK, Has

LEMMA LookUpStep ==
  ASSUME StoreInv, NEW w \in Workers, LookUp(w) PROVE StoreInv'
<1> DEFINE id == worker[w].id
<1>1. UNCHANGED tables /\ UNCHANGED calm /\ worker[w].pc = "look"
  BY DEF LookUp, At
<1>2. RequestOK(worker[w]) /\ (w \in calm => CalmOK(worker[w]))
  BY DEF StoreInv
<1>3. CASE Has(id)
  <2>1. db[id] \in Records /\ ids[db[id]] = id
    BY <1>3, FoundOK
  <2>2. worker[w].obj \in Records /\ ids[worker[w].obj] = id
    BY <1>1, <1>2 DEF RequestOK, IsRecord
  <2>3. db[id] = worker[w].obj \/ Shared(id)
    BY <2>1, <2>2 DEF Shared
  <2>4. Hand(w, db[id])
    BY <1>3 DEF LookUp
  <2> QED
    BY <1>1, <2>1, <2>3, <2>4, HandOK
<1>4. CASE ~Has(id)
  <2>1. Verdict(w, "failed") /\ "failed" \in Verdicts
    BY <1>4 DEF LookUp, Verdicts
  <2>2. w \notin calm
    BY <1>1, <1>2, <1>4 DEF CalmOK
  <2> QED
    BY <1>1, <2>1, <2>2, VerdictOK
<1> QED
  BY <1>3, <1>4

LEMMA GetEndStep ==
  ASSUME StoreInv, NEW w \in Workers, GetEnd(w) PROVE StoreInv'
<1> DEFINE id == worker[w].id
<1>0. worker[w].op \notin Writers
  BY DEF GetEnd, At, StoreInv, RequestOK, Writers
<1>1. UNCHANGED tables /\ UNCHANGED calm /\ worker[w].pc # "answer"
  BY DEF GetEnd, At
<1>2. CASE Has(id)
  <2>1. db[id] \in Records /\ ids[db[id]] = id
    BY <1>2, FoundOK
  <2>2. Hand(w, db[id])
    BY <1>2 DEF GetEnd
  <2> QED
    BY <1>0, <1>1, <2>1, <2>2, HandOK
<1>3. CASE ~Has(id)
  <2>1. Verdict(w, "missing") /\ "missing" \in Verdicts
    BY <1>3 DEF GetEnd, Verdicts
  <2> QED
    BY <1>1, <2>1, VerdictOK
<1> QED
  BY <1>2, <1>3

LEMMA WalkFindStep ==
  ASSUME StoreInv, NEW w \in Workers, WalkFind(w) PROVE StoreInv'
<1>1. PICK q : q = worker[w]
  OBVIOUS
<1>2. q \in Requests /\ RequestOK(q) /\ (w \in calm => CalmOK(q)) /\ q.pc = "walk"
  BY <1>1 DEF StoreInv, WalkFind, Walking, At
<1>3. PICK ref \in Watched : Becomes(w, [q EXCEPT !.ref = ref])
  BY <1>1 DEF WalkFind
<1>4. ref \in Records /\ ref \in Nat
  BY DEF Watched, StoreInv, TablesOK, Records
<1>5. PICK r : r = [q EXCEPT !.ref = ref]
  OBVIOUS
<1>6. r \in Requests /\ r.pc = q.pc /\ r.ref = ref /\ r.op = q.op /\ r.id = q.id
      /\ r.obj = q.obj /\ r.verdict = q.verdict /\ r.size = q.size
  BY <1>2, <1>4, <1>5 DEF Requests
<1>7. q.op \in Walks /\ q.op \notin Writers
  BY <1>2 DEF RequestOK, Walks, Writers
<1>8. RequestOK(r)
  BY <1>2, <1>4, <1>6, <1>7 DEF RequestOK
<1>9. w \in calm => CalmOK(r)
  BY <1>2, <1>6 DEF CalmOK
<1>10. UNCHANGED tables /\ UNCHANGED calm
  BY DEF WalkFind
<1> QED
  BY <1>3, <1>5, <1>8, <1>9, <1>10, QuietStep

LEMMA WalkEndStep ==
  ASSUME StoreInv, NEW w \in Workers, WalkEnd(w) PROVE StoreInv'
<1>1. worker[w].pc = "walk" /\ Hand(w, worker[w].ref) /\ UNCHANGED tables /\ UNCHANGED calm
  BY DEF WalkEnd, Walking, At
<1>2. RequestOK(worker[w])
  BY DEF StoreInv
<1>3. worker[w].op \in Walks /\ worker[w].op \notin Writers /\ worker[w].ref \in Records \cup {0}
  BY <1>1, <1>2 DEF RequestOK, Walks, Writers
<1> QED
  BY <1>1, <1>3, HandOK

LEMMA WalkFailStep ==
  ASSUME StoreInv, NEW w \in Workers, WalkFail(w) PROVE StoreInv'
<1>1. worker[w].pc = "walk" /\ worker[w].size # Size /\ Verdict(w, "failed")
      /\ UNCHANGED tables /\ UNCHANGED calm /\ "failed" \in Verdicts
  BY DEF WalkFail, Walking, At, Verdicts
<1>2. w \notin calm
  BY <1>1 DEF StoreInv, CalmOK
<1> QED
  BY <1>1, <1>2, VerdictOK

LEMMA EncodeBeginStep ==
  ASSUME StoreInv, NEW w \in Workers, EncodeBegin(w) PROVE StoreInv'
<1>1. PICK q : q = worker[w]
  OBVIOUS
<1>2. q \in Requests /\ RequestOK(q) /\ (w \in calm => CalmOK(q)) /\ (q.ref \in dated) \in BOOLEAN
      /\ q.pc = "handed"
  BY <1>1 DEF StoreInv, EncodeBegin, At
<1>3. PICK keys \in BOOLEAN : keys = (q.ref \in dated)
  BY <1>2
<1>4. PICK r : r = [q EXCEPT !.pc = "encoding", !.keys = keys]
  OBVIOUS
<1>5. "encoding" \in PCs
  BY DEF PCs
<1>6. r \in Requests /\ r.pc = "encoding" /\ r.keys = keys /\ r.ref = q.ref /\ r.op = q.op
      /\ r.id = q.id /\ r.obj = q.obj /\ r.verdict = q.verdict
  BY <1>2, <1>4, <1>5 DEF Requests
<1>7. RequestOK(r)
  BY <1>2, <1>6 DEF RequestOK
<1>8. w \in calm => CalmOK(r)
  BY <1>2, <1>3, <1>6 DEF CalmOK
<1>9. Becomes(w, r) /\ UNCHANGED tables /\ UNCHANGED calm
  BY <1>1, <1>3, <1>4 DEF EncodeBegin
<1> QED
  BY <1>7, <1>8, <1>9, QuietStep

LEMMA EncodeEndStep ==
  ASSUME StoreInv, NEW w \in Workers, NEW writable, EncodeEnd(w, writable) PROVE StoreInv'
<1>1. worker[w] \in Requests /\ (w \in calm => CalmOK(worker[w]))
  BY DEF StoreInv
<1>2. worker[w].pc = "encoding" /\ UNCHANGED tables /\ UNCHANGED calm
  BY DEF EncodeEnd, At
<1>3. PICK verdict : /\ Verdict(w, verdict)
                     /\ verdict = IF (worker[w].ref \in dated) # worker[w].keys THEN "failed"
                                  ELSE IF ~writable THEN "overflow" ELSE worker[w].verdict
  BY DEF EncodeEnd
<1>4. verdict \in Verdicts
  BY <1>1, <1>3 DEF Requests, Verdicts
<1>5. w \in calm => verdict \notin {"failed", "uneven"}
  <2> SUFFICES ASSUME w \in calm PROVE verdict \notin {"failed", "uneven"}
    OBVIOUS
  <2>1. (worker[w].ref \in dated) = worker[w].keys
    <3>1. worker[w].keys \in BOOLEAN
      BY <1>1 DEF Requests
    <3> QED
      BY <1>1, <1>2, <3>1 DEF CalmOK
  <2>2. verdict = "overflow" \/ verdict = worker[w].verdict
    BY <1>3, <2>1
  <2> QED
    BY <1>1, <2>2 DEF CalmOK
<1> QED
  BY <1>2, <1>3, <1>4, <1>5, VerdictOK

LEMMA RespondStep ==
  ASSUME StoreInv, NEW w \in Workers, Respond(w) PROVE StoreInv'
<1>1. RequestOK(Rest)
  BY RestOK
<1>2. Becomes(w, Rest) /\ UNCHANGED tables /\ calm' = calm \ {w}
  BY DEF Respond
<1>3. calm' \subseteq calm \cup {w} /\ w \notin calm'
  BY <1>2
<1> QED
  BY <1>1, <1>2, <1>3, QuietStep

-----------------------------------------------------------------------------
(***************************************************************************)
(* The actions that change the tables.                                     *)
(***************************************************************************)
LEMMA CreateStoreTables ==
  ASSUME StoreInv, NEW w \in Workers, CreateStore(w)
  PROVE  /\ TablesOK' /\ Grows
         /\ Len(ids)+1 \in Records' /\ ids'[Len(ids)+1] = worker[w].id
<1>1. PICK q \in Requests : q = worker[w]
  BY DEF StoreInv
<1>2. q.id \in Nat /\ q.id <= id_counter
  BY <1>1 DEF StoreInv, RequestOK, Requests, CreateStore, At
<1>3. PICK n \in Nat : n = Len(ids)
  BY DEF StoreInv, TablesOK
<1>4. ids \in Seq(Nat) /\ id_counter = n + 1 /\ \A o \in 1..n : ids[o] \in Nat /\ ids[o] < id_counter
  BY <1>3 DEF StoreInv, TablesOK, Records
<1>5. ids' = Append(ids, q.id) /\ id_counter' = id_counter + 1 /\ UNCHANGED dated
  BY <1>1 DEF CreateStore
<1>6. ids' \in Seq(Nat) /\ Len(ids') = n + 1 /\ ids'[n + 1] = q.id /\ \A o \in 1..n : ids'[o] = ids[o]
  BY <1>2, <1>3, <1>4, <1>5
<1>7. DOMAIN db' = DOMAIN db \cup {q.id}
      /\ \A i \in DOMAIN db' : db'[i] = IF i = q.id THEN n + 1 ELSE db[i]
  BY <1>1, <1>3 DEF CreateStore
<1>8. IsFiniteSet(DOMAIN db')
  <2>1. IsFiniteSet(DOMAIN db)
    BY DEF StoreInv, TablesOK
  <2>2. IsFiniteSet(DOMAIN db \cup {q.id})
    BY <2>1, FS_AddElement, Zenon
  <2> QED
    BY <2>2, <1>7, Zenon
<1>9. Records = 1..n /\ Records' = 1..(n + 1)
  BY <1>3, <1>6 DEF Records
<1>10. \A o \in Records' : ids'[o] < id_counter'
  <2> SUFFICES ASSUME NEW o \in 1..(n + 1) PROVE ids'[o] < id_counter'
    BY <1>9
  <2>1. CASE o \in 1..n
    BY <2>1, <1>4, <1>5, <1>6
  <2>2. CASE o = n + 1
    BY <2>2, <1>2, <1>4, <1>5, <1>6
  <2> QED
    BY <2>1, <2>2
<1>11. \A i \in DOMAIN db' : db'[i] \in Records' /\ ids'[db'[i]] = i
  <2> SUFFICES ASSUME NEW i \in DOMAIN db' PROVE db'[i] \in 1..(n + 1) /\ ids'[db'[i]] = i
    BY <1>9
  <2>1. CASE i = q.id
    BY <2>1, <1>6, <1>7
  <2>2. CASE i # q.id
    <3>1. i \in DOMAIN db /\ db'[i] = db[i]
      BY <2>2, <1>7
    <3>2. db[i] \in 1..n /\ ids[db[i]] = i
      BY <3>1, <1>9 DEF StoreInv, TablesOK
    <3> QED
      BY <3>1, <3>2, <1>6
  <2> QED
    BY <2>1, <2>2
<1>12. TablesOK'
  <2>1. DOMAIN db' \subseteq Nat
    BY <1>2, <1>7 DEF StoreInv, TablesOK
  <2>2. dated' \subseteq Records'
    BY <1>5, <1>9 DEF StoreInv, TablesOK
  <2> QED
    BY <2>1, <2>2, <1>4, <1>5, <1>6, <1>8, <1>10, <1>11 DEF TablesOK
<1>13. Grows
  BY <1>3, <1>4, <1>5, <1>6, <1>9 DEF Grows
<1> QED
  BY <1>1, <1>3, <1>6, <1>9, <1>12, <1>13

LEMMA CreateStoreStep ==
  ASSUME StoreInv, NEW w \in Workers, CreateStore(w) PROVE StoreInv'
<1>1. TablesOK' /\ Grows /\ Len(ids)+1 \in Records' /\ ids'[Len(ids)+1] = worker[w].id
  BY CreateStoreTables
<1>2. PICK q \in Requests : q = worker[w]
  BY DEF StoreInv
<1>3. PICK o : o = Len(ids) + 1
  OBVIOUS
<1>4. o \in Nat /\ "look" \in PCs
  BY <1>3 DEF StoreInv, TablesOK, PCs
<1>5. PICK r : r = [q EXCEPT !.pc = "look", !.obj = o]
  OBVIOUS
<1>6. r \in Requests /\ r.pc = "look" /\ r.obj = o /\ r.ref = q.ref /\ r.op = q.op
      /\ r.id = q.id /\ r.verdict = q.verdict
  BY <1>4, <1>5 DEF Requests
<1>7. q.pc = "stamp" /\ q.ref = 0 /\ q.op \in Writers /\ q.verdict \notin {"refused", "failed"}
  BY <1>2 DEF StoreInv, RequestOK, CreateStore, At, Writers
<1>8. RequestOK(r)'
  BY <1>1, <1>2, <1>3, <1>6, <1>7 DEF RequestOK, IsRecord
<1>9. Becomes(w, r) /\ Disturb(w, q.id) /\ UNCHANGED dated
      /\ DOMAIN db' = DOMAIN db \cup {q.id}
  BY <1>2, <1>3, <1>5 DEF CreateStore
<1>10. calm' \subseteq calm \cup {w}
  BY <1>9 DEF Disturb, Unmoved
<1>11. w \in calm' => CalmOK(r)'
  <2> SUFFICES ASSUME w \in calm' PROVE CalmOK(r)'
    OBVIOUS
  <2>1. CalmOK(q)
    BY <1>2, <1>10, <1>9 DEF StoreInv, Disturb, Unmoved
  <2> QED
    BY <2>1, <1>6, <1>9 DEF CalmOK, Has
<1>12. ASSUME NEW v \in calm', NEW p, v # w /\ p = worker[v] PROVE CalmOK(p)'
  <2>1. v \in calm /\ p.op \notin Walks
    BY <1>9, <1>12 DEF Disturb, Unmoved, About
  <2>2. CalmOK(p) /\ RequestOK(p)
    BY <2>1, <1>12 DEF StoreInv
  <2> QED
    BY <2>1, <2>2, <1>9 DEF CalmOK, RequestOK, Has
<1> QED
  BY <1>1, <1>8, <1>9, <1>10, <1>11, <1>12, TableStep

LEMMA UpdateDateStep ==
  ASSUME StoreInv, NEW w \in Workers, UpdateDate(w) PROVE StoreInv'
<1>1. PICK q \in Requests : q = worker[w]
  BY DEF StoreInv
<1>2. q.pc = "date" /\ UNCHANGED <<id_counter, db, ids>> /\ RequestOK(q) /\ (w \in calm => CalmOK(q))
  BY <1>1 DEF UpdateDate, At, StoreInv
<1>3. CASE ~Has(q.id)
  <2>1. Verdict(w, "failed") /\ UNCHANGED tables /\ UNCHANGED calm /\ "failed" \in Verdicts
    BY <1>1, <1>2, <1>3 DEF UpdateDate, tables, Verdicts
  <2>2. w \notin calm
    BY <1>2, <1>3 DEF CalmOK
  <2> QED
    BY <2>1, <2>2, VerdictOK
<1>4. CASE Has(q.id)
  <2>1. PICK o : o = db[q.id]
    OBVIOUS
  <2>2. o \in Records /\ ids[o] = q.id
    BY <2>1, <1>4, FoundOK
  <2>3. dated' = dated \cup {o} /\ (IF o \in dated THEN UNCHANGED calm ELSE Disturb(w, q.id))
    BY <1>1, <1>4, <2>1 DEF UpdateDate
  <2>4. TablesOK' /\ Grows
    <3>1. Records' = Records /\ Size' = Size
      BY <1>2 DEF Records, Size
    <3>2. TablesOK'
      BY <3>1, <2>2, <2>3, <1>2 DEF StoreInv, TablesOK
    <3>3. Grows
      BY <3>1, <1>2 DEF StoreInv, TablesOK, Grows
    <3> QED
      BY <3>2, <3>3
  <2>5. PICK r : r = [q EXCEPT !.pc = "look"]
    OBVIOUS
  <2>6. "look" \in PCs
    BY DEF PCs
  <2>7. r \in Requests /\ r.pc = "look" /\ r.obj = q.obj /\ r.ref = q.ref /\ r.op = q.op
        /\ r.id = q.id /\ r.verdict = q.verdict
    BY <2>5, <2>6 DEF Requests
  <2>8. RequestOK(r)
    BY <1>2, <2>7 DEF RequestOK
  <2>9. RequestOK(r)'
    BY <2>4, <2>8, RequestStaysOK
  <2>10. Becomes(w, r)
    BY <1>1, <1>4, <2>5 DEF UpdateDate
  <2>11. calm' \subseteq calm
    BY <2>3 DEF Disturb, Unmoved
  <2>12. w \in calm' => CalmOK(r)'
    BY <2>7, <2>11, <1>2, <1>4 DEF CalmOK, Has
  <2>13. ASSUME NEW v \in calm', NEW p, v # w /\ p = worker[v] PROVE CalmOK(p)'
    <3>1. CalmOK(p) /\ RequestOK(p)
      BY <2>11, <2>13 DEF StoreInv
    <3>2. CASE o \in dated
      <4>1. dated' = dated
        BY <3>2, <2>3
      <4> QED
        BY <4>1, <3>1, <1>2 DEF CalmOK, Has, Size
    <3>3. CASE o \notin dated
      <4>1. p.op \notin Walks /\ p.id # q.id
        BY <3>3, <2>3, <2>13, <1>1 DEF Disturb, Unmoved, About
      <4>2. p.ref # o
        BY <4>1, <3>1, <2>2 DEF RequestOK, Records
      <4> QED
        BY <4>1, <4>2, <3>1, <2>3, <1>2 DEF CalmOK, Has, Size
    <3> QED
      BY <3>2, <3>3
  <2> QED
    BY <2>4, <2>9, <2>10, <2>11, <2>12, <2>13, TableStep
<1> QED
  BY <1>3, <1>4

LEMMA DeleteStep ==
  ASSUME StoreInv, NEW w \in Workers, NEW id \in Nat, Delete(w, id) PROVE StoreInv'
<1>1. Has(id) /\ DOMAIN db' = DOMAIN db \ {id} /\ (\A i \in DOMAIN db' : db'[i] = db[i])
      /\ UNCHANGED <<id_counter, ids, dated>> /\ calm' = Unmoved(id) \cup {w}
  BY DEF Delete
<1>2. PICK o : o = db[id]
  OBVIOUS
<1>3. o \in Records /\ ids[o] = id /\ o \in Nat /\ o # 0
  BY <1>1, <1>2, FoundOK DEF Records
<1>4. TablesOK' /\ Grows
  <2>1. Records' = Records
    BY <1>1 DEF Records
  <2>2. IsFiniteSet(DOMAIN db')
    BY <1>1, FS_Subset DEF StoreInv, TablesOK
  <2>3. TablesOK'
    BY <1>1, <2>1, <2>2 DEF StoreInv, TablesOK
  <2>4. Grows
    BY <1>1, <2>1 DEF StoreInv, TablesOK, Grows
  <2> QED
    BY <2>3, <2>4
<1>5. PICK s : s = Started("handed", "delete", id)
  OBVIOUS
<1>6. "handed" \in PCs /\ "delete" \in Ops /\ "delete" \in Writers
  BY DEF PCs, Ops, Writers
<1>7. Begun(s, "handed", "delete", id, 0, "ok")
  BY <1>5, <1>6, StartedIsBegun
<1>8. PICK r : r = [s EXCEPT !.obj = o, !.ref = o]
  OBVIOUS
<1>9. r \in Requests /\ r.pc = "handed" /\ r.obj = o /\ r.ref = o /\ r.op = "delete"
      /\ r.id = id /\ r.verdict = "ok"
  BY <1>3, <1>7, <1>8 DEF Begun, Requests
<1>10. RequestOK(r)
  BY <1>3, <1>6, <1>9 DEF RequestOK
<1>11. RequestOK(r)'
  BY <1>4, <1>10, RequestStaysOK
<1>12. Becomes(w, r)
  BY <1>2, <1>5, <1>8 DEF Delete
<1>13. CalmOK(r)'
  BY <1>9 DEF CalmOK
<1>14. ASSUME NEW v \in calm', NEW p, v # w /\ p = worker[v] PROVE CalmOK(p)'
  <2>1. v \in calm /\ p.op \notin Walks /\ p.id # id
    BY <1>1, <1>14 DEF Unmoved, About
  <2>2. CalmOK(p) /\ RequestOK(p)
    BY <2>1, <1>14 DEF StoreInv
  <2> QED
    BY <2>1, <2>2, <1>1 DEF CalmOK, RequestOK, Has
<1>15. calm' \subseteq calm \cup {w}
  BY <1>1 DEF Unmoved
<1> QED
  BY <1>4, <1>11, <1>12, <1>13, <1>14, <1>15, TableStep

-----------------------------------------------------------------------------
LEMMA StoreGoStep ==
  ASSUME StoreInv, NEW w \in Workers, NEW writable, StoreGo(w, writable) PROVE StoreInv'
BY UpdateDateStep, LookUpStep, GetEndStep, WalkFindStep, WalkEndStep, WalkFailStep,
   EncodeBeginStep, EncodeEndStep, RespondStep DEF StoreGo

LEMMA StoreStutter ==
  ASSUME StoreInv, UNCHANGED store PROVE StoreInv'
<1>1. TablesOK'
  BY DEF StoreInv, TablesOK, Records, store, tables
<1>2. ASSUME NEW w \in Workers PROVE RequestOK(worker[w])'
  <2>1. PICK q : q = worker[w]
    OBVIOUS
  <2>2. RequestOK(q)
    BY <2>1 DEF StoreInv
  <2>3. RequestOK(q)'
    BY <2>2 DEF RequestOK, Records, IsRecord, Shared, store, tables
  <2>4. worker'[w] = q
    BY <2>1 DEF store
  <2> QED
    BY <2>3, <2>4 DEF RequestOK
<1>3. calm' \subseteq Workers /\ worker' \in [Workers -> Requests]
  BY DEF StoreInv, store
<1>4. ASSUME NEW w \in calm' PROVE CalmOK(worker[w])'
  BY <1>4 DEF StoreInv, CalmOK, Has, Size, store, tables
<1> QED
  BY <1>1, <1>2, <1>3, <1>4 DEF StoreInv

\* What the invariant says in the words of Store.
LEMMA StoreInvSays ==
  StoreInv => StoreTypeOK /\ CalmRequestsSucceed /\ AnswersItsOwn
<1> SUFFICES ASSUME StoreInv PROVE StoreTypeOK /\ CalmRequestsSucceed /\ AnswersItsOwn
  OBVIOUS
<1>1. worker \in [Workers -> [pc : PCs, op : Ops, id : Nat, obj : Records \cup {0},
                             ref : Records \cup {0}, keys : BOOLEAN, size : Nat,
                             verdict : Verdicts]]
  <2>1. ASSUME NEW w \in Workers
        PROVE  worker[w] \in [pc : PCs, op : Ops, id : Nat, obj : Records \cup {0},
                              ref : Records \cup {0}, keys : BOOLEAN, size : Nat,
                              verdict : Verdicts]
    <3>1. PICK q : q = worker[w]
      OBVIOUS
    <3>2. q \in Requests /\ q.obj \in Records \cup {0} /\ q.ref \in Records \cup {0}
      BY <3>1 DEF StoreInv, RequestOK
    <3> QED
      BY <3>1, <3>2 DEF Requests
  <2>2. worker = [w \in Workers |-> worker[w]]
    BY DEF StoreInv
  <2> QED
    BY <2>1, <2>2
<1>2. StoreTypeOK
  BY <1>1 DEF StoreInv, TablesOK, StoreTypeOK
<1>3. CalmRequestsSucceed
  BY DEF StoreInv, CalmOK, CalmRequestsSucceed
<1>4. AnswersItsOwn
  BY DEF StoreInv, RequestOK, AnswersItsOwn
<1> QED
  BY <1>2, <1>3, <1>4

\* A create finds under its id only what was stored after it had begun.
LEMMA CreateReplacesOnlyNewer ==
  ASSUME StoreInv, NEW w \in Workers, CreateStore(w) PROVE ReplacedStep
<1> SUFFICES ASSUME NEW id \in DOMAIN db, id \in DOMAIN db', db'[id] # db[id]
             PROVE  At(w, "stamp") /\ worker[w].id = id /\ db[id] > worker[w].size
  BY DEF ReplacedStep
<1>1. At(w, "stamp") /\ worker[w].id = id
  BY DEF CreateStore
<1>2. db[id] \in Records /\ ids[db[id]] = id
  BY FoundOK DEF Has
<1> QED
  BY <1>1, <1>2 DEF StoreInv, RequestOK, At

LEMMA DeleteReplacesNothing ==
  ASSUME NEW w \in Workers, NEW id, Delete(w, id) PROVE ReplacedStep
BY DEF Delete, ReplacedStep
=============================================================================
