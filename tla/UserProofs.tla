------------------------------ MODULE UserProofs -------------------------------
(***************************************************************************)
(* The theorems about the user service: every action of Store keeps        *)
(* StoreInv (StoreProofs), and so do the two halves of list_users.         *)
(***************************************************************************)
EXTENDS UserService, StoreProofs

LEMMA ListBeginStep ==
  ASSUME StoreInv, NEW w \in Workers, ListBegin(w) PROVE StoreInv'
<1>1. "list" \in Walks
  BY DEF Walks
<1> QED
  BY <1>1, WalkStep DEF ListBegin

LEMMA ListEndStep ==
  ASSUME StoreInv, NEW w \in Workers, ListEnd(w) PROVE StoreInv'
<1>1. PICK q : q = worker[w]
  OBVIOUS
<1>2. q \in Requests /\ RequestOK(q) /\ (w \in calm => CalmOK(q)) /\ q.pc = "list"
  BY <1>1 DEF StoreInv, ListEnd, At
<1>3. PICK verdict \in {"ok", "uneven"} : verdict = IF Size = q.size THEN "ok" ELSE "uneven"
  OBVIOUS
<1>4. PICK ref \in Watched \cup {0} :
        Becomes(w, [q EXCEPT !.pc = "handed", !.ref = ref, !.verdict = verdict])
  BY <1>1, <1>3 DEF ListEnd
<1>5. ref \in Records \cup {0} /\ ref \in Nat /\ "handed" \in PCs /\ verdict \in Verdicts
  BY DEF Watched, StoreInv, TablesOK, Records, PCs, Verdicts
<1>6. PICK r : r = [q EXCEPT !.pc = "handed", !.ref = ref, !.verdict = verdict]
  OBVIOUS
<1>7. r \in Requests /\ r.pc = "handed" /\ r.ref = ref /\ r.op = q.op /\ r.id = q.id
      /\ r.obj = q.obj /\ r.verdict = verdict
  BY <1>2, <1>5, <1>6 DEF Requests
<1>8. q.op \in Walks /\ q.op \notin Writers
  BY <1>2 DEF RequestOK, Walks, Writers
<1>9. RequestOK(r)
  BY <1>2, <1>5, <1>7, <1>8 DEF RequestOK
<1>10. w \in calm => CalmOK(r)
  BY <1>2, <1>3, <1>7 DEF CalmOK
<1>11. UNCHANGED tables /\ UNCHANGED calm /\ Becomes(w, r)
  BY <1>4, <1>6 DEF ListEnd
<1> QED
  BY <1>9, <1>10, <1>11, QuietStep

LEMMA NextKeepsInv == StoreInv /\ [Next]_store => StoreInv'
<1> SUFFICES ASSUME StoreInv, [Next]_store PROVE StoreInv'
  OBVIOUS
<1>1. CASE UNCHANGED store
  BY <1>1, StoreStutter
<1>2. ASSUME NEW w \in Workers, CreateRead(w) PROVE StoreInv'
  BY <1>2, CreateReadStep
<1>3. ASSUME NEW w \in Workers, CreateStore(w) PROVE StoreInv'
  BY <1>3, CreateStoreStep
<1>4. ASSUME NEW w \in Workers, WalkBegin(w) \/ ListBegin(w) PROVE StoreInv'
  BY <1>4, WalkBeginStep, ListBeginStep
<1>5. ASSUME NEW w \in Workers, ListEnd(w) PROVE StoreInv'
  BY <1>5, ListEndStep
<1>6. ASSUME NEW w \in Workers, NEW id \in Addressed, Request(w, id) PROVE StoreInv'
  <2>1. id \in Nat
    BY BoundsAssumption
  <2>2. CASE GetBegin(w, id)
    BY <2>1, <2>2, GetBeginStep
  <2>3. CASE UpdateFields(w, id)
    BY <2>1, <2>3, UpdateFieldsStep
  <2>4. CASE Delete(w, id)
    BY <2>1, <2>4, DeleteStep
  <2>5. ASSUME NEW op \in {"put", "delete"}, NotFound(w, op, id) PROVE StoreInv'
    <3>1. op \in Ops /\ Reject(w, op, "missing")
      BY <2>5 DEF NotFound, Ops
    <3> QED
      BY <3>1, RejectStep
  <2> QED
    BY <1>6, <2>2, <2>3, <2>4, <2>5 DEF Request
<1>7. ASSUME NEW w \in Workers, StoreGo(w, TRUE) PROVE StoreInv'
  BY <1>7, StoreGoStep
<1> QED
  BY <1>1, <1>2, <1>3, <1>4, <1>5, <1>6, <1>7 DEF Next

LEMMA StoreInvHolds == Spec => []StoreInv
BY StoreInvInit, NextKeepsInv, PTL DEF Spec

-----------------------------------------------------------------------------
\* Whatever requests the threads of user_service serve, every variable keeps
\* its type, and users_db holds each user under the user's own id.
THEOREM UserStoreTypeOK == Spec => []StoreTypeOK
BY StoreInvHolds, StoreInvSays, PTL

\* A request for a user fails, or lists a total that is not the number of users
\* it lists, only when another request disturbed it.
THEOREM UserCalmRequestsSucceed == Spec => []CalmRequestsSucceed
BY StoreInvHolds, StoreInvSays, PTL

\* A request that changed a user answers with that user, unless two creates
\* shared the id.
THEOREM UserAnswersItsOwn == Spec => []AnswersItsOwn
BY StoreInvHolds, StoreInvSays, PTL

\* create_user overwrites no user that was stored before the request began.
THEOREM UserReplacesOnlyNewer == Spec => ReplacesOnlyNewer
<1>1. StoreInv /\ [Next]_store => [ReplacedStep]_store
  <2> SUFFICES ASSUME StoreInv, NEW w \in Workers,
                      \/ CreateRead(w) \/ CreateStore(w) \/ WalkBegin(w) \/ ListBegin(w)
                      \/ ListEnd(w) \/ StoreGo(w, TRUE) \/ \E id \in Addressed : Request(w, id)
               PROVE  ReplacedStep
    BY DEF Next
  <2>1. CASE CreateStore(w)
    BY <2>1, CreateReplacesOnlyNewer
  <2>2. ASSUME NEW id \in Addressed, Delete(w, id) PROVE ReplacedStep
    BY <2>2, DeleteReplacesNothing
  <2>3. CASE UNCHANGED db
    BY <2>3 DEF ReplacedStep
  <2>4. CASE CreateRead(w) \/ WalkBegin(w) \/ ListBegin(w) \/ ListEnd(w)
    BY <2>3, <2>4 DEF CreateRead, WalkBegin, ListBegin, ListEnd, tables
  <2>5. CASE StoreGo(w, TRUE)
    BY <2>3, <2>5 DEF StoreGo, UpdateDate, LookUp, GetEnd, WalkFind, WalkEnd, WalkFail,
                      EncodeBegin, EncodeEnd, Respond, tables
  <2>6. ASSUME NEW id \in Addressed, Request(w, id) PROVE ReplacedStep
    <3>1. CASE GetBegin(w, id) \/ UpdateFields(w, id) \/ \E op \in {"put", "delete"} : NotFound(w, op, id)
      BY <2>3, <3>1 DEF GetBegin, UpdateFields, NotFound, Reject, tables
    <3> QED
      BY <2>2, <2>6, <3>1 DEF Request
  <2> QED
    BY <2>1, <2>4, <2>5, <2>6
<1> QED
  BY <1>1, StoreInvHolds, PTL DEF Spec, ReplacesOnlyNewer
=============================================================================
