--------------------------- MODULE SupervisionProofs ---------------------------
(***************************************************************************)
(* Theorems about the gateway composed with the order service.             *)
(***************************************************************************)
EXTENDS Supervision, TLAPS

-----------------------------------------------------------------------------
(***************************************************************************)
(* The steps that do not reach the service are steps of Gateway, whatever  *)
(* it assumes of Unreliable services.                                      *)
(***************************************************************************)
LEMMA CommandIs == Command => Unsure!Command
BY DEF Command, StartBegin, StopBegin, SetHealthByCommand, CreateUserBegin, LoopIdle, Allowed,
   Fresh, Alive, AtRest, Roles, registry, counters, world,
   Unsure!Command, Unsure!StartBegin, Unsure!StopBegin, Unsure!SetHealthByCommand,
   Unsure!CreateUserBegin, Unsure!LoopIdle, Unsure!Allowed, Unsure!Fresh, Unsure!Alive,
   Unsure!AtRest, Unsure!Roles, Unsure!registry, Unsure!counters, Unsure!world

LEMMA LoopIs ==
  ASSUME NEW s \in Services
  PROVE  /\ PopenOk(s) => Unsure!PopenOk(s)
         /\ PopenError(s) => Unsure!PopenError(s)
         /\ StartRecord(s) => Unsure!StartRecord(s)
         /\ StopStep(s) => Unsure!StopStep(s)
         /\ StopError(s) => Unsure!StopError(s)
BY DEF PopenOk, PopenError, StartRecord, StopStep, StopTerminate, StopKill, StopFinish,
   StopFinished, StopError, LoopAt, Goto, Fresh, Alive, AtRest, registry, counters, world,
   Unsure!PopenOk, Unsure!PopenError, Unsure!StartRecord, Unsure!StopStep, Unsure!StopTerminate,
   Unsure!StopKill, Unsure!StopFinish, Unsure!StopFinished, Unsure!StopError, Unsure!LoopAt,
   Unsure!Goto, Unsure!Fresh, Unsure!Alive, Unsure!AtRest, Unsure!registry, Unsure!counters,
   Unsure!world

LEMMA HealthIs ==
  /\ HealthRound => Unsure!HealthRound
  /\ \A s \in Services : /\ HealthSkip(s) => Unsure!HealthSkip(s)
                         /\ HealthVisit(s) => Unsure!HealthVisit(s)
                         /\ HealthRecord(s) => Unsure!HealthRecord(s)
BY DEF HealthRound, HealthSkip, HealthVisit, HealthRecord, Skipped, Judge, LiveHandle, Alive,
   Between, registry, counters, world,
   Unsure!HealthRound, Unsure!HealthSkip, Unsure!HealthVisit, Unsure!HealthRecord,
   Unsure!Skipped, Unsure!Judge, Unsure!LiveHandle, Unsure!Alive, Unsure!Between,
   Unsure!registry, Unsure!counters, Unsure!world

LEMMA PoolIs ==
  ASSUME NEW t \in Workers
  PROVE  /\ \A op \in Ops, s \in Services : Dispatch(t, op, s) => Unsure!Dispatch(t, op, s)
         /\ Head(t) => Unsure!Head(t)
         /\ Connect(t) => Unsure!Connect(t)
         /\ Refused(t) => Unsure!Refused(t)
         /\ Broken(t) => Unsure!Broken(t)
         /\ SetHealth(t) => Unsure!SetHealth(t)
         /\ ReadStatus(t) => Unsure!ReadStatus(t)
         /\ Respond(t) => Unsure!Respond(t)
         /\ Reply(t) => Unsure!Reply(t)
BY OneServiceAssumption DEF Dispatch, Head, Connect, Refused, Broken, SetHealth, ReadStatus, Respond, Reply, Answers,
   Responsive, Serving, Alive, Thread, Move, Marked, LoopIdle, Idle, Forwarding, registry,
   counters, world,
   Unsure!Dispatch, Unsure!Head, Unsure!Connect, Unsure!Refused, Unsure!Broken,
   Unsure!SetHealth, Unsure!ReadStatus, Unsure!Respond, Unsure!Reply, Unsure!Answers,
   Unsure!Responsive, Unsure!Serving, Unsure!Alive, Unsure!Thread, Unsure!Move,
   Unsure!Marked, Unsure!LoopIdle, Unsure!Idle, Unsure!Forwarding, Unsure!registry,
   Unsure!counters, Unsure!world

LEMMA SystemIs ==
  ASSUME NEW s \in Services, NEW c \in Copies
  PROVE  (Boot(s, c) => Unsure!Boot(s, c)) /\ (Exit(s, c) => Unsure!Exit(s, c))
BY DEF Boot, Exit, Alive, Serving, registry, counters,
   Unsure!Boot, Unsure!Exit, Unsure!Alive, Unsure!Serving, Unsure!registry, Unsure!counters

LEMMA InitIs == Init => Unsure!Init
BY DEF Init, AtRest, Between, Idle, Unsure!Init, Unsure!AtRest, Unsure!Between, Unsure!Idle

LEMMA AloneIs ==
  ASSUME GatewayAlone PROVE Next /\ Unsure!Next
<1>1. Next
  BY DEF GatewayAlone, Next, LoopStep, StartStep, HealthStep, Handle
<1>2. Unsure!Next
  BY CommandIs, LoopIs, HealthIs, PoolIs, SystemIs
  DEF GatewayAlone, Unsure!Next, Unsure!LoopStep, Unsure!StartStep, Unsure!HealthStep,
      Unsure!Handle, Unsure!Ops, Unsure!Forwarding, Ops, Forwarding
<1> QED
  BY <1>1, <1>2

-----------------------------------------------------------------------------
(***************************************************************************)
(* The invariant: what the health check has asked for, and where the       *)
(* threads are that serve probes.  A walk that fails, or will fail, has    *)
(* been crowded.                                                           *)
(***************************************************************************)
HcOK ==
  /\ hc \in [pc : {"pick", "get", "got"}, svc : Services \cup {None},
             reply : Replies, todo : SUBSET Services]
  /\ hc.pc = "get" => hc.svc = OrderKey

\* r is the thread that serves a probe, n the number of orders.
ProbeOK(r, n, marked) ==
  /\ r \in [pc : {"idle", "scan", "answer"}, op : {"none", "read"}, id : {0},
            verdict : {"ok", "failed"}, seen : {r.seen}, size : {r.size}, known : {{}}]
  /\ r.pc = "scan" /\ r.size # n => marked
  /\ r.pc = "answer" /\ r.verdict = "failed" => marked

ThreadsOK ==
  /\ thread = [p \in Probes \cup Workers |-> thread[p]]
  /\ \A p \in Probes : ProbeOK(thread[p], Shop!Size, p \in crowded)

ProcOK == proc \in [Services -> [Copies -> {"exited", "booting", "serving"}]]

SuperInv == HcOK /\ ProcOK /\ ThreadsOK

LEMMA RestOK == ASSUME NEW n, NEW marked PROVE ProbeOK(Shop!Rest, n, marked)
BY DEF Shop!Rest, ProbeOK

\* A step in which only the thread of p changes, to r.
LEMMA ThreadChanges ==
  ASSUME ThreadsOK, NEW p \in Probes \cup Workers, NEW r,
         thread' = [thread EXCEPT ![p] = r], UNCHANGED orders,
         crowded \ {p} \subseteq crowded',
         p \in Probes => ProbeOK(r, Shop!Size, p \in crowded')
  PROVE  ThreadsOK'
<1>1. Shop!Size' = Shop!Size
  BY DEF Shop!Size
<1>2. \A q \in Probes \cup Workers : thread'[q] = IF q = p THEN r ELSE thread[q]
  BY DEF ThreadsOK
<1>3. thread' = [q \in Probes \cup Workers |-> thread'[q]]
  BY DEF ThreadsOK
<1>4. ASSUME NEW q \in Probes PROVE ProbeOK(thread'[q], Shop!Size, q \in crowded')
  <2>1. CASE q = p
    BY <1>2, <2>1
  <2>2. CASE q # p
    <3>1. thread'[q] = thread[q] /\ (q \in crowded => q \in crowded')
      BY <1>2, <2>2
    <3> QED
      BY <3>1 DEF ThreadsOK, ProbeOK
  <2> QED
    BY <2>1, <2>2
<1> QED
  BY <1>1, <1>3, <1>4 DEF ThreadsOK

LEMMA ThreadsSame == ASSUME ThreadsOK, UNCHANGED <<shop, crowded>> PROVE ThreadsOK'
BY DEF ThreadsOK, shop, Shop!Size

LEMMA ProbeArrivesOK == ASSUME ThreadsOK, NEW p \in Probes, ProbeArrives(p) PROVE ThreadsOK'
<1>1. PICK r : r = [Shop!Rest EXCEPT !.pc = "scan", !.op = "read", !.seen = 1, !.size = Shop!Size]
  OBVIOUS
<1>2. ProbeOK(r, Shop!Size, p \in crowded')
  BY <1>1 DEF ProbeOK, Shop!Rest
<1>3. thread' = [thread EXCEPT ![p] = r] /\ UNCHANGED orders /\ crowded' = crowded \ {p}
  BY <1>1 DEF ProbeArrives, Shop!ScanBegin
<1> QED
  BY <1>2, <1>3, ThreadChanges

LEMMA OrderArrivesOK == ASSUME ThreadsOK, NEW t \in Workers, OrderArrives(t) PROVE ThreadsOK'
<1>1. PICK r : thread' = [thread EXCEPT ![t] = r]
  BY DEF OrderArrives, Shop!CreateRead
<1>2. UNCHANGED <<orders, crowded>> /\ t \notin Probes
  BY ProbesAssumption DEF OrderArrives, Shop!CreateRead
<1> QED
  BY <1>1, <1>2, ThreadChanges

\* The request of p is answered or lost.
LEMMA ReleaseOK ==
  ASSUME ThreadsOK, NEW p \in Probes \cup Workers, thread' = [thread EXCEPT ![p] = Shop!Rest],
         UNCHANGED orders, crowded \ {p} \subseteq crowded'
  PROVE  ThreadsOK'
BY RestOK, ThreadChanges

LEMMA ProbeStepOK == ASSUME ThreadsOK, NEW p \in Probes, ThreadStep(p) PROVE ThreadsOK'
<1>1. PICK q : q = thread[p] /\ ProbeOK(q, Shop!Size, p \in crowded)
  BY DEF ThreadsOK
<1>2. Shop!ScanStep(p) /\ UNCHANGED <<orders, crowded>>
  BY <1>1 DEF ThreadStep, ProbeOK, Shop!Go, Shop!CreateFails, Shop!CreateStore, Shop!ShipDraw, Shop!ShipLabel,
              Shop!DeliverSign, Shop!GetEnd, Shop!Close, Shop!ScanStep, Shop!At
<1>3. q.pc = "scan"
  BY <1>1, <1>2 DEF Shop!ScanStep, Shop!At
<1>4. CASE Shop!Size # q.size /\ Shop!Finish(p, "failed")
  <2>1. PICK r : r = Shop!Returned(q.op, q.id, "failed")
    OBVIOUS
  <2>2. ProbeOK(r, Shop!Size, p \in crowded')
    BY <1>1, <1>2, <1>3, <1>4, <2>1 DEF ProbeOK, Shop!Returned, Shop!Rest
  <2>3. thread' = [thread EXCEPT ![p] = r]
    BY <1>1, <1>4, <2>1 DEF Shop!Finish
  <2> QED
    BY <1>2, <2>2, <2>3, ThreadChanges
<1>5. CASE Shop!Size = q.size /\ thread' = [thread EXCEPT ![p].seen = @ + 1]
  <2>1. PICK r : r = [q EXCEPT !.seen = q.seen + 1]
    OBVIOUS
  <2>2. ProbeOK(r, Shop!Size, p \in crowded')
    BY <1>1, <1>3, <1>5, <2>1 DEF ProbeOK
  <2>3. thread' = [thread EXCEPT ![p] = r]
    BY <1>1, <1>5, <2>1
  <2> QED
    BY <1>2, <2>2, <2>3, ThreadChanges
<1>6. CASE Shop!Counted(p)
  <2>1. PICK r : r = [Shop!Returned("read", 0, "ok") EXCEPT !.seen = q.seen, !.size = Shop!Size]
    OBVIOUS
  <2>2. ProbeOK(r, Shop!Size, p \in crowded')
    BY <2>1 DEF ProbeOK, Shop!Returned, Shop!Rest
  <2>3. thread' = [thread EXCEPT ![p] = r]
    BY <1>1, <1>6, <2>1 DEF Shop!Counted
  <2> QED
    BY <1>2, <2>2, <2>3, ThreadChanges
<1> QED
  BY <1>1, <1>2, <1>4, <1>5, <1>6 DEF Shop!ScanStep

LEMMA WorkerStepOK == ASSUME ThreadsOK, NEW t \in Workers, ThreadStep(t) PROVE ThreadsOK'
<1>1. t \notin Probes
  BY ProbesAssumption
<1>2. PICK r : thread' = [thread EXCEPT ![t] = r]
  BY DEF ThreadStep, Shop!Go, Shop!CreateFails, Shop!CreateStore, Shop!ShipDraw, Shop!ShipLabel, Shop!DeliverSign,
         Shop!GetEnd, Shop!Close, Shop!ScanStep, Shop!Move, Shop!Finish, Shop!Counted
<1>3. CASE DOMAIN orders' # DOMAIN orders
  <2>1. crowded' = crowded \cup Walking
    BY <1>3 DEF ThreadStep
  <2>2. \A q \in Probes : thread'[q] = thread[q]
    BY <1>1, <1>2 DEF ThreadsOK
  <2>3. thread' = [q \in Probes \cup Workers |-> thread'[q]]
    BY <1>2 DEF ThreadsOK
  <2>4. ASSUME NEW q \in Probes, NEW n PROVE ProbeOK(thread[q], n, q \in crowded')
    <3>1. thread[q].pc = "scan" => q \in crowded'
      BY <2>1 DEF Walking, Shop!At
    <3>2. q \in crowded => q \in crowded'
      BY <2>1
    <3> QED
      BY <3>1, <3>2 DEF ThreadsOK, ProbeOK
  <2> QED
    BY <2>2, <2>3, <2>4 DEF ThreadsOK
<1>4. CASE DOMAIN orders' = DOMAIN orders
  <2>1. crowded' = crowded
    BY <1>4 DEF ThreadStep
  <2>2. Shop!Size' = Shop!Size
    BY <1>4 DEF Shop!Size
  <2>3. \A q \in Probes : thread'[q] = thread[q]
    BY <1>1, <1>2 DEF ThreadsOK
  <2>4. thread' = [q \in Probes \cup Workers |-> thread'[q]]
    BY <1>2 DEF ThreadsOK
  <2> QED
    BY <2>1, <2>2, <2>3, <2>4 DEF ThreadsOK
<1> QED
  BY <1>3, <1>4

LEMMA EndsOK ==
  ASSUME ThreadsOK, NEW p \in Probes, NEW reply, ProbeEnds(p, reply)
  PROVE  ThreadsOK'
<1>1. thread' = [thread EXCEPT ![p] = Shop!Rest] /\ UNCHANGED orders
  BY DEF ProbeEnds, Answered, Lost, Shop!Respond
<1>2. crowded \ {p} \subseteq crowded'
  BY DEF ProbeEnds
<1> QED
  BY <1>1, <1>2, ReleaseOK

LEMMA ForwardEndsOK == ASSUME ThreadsOK, NEW t \in Workers, ForwardEnds(t) PROVE ThreadsOK'
<1>1. crowded' = crowded
  BY DEF ForwardEnds
<1>2. CASE UNCHANGED shop
  BY <1>1, <1>2, ThreadsSame
<1>3. CASE thread' = [thread EXCEPT ![t] = Shop!Rest] /\ UNCHANGED orders
  BY <1>1, <1>3, ReleaseOK
<1> QED
  BY <1>2, <1>3 DEF ForwardEnds, Answered, Shop!Respond

\* The orders are replaced while no thread serves a request.
LEMMA RestartOK == ASSUME ThreadsOK, NEW c \in Copies, Restart(c) PROVE ThreadsOK'
<1>1. CASE UNCHANGED shop
  BY <1>1, ThreadsSame DEF Restart
<1>2. CASE Unserved /\ UNCHANGED thread
  <2>1. \A p \in Probes : \A n, marked : ProbeOK(thread[p], n, marked)
    BY <1>2 DEF ThreadsOK, ProbeOK, Unserved, Held
  <2> QED
    BY <1>2, <2>1 DEF ThreadsOK
<1> QED
  BY <1>1, <1>2 DEF Restart

LEMMA ThreadsKept == ASSUME ThreadsOK, SuperNext PROVE ThreadsOK'
<1>1. CASE GatewayAlone /\ UNCHANGED <<shop, crowded>>
  BY <1>1, ThreadsSame
<1>2. CASE GetEnds
  BY <1>2, EndsOK DEF GetEnds, Probes
<1>3. CASE StartEnds
  BY <1>3, EndsOK DEF StartEnds, Probes
<1>4. CASE \E p \in Probes : ProbeArrives(p)
  BY <1>4, ProbeArrivesOK
<1>5. CASE \E t \in Workers : OrderArrives(t) \/ ForwardEnds(t)
  BY <1>5, OrderArrivesOK, ForwardEndsOK
<1>6. CASE \E p \in Probes \cup Workers : ThreadStep(p)
  BY <1>6, ProbeStepOK, WorkerStepOK
<1>7. CASE \E c \in Copies : Restart(c)
  BY <1>7, RestartOK
<1> QED
  BY <1>1, <1>2, <1>3, <1>4, <1>5, <1>6, <1>7 DEF SuperNext

-----------------------------------------------------------------------------
(***************************************************************************)
(* The gateway's part of the invariant.                                    *)
(***************************************************************************)
LEMMA HealthMoves ==
  ASSUME HcOK, HealthRound \/ \E s \in Services : HealthSkip(s) \/ HealthVisit(s) \/ HealthRecord(s)
  PROVE  HcOK'
<1>1. CASE HealthRound
  BY <1>1 DEF HealthRound, HcOK
<1>2. ASSUME NEW s \in Services, HealthSkip(s) PROVE HcOK'
  BY <1>2 DEF HealthSkip, HcOK
<1>3. ASSUME NEW s \in Services, HealthVisit(s) PROVE HcOK'
  BY <1>3, OneServiceAssumption DEF HealthVisit, HcOK
<1>4. ASSUME NEW s \in Services, HealthRecord(s) PROVE HcOK'
  BY <1>4 DEF HealthRecord, Between, HcOK, Replies
<1> QED
  BY <1>1, <1>2, <1>3, <1>4

LEMMA HcKept == ASSUME HcOK, SuperNext PROVE HcOK'
<1>1. CASE UNCHANGED hc
  BY <1>1 DEF HcOK
<1>2. CASE HealthRound \/ \E s \in Services : HealthSkip(s) \/ HealthVisit(s) \/ HealthRecord(s)
  BY <1>2, HealthMoves
<1>3. CASE GetEnds
  BY <1>3 DEF GetEnds, HcOK, Replies
<1>4. GatewayAlone =>
        \/ UNCHANGED hc
        \/ HealthRound
        \/ \E s \in Services : HealthSkip(s) \/ HealthVisit(s) \/ HealthRecord(s)
  BY DEF GatewayAlone, Command, StartBegin, StopBegin, SetHealthByCommand, CreateUserBegin,
         PopenOk, PopenError, StartRecord, StopStep, StopTerminate, StopKill, StopFinish, StopError,
         Dispatch, Exit, Head, Connect, Refused, SetHealth, ReadStatus, Respond
<1>5. StartEnds => UNCHANGED hc
  BY DEF StartEnds
<1>6. \A t \in Workers : ForwardEnds(t) \/ OrderArrives(t) => UNCHANGED hc
  BY DEF ForwardEnds, OrderArrives, Reply, Broken, vars
<1>7. \A p \in Probes \cup Workers : ProbeArrives(p) \/ ThreadStep(p) => UNCHANGED hc
  BY DEF ProbeArrives, ThreadStep, vars
<1>8. \A c \in Copies : Restart(c) => UNCHANGED hc
  BY DEF Restart, Boot
<1> QED
  BY <1>1, <1>2, <1>3, <1>4, <1>5, <1>6, <1>7, <1>8 DEF SuperNext

LEMMA ProcKept == ASSUME ProcOK, SuperNext PROVE ProcOK'
<1>1. CASE UNCHANGED proc
  BY <1>1 DEF ProcOK
<1>2. ASSUME NEW s \in Services, PopenOk(s) \/ StopKill(s) PROVE ProcOK'
  BY <1>2 DEF PopenOk, StopKill, ProcOK
<1>3. ASSUME NEW s \in Services, NEW c \in Copies, Boot(s, c) \/ Exit(s, c) PROVE ProcOK'
  BY <1>3 DEF Boot, Exit, ProcOK
<1>4. GatewayAlone =>
        \/ UNCHANGED proc
        \/ \E s \in Services : PopenOk(s) \/ StopKill(s) \/ \E c \in Copies : Exit(s, c)
  BY DEF GatewayAlone, Command, StartBegin, StopBegin, SetHealthByCommand, CreateUserBegin,
         PopenError, StartRecord, StopStep, StopTerminate, StopFinish, StopError,
         HealthRound, HealthSkip, HealthVisit, HealthRecord,
         Dispatch, Head, Connect, Refused, SetHealth, ReadStatus, Respond, world
<1>5. GetEnds \/ StartEnds => UNCHANGED proc
  BY DEF GetEnds, StartEnds
<1>6. \A t \in Workers : ForwardEnds(t) \/ OrderArrives(t) => UNCHANGED proc
  BY DEF ForwardEnds, OrderArrives, Reply, Broken, vars, world
<1>7. \A p \in Probes \cup Workers : ProbeArrives(p) \/ ThreadStep(p) => UNCHANGED proc
  BY DEF ProbeArrives, ThreadStep, vars, world
<1>8. \A c \in Copies : Restart(c) => Boot(OrderKey, c)
  BY DEF Restart
<1> QED
  BY <1>1, <1>2, <1>3, <1>4, <1>5, <1>6, <1>7, <1>8, OneServiceAssumption DEF SuperNext

LEMMA StartsInv == SuperInit => SuperInv
<1> SUFFICES ASSUME SuperInit PROVE SuperInv
  OBVIOUS
<1>1. HcOK
  BY DEF SuperInit, Init, Between, HcOK, Replies
<1>2. ProcOK
  BY DEF SuperInit, Init, ProcOK
<1>3. thread = [p \in Probes \cup Workers |-> Shop!Rest]
  BY DEF SuperInit, Shop!Init
<1>4. ThreadsOK
  BY <1>3, RestOK DEF ThreadsOK
<1> QED
  BY <1>1, <1>2, <1>4 DEF SuperInv

LEMMA StepKeepsInv == SuperInv /\ [SuperNext]_<<vars, shop, crowded>> => SuperInv'
<1> SUFFICES ASSUME SuperInv, [SuperNext]_<<vars, shop, crowded>> PROVE SuperInv'
  OBVIOUS
<1>1. CASE SuperNext
  BY <1>1, HcKept, ProcKept, ThreadsKept DEF SuperInv
<1>2. CASE UNCHANGED <<vars, shop, crowded>>
  <2>1. ThreadsOK'
    BY <1>2, ThreadsSame DEF SuperInv
  <2>2. UNCHANGED <<hc, proc>>
    BY <1>2 DEF vars, world
  <2> QED
    BY <2>1, <2>2 DEF SuperInv, HcOK, ProcOK
<1> QED
  BY <1>1, <1>2

LEMMA SuperInvHolds == SuperSpec => []SuperInv
BY StartsInv, StepKeepsInv, PTL DEF SuperSpec

-----------------------------------------------------------------------------
(***************************************************************************)
(* What the gateway sees of the service.                                   *)
(***************************************************************************)
LEMMA ReplyIs ==
  ASSUME NEW p, NEW reply, ProbeEnds(p, reply)
  PROVE  \/ reply = HealthReply(p) /\ Shop!At(p, "answer") /\ \E c \in Copies : Answers(OrderKey, c)
         \/ reply = "fail" /\ UNCHANGED out /\ \A c \in Copies : ~Responsive(OrderKey, c)
BY DEF ProbeEnds, Answered, Lost, Up

\* For a service that may answer with HTTP 500, every end of a probe is allowed.
LEMMA ReplyUnsure ==
  ASSUME NEW p, NEW reply, ProbeEnds(p, reply)
  PROVE  reply \in {"ok", "bad", "fail"} /\ Unsure!TimedRequest(OrderKey, reply)
<1>1. HealthReply(p) \in {"ok", "bad"}
  BY DEF HealthReply
<1>2. OrderKey \in Services
  BY OneServiceAssumption
<1> QED
  BY <1>1, <1>2, ReplyIs
  DEF Answers, Responsive, Serving, Unsure!TimedRequest, Unsure!Answers, Unsure!Responsive,
      Unsure!Serving

\* For one that always answers properly, unless the probe was crowded.
LEMMA ReplyHonest ==
  ASSUME ThreadsOK, NEW p \in Probes, NEW reply, ProbeEnds(p, reply), crowded = {}
  PROVE  reply \in {"ok", "bad", "fail"} /\ TimedRequest(OrderKey, reply)
<1>1. Shop!At(p, "answer") => HealthReply(p) = "ok"
  BY DEF HealthReply, ThreadsOK, ProbeOK, Shop!At
<1> QED
  BY <1>1, ReplyIs DEF TimedRequest

LEMMA GetIs ==
  ASSUME GetEnds, HcOK
  PROVE  /\ Unsure!HealthGet(OrderKey)
         /\ ThreadsOK /\ crowded = {} => HealthGet(OrderKey)
<1>1. PICK reply \in Replies :
        /\ ProbeEnds("health_check", reply)
        /\ hc' = [hc EXCEPT !.pc = "got", !.reply = reply]
  BY DEF GetEnds
<1>2. hc.pc = "get" /\ hc.svc = OrderKey
  BY DEF GetEnds, HcOK
<1>3. UNCHANGED <<registry, counters, proc, loop, worker, demoted>>
  BY DEF GetEnds
<1>4. Unsure!HealthGet(OrderKey)
  BY <1>1, <1>2, <1>3, ReplyUnsure
  DEF Unsure!HealthGet, Unsure!registry, Unsure!counters, registry, counters
<1>5. ThreadsOK /\ crowded = {} => HealthGet(OrderKey)
  BY <1>1, <1>2, <1>3, ReplyHonest DEF HealthGet, Probes
<1> QED
  BY <1>4, <1>5

LEMMA StartIs ==
  ASSUME StartEnds
  PROVE  /\ Unsure!StartProbe(OrderKey)
         /\ ThreadsOK /\ crowded = {} => StartProbe(OrderKey)
<1>1. PICK reply \in Replies :
        /\ ProbeEnds("start", reply)
        /\ loop' = [loop EXCEPT !.pc = "probed", !.reply = reply]
  BY DEF StartEnds
<1>2. LoopAt(OrderKey, "probe") /\ UNCHANGED <<registry, counters, proc, hc, worker, demoted>>
  BY DEF StartEnds
<1>3. Unsure!StartProbe(OrderKey)
  BY <1>1, <1>2, ReplyUnsure
  DEF Unsure!StartProbe, Unsure!LoopAt, LoopAt, Unsure!registry, Unsure!counters, registry, counters
<1>4. ThreadsOK /\ crowded = {} => StartProbe(OrderKey)
  BY <1>1, <1>2, ReplyHonest DEF StartProbe, Probes
<1> QED
  BY <1>3, <1>4

LEMMA RestIs ==
  ASSUME SuperNext, ~GetEnds, ~StartEnds
  PROVE  (Next /\ Unsure!Next) \/ UNCHANGED vars
<1>1. CASE GatewayAlone
  BY <1>1, AloneIs
<1>2. ASSUME NEW t \in Workers, ForwardEnds(t) PROVE Next /\ Unsure!Next
  <2>1. Reply(t) \/ Broken(t)
    BY <1>2 DEF ForwardEnds
  <2> QED
    BY <2>1, PoolIs DEF Next, Handle, Unsure!Next, Unsure!Handle
<1>3. ASSUME NEW c \in Copies, Restart(c) PROVE Next /\ Unsure!Next
  <2>1. Boot(OrderKey, c) /\ OrderKey \in Services
    BY <1>3, OneServiceAssumption DEF Restart
  <2> QED
    BY <2>1, SystemIs DEF Next, Unsure!Next
<1>4. \A t \in Workers : OrderArrives(t) => UNCHANGED vars
  BY DEF OrderArrives
<1>5. \A p \in Probes \cup Workers : ProbeArrives(p) \/ ThreadStep(p) => UNCHANGED vars
  BY DEF ProbeArrives, ThreadStep
<1> QED
  BY <1>1, <1>2, <1>3, <1>4, <1>5 DEF SuperNext

\* Whatever the threads of the order service do, the gateway does what Gateway
\* allows it to do for a service that may answer its probes with HTTP 500 (the
\* walk of /health over orders_db): every theorem about Gateway holds for it.
THEOREM GatewayOfUnsureService == SuperSpec => IsGateway
<1>1. SuperInit => Unsure!Init
  BY InitIs DEF SuperInit
<1>2. SuperInv /\ [SuperNext]_<<vars, shop, crowded>> => [Unsure!Next]_(Unsure!vars)
  <2> SUFFICES ASSUME SuperInv, SuperNext PROVE Unsure!Next \/ UNCHANGED vars
    BY DEF Unsure!vars, vars, Unsure!registry, registry, Unsure!counters, counters,
           Unsure!world, world
  <2>1. CASE GetEnds
    <3>1. Unsure!HealthGet(OrderKey) /\ OrderKey \in Services
      BY <2>1, GetIs, OneServiceAssumption DEF SuperInv
    <3> QED
      BY <3>1 DEF Unsure!Next, Unsure!HealthStep
  <2>2. CASE StartEnds
    <3>1. Unsure!StartProbe(OrderKey) /\ OrderKey \in Services
      BY <2>2, StartIs, OneServiceAssumption
    <3> QED
      BY <3>1 DEF Unsure!Next, Unsure!LoopStep, Unsure!StartStep
  <2>3. CASE SuperNext /\ ~GetEnds /\ ~StartEnds
    BY <2>3, RestIs
  <2> QED
    BY <2>1, <2>2, <2>3
<1> QED
  BY <1>1, <1>2, SuperInvHolds, PTL DEF SuperSpec, IsGateway, Unsure!Spec

\* As long as no order is added while a probe walks over orders_db, the order
\* service is to the gateway one that always answers its probes properly.
THEOREM HonestWhenCalm == SuperSpec => HonestUnlessCrowded
<1>1. SuperInit => Init
  BY DEF SuperInit
<1>2. SuperInv /\ [SuperNext]_<<vars, shop, crowded>> => [Next \/ crowded # {}]_vars
  <2> SUFFICES ASSUME SuperInv, [SuperNext]_<<vars, shop, crowded>>, crowded = {}
               PROVE  Next \/ UNCHANGED vars
    OBVIOUS
  <2>1. CASE GetEnds
    <3>1. HealthGet(OrderKey) /\ OrderKey \in Services
      BY <2>1, GetIs, OneServiceAssumption DEF SuperInv
    <3> QED
      BY <3>1 DEF Next, HealthStep
  <2>2. CASE StartEnds
    <3>1. StartProbe(OrderKey) /\ OrderKey \in Services
      BY <2>2, StartIs, OneServiceAssumption DEF SuperInv
    <3> QED
      BY <3>1 DEF Next, LoopStep, StartStep
  <2>3. CASE SuperNext /\ ~GetEnds /\ ~StartEnds
    BY <2>3, RestIs
  <2> QED
    BY <2>1, <2>2, <2>3
<1> QED
  BY <1>1, <1>2, SuperInvHolds, PTL DEF SuperSpec, HonestUnlessCrowded

-----------------------------------------------------------------------------
\* The orders are given up only by a process that starts, and it starts to
\* serve only when no copy of the service does: neither a demotion nor a second
\* start costs a copy that goes on serving any of its orders.
THEOREM OrdersKept == SuperSpec => OrdersOutliveDemotion
<1> DEFINE Kept == (\E c \in Copies : Serving(OrderKey, c) /\ Serving(OrderKey, c)')
                     => DOMAIN orders \subseteq DOMAIN orders'
<1>1. SuperInv /\ [SuperNext]_<<vars, shop, crowded>> => [Kept]_<<vars, shop, crowded>>
  <2> SUFFICES ASSUME SuperInv, SuperNext PROVE Kept
    OBVIOUS
  <2>1. CASE UNCHANGED orders
    BY <2>1
  <2>2. ASSUME NEW p \in Probes \cup Workers, ThreadStep(p) PROVE Kept
    <3>1. CASE Shop!CreateStore(p)
      <4>1. DOMAIN orders' = DOMAIN orders \cup {thread[p].id}
        BY <3>1 DEF Shop!CreateStore, Shop!Insert
      <4> QED
        BY <4>1
    <3>2. CASE Shop!ShipDraw(p) \/ Shop!DeliverSign(p)
      <4>1. DOMAIN orders' = DOMAIN orders
        BY <3>2 DEF Shop!ShipDraw, Shop!DeliverSign
      <4> QED
        BY <4>1
    <3>3. CASE UNCHANGED orders
      BY <3>3
    <3> QED
      BY <2>2, <3>1, <3>2, <3>3
      DEF ThreadStep, Shop!Go, Shop!CreateFails, Shop!ShipLabel, Shop!GetEnd, Shop!Close,
          Shop!ScanStep
  <2>3. ASSUME NEW c \in Copies, Restart(c), ~UNCHANGED orders PROVE Kept
    <3>1. Boot(OrderKey, c) /\ proc'[OrderKey][c] = "serving"
      BY <2>3 DEF Restart, shop
    <3>2. \A d \in Copies : ~Serving(OrderKey, d)
      BY <3>1, OneServiceAssumption DEF Boot, SuperInv, ProcOK
    <3> QED
      BY <3>2
  <2>4. GetEnds \/ StartEnds => UNCHANGED orders
    BY DEF GetEnds, StartEnds, ProbeEnds, Answered, Lost, Shop!Respond
  <2>5. \A t \in Workers : ForwardEnds(t) \/ OrderArrives(t) => UNCHANGED orders
    BY DEF ForwardEnds, OrderArrives, Answered, Shop!Respond, Shop!CreateRead, shop
  <2>6. \A p \in Probes : ProbeArrives(p) => UNCHANGED orders
    BY DEF ProbeArrives, Shop!ScanBegin
  <2>7. UNCHANGED <<shop, crowded>> => UNCHANGED orders
    BY DEF shop
  <2> QED
    BY <2>1, <2>2, <2>3, <2>4, <2>5, <2>6, <2>7 DEF SuperNext
<1> QED
  BY <1>1, SuperInvHolds, PTL DEF SuperSpec, OrdersOutliveDemotion
-----------------------------------------------------------------------------
(***************************************************************************)
(* The theorems about Gateway, taken over for services that may answer     *)
(* with HTTP 500: a step that Gateway allows for such services is one of   *)
(* the module they are proved in.                                          *)
(***************************************************************************)
Proved == INSTANCE GatewayProofs WITH Unreliable <- Services

LEMMA SameInit == Unsure!Init => Proved!Init
BY Zenon
DEF Unsure!Init, Unsure!AtRest, Unsure!Between, Unsure!Idle, Proved!Init, Proved!AtRest,
    Proved!Between, Proved!Idle

LEMMA SameNext == Unsure!Next => Proved!Next
BY Zenon
DEF Unsure!registry, Unsure!counters, Unsure!world, Unsure!Roles, Unsure!Allowed, Unsure!AtRest,
    Unsure!Between, Unsure!Idle, Unsure!Alive, Unsure!Serving, Unsure!Responsive, Unsure!Hung,
    Unsure!Answers, Unsure!Boot, Unsure!Exit, Unsure!Fresh, Unsure!TimedRequest,
    Unsure!LoopIdle, Unsure!LoopAt, Unsure!Goto, Unsure!StartBegin, Unsure!PopenOk,
    Unsure!PopenError, Unsure!StartProbe, Unsure!StartRecord, Unsure!StopBegin,
    Unsure!StopTerminate, Unsure!StopError, Unsure!StopKill, Unsure!StopFinished,
    Unsure!StopFinish, Unsure!SetHealthByCommand, Unsure!CreateUserBegin, Unsure!CreateUserEnd,
    Unsure!HealthRound, Unsure!Skipped, Unsure!HealthSkip, Unsure!HealthVisit, Unsure!HealthGet,
    Unsure!LiveHandle, Unsure!Judge, Unsure!HealthRecord, Unsure!Forwarding, Unsure!Ops,
    Unsure!Thread, Unsure!Move, Unsure!Marked, Unsure!Dispatch, Unsure!Head, Unsure!Connect,
    Unsure!Refused, Unsure!Reply, Unsure!Broken, Unsure!SetHealth, Unsure!ReadStatus,
    Unsure!Respond, Unsure!StartStep, Unsure!StopStep, Unsure!LoopStep, Unsure!Command,
    Unsure!HealthStep, Unsure!Handle, Unsure!Next, Proved!registry, Proved!counters,
    Proved!world, Proved!Roles, Proved!Allowed, Proved!AtRest, Proved!Between, Proved!Idle,
    Proved!Alive, Proved!Serving, Proved!Responsive, Proved!Hung, Proved!Answers, Proved!Boot,
    Proved!Exit, Proved!Fresh, Proved!TimedRequest, Proved!LoopIdle, Proved!LoopAt, Proved!Goto,
    Proved!StartBegin, Proved!PopenOk, Proved!PopenError, Proved!StartProbe, Proved!StartRecord,
    Proved!StopBegin, Proved!StopTerminate, Proved!StopError, Proved!StopKill,
    Proved!StopFinished, Proved!StopFinish, Proved!SetHealthByCommand, Proved!CreateUserBegin,
    Proved!CreateUserEnd, Proved!HealthRound, Proved!Skipped, Proved!HealthSkip,
    Proved!HealthVisit, Proved!HealthGet, Proved!LiveHandle, Proved!Judge, Proved!HealthRecord,
    Proved!Forwarding, Proved!Ops, Proved!Thread, Proved!Move, Proved!Marked, Proved!Dispatch,
    Proved!Head, Proved!Connect, Proved!Refused, Proved!Reply, Proved!Broken, Proved!SetHealth,
    Proved!ReadStatus, Proved!Respond, Proved!StartStep, Proved!StopStep, Proved!LoopStep,
    Proved!Command, Proved!HealthStep, Proved!Handle, Proved!Next

LEMMA SuperIsProved == SuperSpec => Proved!Spec
<1>1. [Unsure!Next]_(Unsure!vars) => [Proved!Next]_(Proved!vars)
  BY SameNext
  DEF Unsure!vars, Unsure!registry, Unsure!counters, Unsure!world, Proved!vars, Proved!registry,
      Proved!counters, Proved!world
<1> QED
  BY GatewayOfUnsureService, SameInit, <1>1, PTL DEF IsGateway, Unsure!Spec, Proved!Spec

\* What GatewayProofs assumes of its constants, for these services.
LEMMA InstanceAssumptions == Services \subseteq Services /\ None \notin Services
BY ServicesAssumption

(***************************************************************************)
(* With the order service and its threads in the place of the assumption   *)
(* about it, the registry, the event loop, the health check and the        *)
(* requests of the gateway keep their types.                               *)
(***************************************************************************)
THEOREM SuperTypeOK == SuperSpec => []TypeOK
<1>1. Proved!TypeOK => TypeOK
  BY DEF Proved!TypeOK, TypeOK, Proved!Statuses, Statuses, Proved!LoopPCs, LoopPCs,
         Proved!Replies, Replies, Proved!WorkerPCs, WorkerPCs, Proved!Ops, Ops,
         Proved!Forwarding, Forwarding
<1>2. Proved!Spec => []Proved!TypeOK
  BY Proved!TypeCorrect, InstanceAssumptions, CopiesAssumption, BoundsAssumption
<1> QED
  BY SuperIsProved, <1>1, <1>2, PTL

(***************************************************************************)
(* Whatever the order service answers the probes, when its threads run or  *)
(* it restarts: a service called running has a handle, so that a stop      *)
(* reaches its process.                                                    *)
(***************************************************************************)
THEOREM SuperHandleOfRunning == SuperSpec => []RunningHasHandle
<1>1. Proved!RunningHasHandle => RunningHasHandle
  BY DEF Proved!RunningHasHandle, RunningHasHandle, Proved!LoopAt, LoopAt
<1>2. Proved!Spec => []Proved!RunningHasHandle
  BY Proved!HandleOfRunning, InstanceAssumptions, CopiesAssumption, BoundsAssumption
<1> QED
  BY SuperIsProved, <1>1, <1>2, PTL

(***************************************************************************)
(* A start whose probe the order service fails, or does not answer, leaves *)
(* no service starting or stopping behind.                                 *)
(***************************************************************************)
THEOREM SuperTransientsEnd == SuperSpec => []NoTransientLeftBehind
<1>1. Proved!NoTransientLeftBehind => NoTransientLeftBehind
  BY DEF Proved!NoTransientLeftBehind, NoTransientLeftBehind, Proved!LoopAt, LoopAt,
         Proved!Stopping, Stopping
<1>2. Proved!Spec => []Proved!NoTransientLeftBehind
  BY Proved!TransientsEnd, InstanceAssumptions, CopiesAssumption, BoundsAssumption
<1> QED
  BY SuperIsProved, <1>1, <1>2, PTL

(***************************************************************************)
(* The gateway loses track of a copy of the order service only after       *)
(* health_check has marked it stopped over a live process: by              *)
(* HonestWhenCalm because no copy was responsive, or an order was added    *)
(* during the walk of /health.                                             *)
(***************************************************************************)
THEOREM SuperOrphansComeFromDemotion == SuperSpec => []OrphanOnlyAfterDemotion
<1>1. Proved!OrphanOnlyAfterDemotion => OrphanOnlyAfterDemotion
  BY DEF Proved!OrphanOnlyAfterDemotion, OrphanOnlyAfterDemotion, Proved!Orphan, Orphan,
         Proved!Alive, Alive
<1>2. Proved!Spec => []Proved!OrphanOnlyAfterDemotion
  BY Proved!OrphansComeFromDemotion, InstanceAssumptions, CopiesAssumption, BoundsAssumption
<1> QED
  BY SuperIsProved, <1>1, <1>2, PTL

(***************************************************************************)
(* A probe or a POST /orders/ under way at the order service when the      *)
(* manager stops it never brings it back.                                  *)
(***************************************************************************)
THEOREM SuperStoppedStays == SuperSpec => StoppedIsSticky
<1>1. [Proved!StickyStep]_(Proved!vars) => [StickyStep]_vars
  BY DEF Proved!StickyStep, StickyStep, Proved!LoopAt, LoopAt, Proved!Stopping, Stopping,
         Proved!LoopIdle, LoopIdle, Proved!vars, vars, Proved!registry, registry,
         Proved!counters, counters, Proved!world, world
<1>2. Proved!Spec => Proved!StoppedIsSticky
  BY Proved!StoppedStays, InstanceAssumptions, CopiesAssumption, BoundsAssumption
<1> QED
  BY SuperIsProved, <1>1, <1>2, PTL DEF StoppedIsSticky, Proved!StoppedIsSticky

(***************************************************************************)
(* The registry keeps its promises to the manager also when what its       *)
(* health checks find depends on what the order service is doing.          *)
(***************************************************************************)
THEOREM SuperIsLifecycle == SuperSpec => IsLifecycle
<1>1. Proved!Life!Init => Life!Init
  BY Zenon
  DEF Proved!Life!Init, Life!Init, Proved!OrderOn, OrderOn, Proved!LoopAt, LoopAt,
      Proved!Stopping, Stopping
<1>2. [Proved!Life!Next]_(Proved!Life!vars) => [Life!Next]_(Life!vars)
  BY Zenon
  DEF Proved!Life!Next, Proved!Life!vars, Proved!Life!Start, Proved!Life!Stop,
      Proved!Life!Given, Proved!Life!Done, Proved!Life!Started, Proved!Life!NotStarted,
      Proved!Life!Stopped, Proved!Life!NotStopped, Proved!Life!Judge,
      Life!Next, Life!vars, Life!Start, Life!Stop, Life!Given, Life!Done, Life!Started,
      Life!NotStarted, Life!Stopped, Life!NotStopped, Life!Judge,
      Proved!OrderOn, OrderOn, Proved!LoopAt, LoopAt, Proved!Stopping, Stopping
<1>3. Proved!Spec => Proved!IsLifecycle
  BY Proved!RegistryIsLifecycle, InstanceAssumptions, CopiesAssumption, BoundsAssumption
<1> QED
  BY SuperIsProved, <1>1, <1>2, <1>3, PTL
  DEF IsLifecycle, Proved!IsLifecycle, Life!Spec, Proved!Life!Spec
=============================================================================
