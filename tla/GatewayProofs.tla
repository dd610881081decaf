---------------------------- MODULE GatewayProofs ----------------------------
(***************************************************************************)
(* Theorems about Gateway, for any number of services, copies and threads  *)
(* and any capacity of the pipe.                                           *)
(***************************************************************************)
EXTENDS Gateway, TLAPS

Requests == [pc : WorkerPCs, op : Ops \cup {None}, svc : Services \cup {None},
             copy : Copies \cup {None}]

USE DEF Roles, Statuses, LoopPCs, Replies, WorkerPCs, Ops, Forwarding

-----------------------------------------------------------------------------
(* Type correctness.                                                       *)

LEMMA Update2Type ==
  ASSUME NEW S, NEW T, NEW V, NEW f \in [S -> [T -> V]],
         NEW s \in S, NEW c, NEW v \in V
  PROVE  [f EXCEPT ![s][c] = v] \in [S -> [T -> V]]
<1>1. [f[s] EXCEPT ![c] = v] \in [T -> V]
  OBVIOUS
<1> QED
  BY <1>1

\* A request answered by a copy, or not answered, keeps the type of out.
LEMMA AnswersType ==
  ASSUME NEW s, NEW c, TypeOK, Answers(s, c)
  PROVE  out' \in [Services -> [Copies -> 0..PipeCapacity]]
<1>1. out \in [Services -> [Copies -> 0..PipeCapacity]]
  BY DEF TypeOK
<1>2. CASE s \in Services /\ c \in Copies
  <2>1. out[s][c] + 1 \in 0..PipeCapacity
    BY <1>1, <1>2, BoundsAssumption DEF Answers, Responsive
  <2> QED
    BY <1>1, <1>2, <2>1 DEF Answers
<1>3. CASE s \notin Services \/ c \notin Copies
  BY <1>1, <1>3 DEF Answers
<1> QED
  BY <1>2, <1>3

LEMMA TimedRequestType ==
  ASSUME NEW s, NEW reply, TypeOK, TimedRequest(s, reply)
  PROVE  out' \in [Services -> [Copies -> 0..PipeCapacity]]
<1>1. CASE \E c \in Copies : Answers(s, c)
  BY <1>1, AnswersType
<1>2. CASE UNCHANGED out
  BY <1>2 DEF TypeOK
<1> QED
  BY <1>1, <1>2 DEF TimedRequest

LEMMA TypeInit == Init => TypeOK
  BY BoundsAssumption DEF Init, TypeOK, AtRest, Between, Idle

\* Moving a thread to another point of its handler, and writing the flag of
\* the service it serves, keep the types of worker and healthy.
LEMMA MoveType ==
  ASSUME NEW t \in Workers, NEW pc \in WorkerPCs, TypeOK, Move(t, pc)
  PROVE  worker' \in [Workers -> Requests]
<1>1. worker \in [Workers -> Requests]
  BY DEF TypeOK, Requests
<1>2. [worker[t] EXCEPT !.pc = pc] \in Requests
  BY <1>1 DEF Requests
<1>3. worker' = [worker EXCEPT ![t] = [worker[t] EXCEPT !.pc = pc]]
  BY DEF Move
<1> QED
  BY <1>1, <1>2, <1>3

LEMMA MarkedType ==
  ASSUME NEW t, NEW value \in BOOLEAN, TypeOK, Marked(t, value)
  PROVE  healthy' \in [Services -> BOOLEAN]
  BY DEF TypeOK, Marked

LEMMA TypeStartStop ==
  ASSUME TypeOK, NEW s \in Services,
         \/ \E role \in Roles : StartBegin(s, role) \/ StopBegin(s, role)
         \/ StartStep(s) \/ StopStep(s) \/ StopError(s)
  PROVE  TypeOK'
<1> USE DEF TypeOK, AtRest, Goto, registry, counters, world
<1>1. CASE \E role \in Roles : StartBegin(s, role) \/ StopBegin(s, role)
  BY <1>1 DEF StartBegin, StopBegin
<1>2. CASE PopenOk(s)
  <2>1. PICK c \in Copies :
          /\ proc' = [proc EXCEPT ![s] = [proc[s] EXCEPT ![c] = "booting"]]
          /\ process' = [process EXCEPT ![s] = c]
    BY <1>2 DEF PopenOk
  <2>2. [proc[s] EXCEPT ![c] = "booting"] \in [Copies -> {"exited", "booting", "serving"}]
    OBVIOUS
  <2> QED
    BY <1>2, <2>1, <2>2 DEF PopenOk
<1>3. CASE PopenError(s)
  BY <1>3 DEF PopenError
<1>4. CASE StartProbe(s)
  BY <1>4, TimedRequestType DEF StartProbe
<1>5. CASE StartRecord(s)
  BY <1>5 DEF StartRecord
<1>6. CASE StopTerminate(s)
  BY <1>6 DEF StopTerminate
<1>7. CASE StopKill(s)
  <2>1. proc' \in [Services -> [Copies -> {"exited", "booting", "serving"}]]
    BY <1>7, Update2Type DEF StopKill
  <2>2. out' \in [Services -> [Copies -> 0..PipeCapacity]]
    <3>1. 0 \in 0..PipeCapacity
      BY BoundsAssumption
    <3> QED
      BY <1>7, <3>1, Update2Type DEF StopKill
  <2> QED
    BY <1>7, <2>1, <2>2 DEF StopKill
<1>8. CASE StopFinish(s)
  BY <1>8 DEF StopFinish
<1>9. CASE StopError(s)
  BY <1>9 DEF StopError
<1> QED
  BY <1>1, <1>2, <1>3, <1>4, <1>5, <1>6, <1>7, <1>8, <1>9 DEF StartStep, StopStep

LEMMA TypeCommand ==
  ASSUME TypeOK, NEW s \in Services,
         \/ \E value \in BOOLEAN : SetHealthByCommand(s, value)
         \/ CreateUserBegin(s) \/ CreateUserEnd(s)
         \/ \E c \in Copies : Boot(s, c) \/ Exit(s, c)
  PROVE  TypeOK'
<1> USE DEF TypeOK, AtRest, registry, counters, world
<1>1. CASE \E value \in BOOLEAN : SetHealthByCommand(s, value)
  BY <1>1 DEF SetHealthByCommand
<1>2. CASE CreateUserBegin(s)
  BY <1>2 DEF CreateUserBegin
<1>3. CASE CreateUserEnd(s)
  BY <1>3, TimedRequestType DEF CreateUserEnd
<1>4. CASE \E c \in Copies : Boot(s, c)
  BY <1>4 DEF Boot
<1>5. CASE \E c \in Copies : Exit(s, c)
  BY <1>5, BoundsAssumption DEF Exit
<1> QED
  BY <1>1, <1>2, <1>3, <1>4, <1>5

LEMMA TypeHealth ==
  ASSUME TypeOK, HealthStep
  PROVE  TypeOK'
<1> USE DEF TypeOK, Between, registry, counters, world
<1>1. CASE HealthRound
  BY <1>1 DEF HealthRound
<1>2. ASSUME NEW s \in Services, HealthSkip(s)
      PROVE  TypeOK'
  BY <1>2 DEF HealthSkip
<1>3. ASSUME NEW s \in Services, HealthVisit(s)
      PROVE  TypeOK'
  BY <1>3 DEF HealthVisit
<1>4. ASSUME NEW s \in Services, HealthGet(s)
      PROVE  TypeOK'
  BY <1>4, TimedRequestType DEF HealthGet
<1>5. ASSUME NEW s \in Services, HealthRecord(s)
      PROVE  TypeOK'
  BY <1>5 DEF HealthRecord, Judge
<1> QED
  BY <1>1, <1>2, <1>3, <1>4, <1>5 DEF HealthStep

LEMMA TypeWorker ==
  ASSUME TypeOK, NEW t \in Workers,
         \/ \E op \in Ops, s \in Services : Dispatch(t, op, s)
         \/ Handle(t) \/ Respond(t)
  PROVE  TypeOK'
<1> USE DEF registry, counters, world
<1>0. SUFFICES /\ worker' \in [Workers -> Requests]
               /\ healthy' \in [Services -> BOOLEAN]
               /\ out' \in [Services -> [Copies -> 0..PipeCapacity]]
               /\ request_count' \in 0..MaxRequests
               /\ current_product_instance' \in {0, 1}
               /\ UNCHANGED <<status, process, proc, loop, hc, demoted>>
  BY DEF TypeOK, Requests
<1>1. CASE \E op \in Ops, s \in Services : Dispatch(t, op, s)
  BY <1>1 DEF Dispatch, TypeOK, Requests
<1>2. CASE Head(t)
  <2>1. worker' \in [Workers -> Requests]
    BY <1>2, MoveType DEF Head
  <2>2. request_count' \in 0..MaxRequests
    BY <1>2, BoundsAssumption DEF Head, TypeOK
  <2>3. current_product_instance' \in {0, 1}
    BY <1>2 DEF Head, TypeOK
  <2> QED
    BY <1>2, <2>1, <2>2, <2>3 DEF Head, TypeOK
<1>3. CASE Connect(t)
  <2>1. PICK c \in Copies :
          worker' = [worker EXCEPT ![t] = [worker[t] EXCEPT !.pc = "waiting",
                                                            !.copy = c]]
    BY <1>3 DEF Connect, TypeOK
  <2>2. worker \in [Workers -> Requests]
    BY DEF TypeOK, Requests
  <2>3. [worker[t] EXCEPT !.pc = "waiting", !.copy = c] \in Requests
    BY <2>2 DEF Requests
  <2>4. worker' \in [Workers -> Requests]
    BY <2>1, <2>2, <2>3
  <2> QED
    BY <1>3, <2>4 DEF Connect, TypeOK
<1>4. CASE Refused(t)
  BY <1>4, MoveType, MarkedType DEF Refused, TypeOK
<1>5. CASE Reply(t)
  <2>1. healthy' \in [Services -> BOOLEAN]
    BY <1>5, MarkedType DEF Reply, TypeOK
  <2> QED
    BY <1>5, <2>1, MoveType, AnswersType DEF Reply, TypeOK
<1>6. CASE Broken(t)
  BY <1>6, MoveType, MarkedType DEF Broken, TypeOK
<1>7. CASE SetHealth(t)
  BY <1>7, MoveType, MarkedType DEF SetHealth, TypeOK
<1>8. CASE ReadStatus(t)
  BY <1>8, MoveType DEF ReadStatus, TypeOK
<1>9. CASE Respond(t)
  BY <1>9 DEF Respond, Idle, TypeOK, Requests
<1> QED
  BY <1>1, <1>2, <1>3, <1>4, <1>5, <1>6, <1>7, <1>8, <1>9 DEF Handle

LEMMA TypeStep == TypeOK /\ [Next]_vars => TypeOK'
<1> SUFFICES ASSUME TypeOK, [Next]_vars
             PROVE  TypeOK'
  OBVIOUS
<1>1. CASE UNCHANGED vars
  BY <1>1 DEF TypeOK, vars, registry, counters, world
<1>2. CASE Command \/ LoopStep \/ (\E s \in Services : StopError(s))
  BY <1>2, TypeStartStop, TypeCommand DEF Command, LoopStep
<1>3. CASE HealthStep
  BY <1>3, TypeHealth
<1>4. CASE \E t \in Workers : \/ \E op \in Ops, s \in Services : Dispatch(t, op, s)
                              \/ Handle(t) \/ Respond(t)
  BY <1>4, TypeWorker
<1>5. CASE \E s \in Services, c \in Copies : Boot(s, c) \/ Exit(s, c)
  BY <1>5, TypeCommand
<1> QED
  BY <1>1, <1>2, <1>3, <1>4, <1>5 DEF Next

\* Every reachable state is well typed: the pipe of a process never holds
\* more than it can, the instance counter stays in {0, 1}.
THEOREM TypeCorrect == Spec => []TypeOK
  BY TypeInit, TypeStep, PTL DEF Spec

-----------------------------------------------------------------------------
(***************************************************************************)
(* Which process the registry knows of.  HandleInv is what makes the three *)
(* invariants inductive: while a stop is at work there is a handle, and a  *)
(* live handle that a start may overwrite belongs to a demoted service.    *)
(***************************************************************************)
StopHasHandle ==
  \A s \in Services : Stopping(s) => process[s] # None

LiveHandleExplained ==
  \A s \in Services :
    /\ LiveHandle(s)
    /\ \/ status[s] = "stopped" /\ ~Stopping(s)
       \/ LoopAt(s, "popen")
    => demoted[s]

HandleInv ==
  /\ RunningHasHandle
  /\ NoTransientLeftBehind
  /\ StopHasHandle
  /\ LiveHandleExplained
  /\ OrphanOnlyAfterDemotion

IInv == TypeOK /\ HandleInv

LEMMA HandleInit == Init => HandleInv
  BY CopiesAssumption
  DEF Init, HandleInv, RunningHasHandle, NoTransientLeftBehind, StopHasHandle,
      LiveHandleExplained, OrphanOnlyAfterDemotion, LoopAt, Stopping,
      LiveHandle, Alive, Orphan, AtRest

\* What HandleInv says of one service.
HandleOk(s) ==
  /\ status[s] = "running" /\ process[s] = None => LoopAt(s, "popen")
  /\ status[s] = "starting" => LoopAt(s, "popen")
  /\ status[s] = "stopping" => Stopping(s)
  /\ Stopping(s) => process[s] # None
  /\ LiveHandle(s) /\ status[s] = "stopped" /\ ~Stopping(s) => demoted[s]
  /\ LiveHandle(s) /\ LoopAt(s, "popen") => demoted[s]
  /\ \A c \in Copies : Orphan(s, c) => demoted[s]

LEMMA HandleSplit == /\ HandleInv <=> \A s \in Services : HandleOk(s)
                     /\ HandleInv' <=> \A s \in Services : HandleOk(s)'
  BY DEF HandleInv, HandleOk, RunningHasHandle, NoTransientLeftBehind,
         StopHasHandle, LiveHandleExplained, OrphanOnlyAfterDemotion

\* A step that changes nothing of a service, and in which the loop neither
\* leaves it nor comes to it, keeps what the invariant says of it.
LEMMA HandleFrame ==
  ASSUME NEW s, HandleOk(s),
         /\ status'[s] = status[s] /\ process'[s] = process[s]
         /\ proc'[s] = proc[s] /\ demoted'[s] = demoted[s],
         \/ UNCHANGED loop
         \/ loop.svc # s /\ loop'.svc # s
         \/ LoopIdle /\ loop'.svc # s
         \/ loop.svc # s /\ loop'.pc = "idle"
  PROVE  HandleOk(s)'
  BY DEF HandleOk, LoopAt, LoopIdle, Stopping, LiveHandle, Alive, Orphan

LEMMA HandleStart ==
  ASSUME IInv, NEW s \in Services, NEW r \in Services,
         \/ \E role \in Roles : StartBegin(s, role)
         \/ StartStep(s)
  PROVE  HandleOk(r)'
<1>1. HandleOk(r) /\ HandleOk(s)
  BY HandleSplit DEF IInv
<1>2. TypeOK
  BY DEF IInv
<1>3. CASE r # s
  <2>1. /\ status'[r] = status[r] /\ process'[r] = process[r]
        /\ proc'[r] = proc[r] /\ demoted'[r] = demoted[r]
    <3>1. CASE PopenOk(s)
      BY <1>2, <1>3, <3>1 DEF PopenOk, TypeOK
    <3>2. CASE \E role \in Roles : StartBegin(s, role)
      BY <1>2, <1>3, <3>2 DEF StartBegin, TypeOK, world
    <3>3. CASE PopenError(s)
      BY <1>2, <1>3, <3>3 DEF PopenError, TypeOK, world
    <3>4. CASE StartProbe(s) \/ StartRecord(s)
      BY <3>4 DEF StartProbe, StartRecord, registry, world
    <3> QED
      BY <3>1, <3>2, <3>3, <3>4 DEF StartStep
  <2>2. \/ LoopIdle /\ loop'.svc # r
        \/ loop.svc # r /\ loop'.svc # r
        \/ loop.svc # r /\ loop'.pc = "idle"
    <3>1. CASE \E role \in Roles : StartBegin(s, role)
      BY <1>3, <3>1 DEF StartBegin, AtRest
    <3>2. CASE StartStep(s)
      <4>1. loop.svc = s
        BY <3>2 DEF StartStep, PopenOk, PopenError, StartProbe, StartRecord, LoopAt
      <4>2. CASE PopenOk(s) \/ StartProbe(s)
        BY <1>2, <1>3, <4>1, <4>2 DEF PopenOk, StartProbe, Goto, TypeOK
      <4>3. CASE PopenError(s) \/ StartRecord(s)
        BY <1>3, <4>1, <4>3 DEF PopenError, StartRecord, AtRest
      <4> QED
        BY <3>2, <4>2, <4>3 DEF StartStep
    <3> QED
      BY <3>1, <3>2
  <2> QED
    BY <1>1, <2>1, <2>2, HandleFrame
<1> USE DEF HandleOk, LoopAt, LoopIdle, Stopping, LiveHandle, Alive, Orphan, AtRest
<1>4. ASSUME r = s, NEW role \in Roles, StartBegin(s, role)
      PROVE  HandleOk(s)'
  BY <1>1, <1>2, <1>4 DEF StartBegin, TypeOK, world
<1>5. CASE r = s /\ PopenOk(s)
  BY <1>1, <1>2, <1>5, CopiesAssumption DEF PopenOk, TypeOK, Goto, Fresh
<1>6. CASE r = s /\ PopenError(s)
  BY <1>1, <1>2, <1>6 DEF PopenError, TypeOK, world
<1>7. CASE r = s /\ StartProbe(s)
  BY <1>1, <1>2, <1>7 DEF StartProbe, TypeOK, registry
<1>8. CASE r = s /\ StartRecord(s)
  BY <1>1, <1>2, <1>8 DEF StartRecord, TypeOK, world
<1> QED
  BY <1>3, <1>4, <1>5, <1>6, <1>7, <1>8 DEF StartStep

LEMMA HandleStop ==
  ASSUME IInv, NEW s \in Services, NEW r \in Services,
         \/ \E role \in Roles : StopBegin(s, role)
         \/ StopStep(s) \/ StopError(s)
  PROVE  HandleOk(r)'
<1>1. HandleOk(r) /\ HandleOk(s)
  BY HandleSplit DEF IInv
<1>2. TypeOK
  BY DEF IInv
<1>3. CASE r # s
  <2>1. /\ status'[r] = status[r] /\ process'[r] = process[r]
        /\ proc'[r] = proc[r] /\ demoted'[r] = demoted[r]
    <3>1. CASE StopKill(s)
      BY <1>2, <1>3, <3>1 DEF StopKill, TypeOK, registry
    <3>2. CASE \E role \in Roles : StopBegin(s, role)
      BY <1>2, <1>3, <3>2 DEF StopBegin, TypeOK, world
    <3>3. CASE StopTerminate(s)
      BY <3>3 DEF StopTerminate, registry, world
    <3>4. CASE StopFinish(s)
      BY <1>2, <1>3, <3>4 DEF StopFinish, TypeOK, world
    <3>5. CASE StopError(s)
      BY <1>2, <1>3, <3>5 DEF StopError, TypeOK, world
    <3> QED
      BY <3>1, <3>2, <3>3, <3>4, <3>5 DEF StopStep
  <2>2. \/ LoopIdle /\ loop'.svc # r
        \/ loop.svc # r /\ loop'.svc # r
        \/ loop.svc # r /\ loop'.pc = "idle"
    <3>1. CASE \E role \in Roles : StopBegin(s, role)
      BY <1>3, <3>1 DEF StopBegin, AtRest
    <3>2. CASE StopTerminate(s) \/ StopKill(s)
      BY <1>2, <1>3, <3>2 DEF StopTerminate, StopKill, Goto, LoopAt, TypeOK
    <3>3. CASE StopFinish(s) \/ StopError(s)
      BY <1>3, <3>3 DEF StopFinish, StopFinished, StopError, LoopAt, AtRest
    <3> QED
      BY <3>1, <3>2, <3>3 DEF StopStep
  <2> QED
    BY <1>1, <2>1, <2>2, HandleFrame
<1> USE DEF HandleOk, LoopAt, LoopIdle, Stopping, LiveHandle, Alive, Orphan, AtRest
<1>4. ASSUME r = s, NEW role \in Roles, StopBegin(s, role)
      PROVE  HandleOk(s)'
  BY <1>1, <1>2, <1>4 DEF StopBegin, TypeOK, world
<1>5. CASE r = s /\ StopTerminate(s)
  BY <1>1, <1>2, <1>5 DEF StopTerminate, TypeOK, registry, world, Goto
<1>6. CASE r = s /\ StopKill(s)
  BY <1>1, <1>2, <1>6 DEF StopKill, TypeOK, registry
<1>7. CASE r = s /\ StopFinish(s)
  BY <1>1, <1>2, <1>7 DEF StopFinish, StopFinished, TypeOK, world
<1>8. CASE r = s /\ StopError(s)
  BY <1>1, <1>2, <1>8 DEF StopError, TypeOK, world
<1> QED
  BY <1>3, <1>4, <1>5, <1>6, <1>7, <1>8 DEF StopStep

LEMMA HandleJudged ==
  ASSUME IInv, NEW s \in Services, NEW r \in Services, HealthRecord(s)
  PROVE  HandleOk(r)'
<1>1. HandleOk(r) /\ HandleOk(s)
  BY HandleSplit DEF IInv
<1>2. TypeOK
  BY DEF IInv
<1>3. UNCHANGED <<process, proc, loop>>
  BY DEF HealthRecord, world
<1>4. CASE r # s \/ status[s] = "stopped"
  <2>1. status'[r] = status[r] /\ demoted'[r] = demoted[r]
    <3>1. CASE status[s] = "stopped"
      BY <3>1 DEF HealthRecord
    <3>2. CASE r # s /\ status[s] # "stopped"
      <4>1. Judge(s, hc.reply = "ok")
        BY <3>2 DEF HealthRecord
      <4> QED
        BY <1>2, <3>2, <4>1 DEF Judge, TypeOK
    <3> QED
      BY <1>4, <3>1, <3>2
  <2> QED
    BY <1>1, <1>3, <2>1, HandleFrame
<1>5. CASE r = s /\ status[s] # "stopped"
  <2>1. Judge(s, hc.reply = "ok")
    BY <1>5 DEF HealthRecord
  <2>2. /\ status'[s] \in {"running", "stopped"}
        /\ status'[s] = "stopped" /\ LiveHandle(s) => demoted'[s]
        /\ demoted[s] => demoted'[s]
    <3>1. CASE hc.reply = "ok"
      <4>1. status' = [status EXCEPT ![s] = "running"]
        BY <2>1, <3>1 DEF Judge
      <4>2. demoted' = [demoted EXCEPT ![s] = demoted[s]]
        BY <1>2, <2>1, <3>1, Zenon DEF Judge, TypeOK
      <4> QED
        BY <1>2, <4>1, <4>2 DEF TypeOK
    <3>2. CASE hc.reply # "ok"
      <4>1. status' = [status EXCEPT ![s] = "stopped"]
        BY <2>1, <3>2 DEF Judge
      <4>2. demoted' = [demoted EXCEPT ![s] =
                          demoted[s] \/ (~(hc.reply = "ok") /\ LiveHandle(s))]
        BY <2>1, Zenon DEF Judge
      <4>3. demoted[s] \/ LiveHandle(s) => demoted'[s]
        BY <1>2, <3>2, <4>2, Zenon DEF TypeOK
      <4> QED
        BY <1>2, <4>1, <4>3 DEF TypeOK
    <3> QED
      BY <3>1, <3>2
  <2>3. /\ LoopAt(s, "popen")' <=> LoopAt(s, "popen")
        /\ Stopping(s)' <=> Stopping(s)
        /\ LiveHandle(s)' <=> LiveHandle(s)
        /\ \A c \in Copies : Orphan(s, c)' <=> Orphan(s, c)
    BY <1>3 DEF LoopAt, Stopping, LiveHandle, Alive, Orphan
  <2>4. status[s] \in Statuses
    BY <1>2 DEF TypeOK
  <2>5. /\ status'[s] = "running" /\ process[s] = None => LoopAt(s, "popen")
        /\ status'[s] = "starting" => LoopAt(s, "popen")
        /\ status'[s] = "stopping" => Stopping(s)
        /\ Stopping(s) => process[s] # None
    BY <1>1, <1>5, <2>2, <2>4 DEF HandleOk
  <2>6. /\ LiveHandle(s) /\ status'[s] = "stopped" => demoted'[s]
        /\ LiveHandle(s) /\ LoopAt(s, "popen") => demoted'[s]
        /\ \A c \in Copies : Orphan(s, c) => demoted'[s]
    BY <1>1, <2>2, Zenon DEF HandleOk
  <2> QED
    BY <1>3, <1>5, <2>3, <2>5, <2>6, Zenon DEF HandleOk
<1> QED
  BY <1>4, <1>5

LEMMA HandleProcess ==
  ASSUME IInv, NEW s \in Services, NEW c \in Copies, NEW r \in Services,
         Boot(s, c) \/ Exit(s, c)
  PROVE  HandleOk(r)'
<1>1. HandleOk(r)
  BY HandleSplit DEF IInv
<1>2. UNCHANGED <<status, process, loop, demoted>>
  BY DEF Boot, Exit, registry
<1>3. ASSUME NEW d, Alive(r, d)', d \in Copies
      PROVE  Alive(r, d)
  <2>1. CASE Boot(s, c)
    BY <1>3, <2>1 DEF Alive, Boot, IInv, TypeOK
  <2>2. CASE Exit(s, c)
    BY <1>3, <2>2 DEF Alive, Exit, IInv, TypeOK
  <2> QED
    BY <2>1, <2>2
<1>4. process[r] = None \/ process[r] \in Copies
  BY DEF IInv, TypeOK
<1> QED
  BY <1>1, <1>2, <1>3, <1>4 DEF HandleOk, LoopAt, Stopping, LiveHandle, Orphan

\* The steps that touch neither status nor process, nor a process, and leave
\* the loop alone or come to it or leave it for "create user".
LEMMA HandleOther ==
  ASSUME IInv, NEW r \in Services, UNCHANGED <<status, process, proc, demoted>>,
         \/ UNCHANGED loop
         \/ LoopIdle /\ loop'.pc = "create"
         \/ loop.pc = "create" /\ loop'.pc = "idle"
  PROVE  HandleOk(r)'
  BY HandleSplit
  DEF IInv, HandleOk, LoopAt, LoopIdle, Stopping, LiveHandle, Alive, Orphan

LEMMA HandleStep == IInv /\ [Next]_vars => HandleInv'
<1> SUFFICES ASSUME IInv, [Next]_vars, NEW r \in Services
             PROVE  HandleOk(r)'
  BY HandleSplit
<1>1. CASE UNCHANGED vars
  BY <1>1, HandleOther DEF vars, registry, world
<1>2. ASSUME NEW s \in Services,
             \/ \E role \in Roles : StartBegin(s, role) \/ StopBegin(s, role)
             \/ StartStep(s) \/ StopStep(s) \/ StopError(s)
      PROVE  HandleOk(r)'
  BY <1>2, HandleStart, HandleStop
<1>3. ASSUME NEW s \in Services,
             \/ \E value \in BOOLEAN : SetHealthByCommand(s, value)
             \/ CreateUserBegin(s) \/ CreateUserEnd(s)
      PROVE  HandleOk(r)'
  <2>1. CASE \E value \in BOOLEAN : SetHealthByCommand(s, value)
    BY <2>1, HandleOther DEF SetHealthByCommand, world
  <2>2. CASE CreateUserBegin(s)
    BY <2>2, HandleOther DEF CreateUserBegin, registry, world, AtRest
  <2>3. CASE CreateUserEnd(s)
    BY <2>3, HandleOther DEF CreateUserEnd, registry, LoopAt, AtRest
  <2> QED
    BY <1>3, <2>1, <2>2, <2>3
<1>4. CASE HealthStep
  <2>1. ASSUME NEW s \in Services, HealthRecord(s)
        PROVE  HandleOk(r)'
    BY <2>1, HandleJudged
  <2>2. CASE HealthRound
    BY <2>2, HandleOther DEF HealthRound, registry, world
  <2>3. ASSUME NEW s \in Services,
               HealthSkip(s) \/ HealthVisit(s) \/ HealthGet(s)
        PROVE  HandleOk(r)'
    BY <2>3, HandleOther DEF HealthSkip, HealthVisit, HealthGet, registry, world
  <2> QED
    BY <1>4, <2>1, <2>2, <2>3 DEF HealthStep
<1>5. ASSUME NEW t \in Workers,
             \/ \E op \in Ops, s \in Services : Dispatch(t, op, s)
             \/ Handle(t) \/ Respond(t)
      PROVE  HandleOk(r)'
  <2>1. UNCHANGED <<status, process, proc, loop, demoted>>
    BY <1>5 DEF Dispatch, Handle, Respond, Head, Connect, Refused, Reply,
       Broken, SetHealth, ReadStatus, registry, world
  <2> QED
    BY <2>1, HandleOther
<1>6. CASE \E s \in Services, c \in Copies : Boot(s, c) \/ Exit(s, c)
  BY <1>6, HandleProcess
<1> QED
  BY <1>1, <1>2, <1>3, <1>4, <1>5, <1>6 DEF Next, Command, LoopStep

LEMMA Invariance == Spec => []IInv
<1>1. Init => IInv
  BY TypeInit, HandleInit DEF IInv
<1>2. IInv /\ [Next]_vars => IInv'
  BY TypeStep, HandleStep DEF IInv
<1> QED
  BY <1>1, <1>2, PTL DEF Spec

\* The test of the handle in stop_service_process never fails: a running
\* service has one, except while it is being started.
THEOREM HandleOfRunning == Spec => []RunningHasHandle
<1>1. IInv => RunningHasHandle
  BY DEF IInv, HandleInv
<1> QED
  BY <1>1, Invariance, PTL

\* No service is left "starting" or "stopping" once the operation is over.
THEOREM TransientsEnd == Spec => []NoTransientLeftBehind
<1>1. IInv => NoTransientLeftBehind
  BY DEF IInv, HandleInv
<1> QED
  BY <1>1, Invariance, PTL

\* Only a service that health_check marked stopped over a live process can
\* have a process that the gateway has lost track of.
THEOREM OrphansComeFromDemotion == Spec => []OrphanOnlyAfterDemotion
<1>1. IInv => OrphanOnlyAfterDemotion
  BY DEF IInv, HandleInv
<1> QED
  BY <1>1, Invariance, PTL

-----------------------------------------------------------------------------
(* The action property.                                                    *)

LEMMA StickyLoop ==
  ASSUME TypeOK, NEW r \in Services,
         status[r] = "stopped", status'[r] # "stopped", NEW s \in Services,
         \/ \E role \in Roles : StartBegin(s, role) \/ StopBegin(s, role)
         \/ StartStep(s) \/ StopStep(s) \/ StopError(s)
  PROVE  /\ hc' = hc /\ worker' = worker
         /\ LoopAt(r, "popen") \/ Stopping(r) \/ (LoopIdle /\ loop'.svc = r)
<1>1. CASE \E role \in Roles : StartBegin(s, role)
  BY <1>1 DEF StartBegin, TypeOK, AtRest
<1>2. CASE \E role \in Roles : StopBegin(s, role)
  BY <1>2 DEF StopBegin, TypeOK
<1>3. CASE PopenOk(s)
  BY <1>3 DEF PopenOk, TypeOK
<1>4. CASE PopenError(s) \/ StopFinish(s)
  BY <1>4 DEF PopenError, StopFinish, TypeOK
<1>5. CASE StartProbe(s) \/ StartRecord(s) \/ StopTerminate(s) \/ StopKill(s)
  BY <1>5 DEF StartProbe, StartRecord, StopTerminate, StopKill, registry
<1>6. CASE StopError(s)
  BY <1>6 DEF StopError, TypeOK, Stopping
<1> QED
  BY <1>1, <1>2, <1>3, <1>4, <1>5, <1>6 DEF StartStep, StopStep

LEMMA StickyRest ==
  ASSUME TypeOK, NEW r \in Services, status[r] = "stopped",
         \/ \E s \in Services :
              \/ \E value \in BOOLEAN : SetHealthByCommand(s, value)
              \/ CreateUserBegin(s) \/ CreateUserEnd(s)
         \/ HealthStep
         \/ \E t \in Workers :
              \/ \E op \in Ops, s \in Services : Dispatch(t, op, s)
              \/ Handle(t) \/ Respond(t)
         \/ \E s \in Services, c \in Copies : Boot(s, c) \/ Exit(s, c)
  PROVE  status'[r] = "stopped"
<1>1. ASSUME NEW s \in Services, HealthRecord(s)
      PROVE  status'[r] = "stopped"
  <2>1. CASE status[s] = "stopped"
    BY <1>1, <2>1 DEF HealthRecord
  <2>2. CASE status[s] # "stopped"
    <3>1. Judge(s, hc.reply = "ok")
      BY <1>1, <2>2 DEF HealthRecord
    <3> QED
      BY <2>2, <3>1 DEF Judge, TypeOK
  <2> QED
    BY <2>1, <2>2
<1>2. CASE HealthStep
  BY <1>1, <1>2 DEF HealthStep, HealthRound, HealthSkip, HealthVisit, HealthGet,
     registry
<1>3. CASE \E s \in Services :
             \/ \E value \in BOOLEAN : SetHealthByCommand(s, value)
             \/ CreateUserBegin(s) \/ CreateUserEnd(s)
  BY <1>3 DEF SetHealthByCommand, CreateUserBegin, CreateUserEnd, registry
<1>4. CASE \E t \in Workers :
             \/ \E op \in Ops, s \in Services : Dispatch(t, op, s)
             \/ Handle(t) \/ Respond(t)
  BY <1>4 DEF Dispatch, Handle, Respond, Head, Connect, Refused, Reply, Broken,
     SetHealth, ReadStatus, registry
<1>5. CASE \E s \in Services, c \in Copies : Boot(s, c) \/ Exit(s, c)
  BY <1>5 DEF Boot, Exit, registry
<1> QED
  BY <1>2, <1>3, <1>4, <1>5

\* A health check or a request under way when the manager stops a service
\* never brings it back: only an operation of the event loop does.
THEOREM StoppedStays == Spec => StoppedIsSticky
<1>1. TypeOK /\ [Next]_vars => [StickyStep]_vars
  <2> SUFFICES ASSUME TypeOK, Next, NEW r \in Services,
                      status[r] = "stopped", status'[r] # "stopped"
               PROVE  /\ hc' = hc /\ worker' = worker
                      /\ \/ LoopAt(r, "popen") \/ Stopping(r)
                         \/ LoopIdle /\ loop'.svc = r
    BY DEF StickyStep
  <2> QED
    BY StickyLoop, StickyRest DEF Next, Command, LoopStep
<1> QED
  BY <1>1, TypeCorrect, PTL DEF Spec, StoppedIsSticky
-----------------------------------------------------------------------------
(***************************************************************************)
(* The registry implements Lifecycle.  IInv is all that is needed: that a  *)
(* start finds its service stopped is NoTransientLeftBehind, that a stop   *)
(* finds a process is RunningHasHandle.                                    *)
(***************************************************************************)
KeptNow  == [s \in Services |-> process[s] # None]
OrderNow == [s \in Services |-> OrderOn(s)]

\* An operation on s holds the loop, or takes or frees it.
Holds(s) == loop.svc = s \/ LoopIdle

LEMMA OrderMoves ==
  ASSUME NEW s \in Services, Holds(s), Holds(s)'
  PROVE  OrderNow' = [OrderNow EXCEPT ![s] = OrderOn(s)']
<1>1. \A r \in Services \ {s} : OrderOn(r)' = OrderOn(r)
  BY DEF Holds, OrderOn, LoopAt, Stopping, LoopIdle
<1> QED
  BY <1>1 DEF OrderNow

LEMMA KeptMoves ==
  ASSUME NEW s \in Services, NEW p, TypeOK, process' = [process EXCEPT ![s] = p],
         NEW has \in BOOLEAN, has <=> p # None
  PROVE  KeptNow' = [KeptNow EXCEPT ![s] = has]
<1>1. \A r \in Services : process'[r] = IF r = s THEN p ELSE process[r]
  BY DEF TypeOK
<1> QED
  BY <1>1 DEF KeptNow

\* An order begins when the loop is free.
LEMMA LifeGiven ==
  ASSUME NEW s \in Services, TypeOK, LoopIdle, NEW pc \in LoopPCs,
         loop' = [AtRest EXCEPT !.pc = pc, !.svc = s],
         UNCHANGED process, NEW from, NEW to, status[s] = from,
         status' = [status EXCEPT ![s] = to]
  PROVE  Life!Given(s, from, OrderOn(s)', to)
<1>1. \A r \in Services : OrderOn(r) = "none"
  BY DEF OrderOn, LoopAt, Stopping, LoopIdle
<1>2. OrderNow' = [OrderNow EXCEPT ![s] = OrderOn(s)']
  BY OrderMoves DEF Holds, AtRest
<1> QED
  BY <1>1, <1>2 DEF Life!Given, OrderNow

\* An order ends with the step that writes its result.
LEMMA LifeDone ==
  ASSUME NEW s \in Services, TypeOK, loop.svc = s, Holds(s)', OrderOn(s)' = "none",
         NEW result, status' = [status EXCEPT ![s] = result],
         NEW p, process' = [process EXCEPT ![s] = p],
         NEW word, OrderOn(s) = word,
         NEW has \in BOOLEAN, has <=> p # None
  PROVE  Life!Done(s, word, result, has)
<1>1. OrderNow' = [OrderNow EXCEPT ![s] = "none"]
  BY OrderMoves DEF Holds
<1>2. KeptNow' = [KeptNow EXCEPT ![s] = has]
  BY KeptMoves
<1> QED
  BY <1>1, <1>2 DEF Life!Done, OrderNow, KeptNow

LEMMA LifeSame ==
  ASSUME UNCHANGED <<status, process>>, \A s \in Services : OrderOn(s)' = OrderOn(s)
  PROVE  UNCHANGED Life!vars
  BY DEF Life!vars

LEMMA LifeStart ==
  ASSUME IInv, NEW s \in Services,
         \/ \E role \in Roles : StartBegin(s, role)
         \/ StartStep(s)
  PROVE  [Life!Next]_(Life!vars)
<1>1. TypeOK /\ HandleOk(s)
  BY HandleSplit DEF IInv
<1>2. CASE \E role \in Roles : StartBegin(s, role)
  <2>1. /\ LoopIdle /\ loop' = [AtRest EXCEPT !.pc = "popen", !.svc = s]
        /\ status[s] # "running" /\ status' = [status EXCEPT ![s] = "starting"]
        /\ UNCHANGED process
    BY <1>2 DEF StartBegin
  <2>2. status[s] = "stopped"
    BY <1>1, <2>1 DEF TypeOK, HandleOk, LoopAt, Stopping, LoopIdle
  <2>3. OrderOn(s)' = "start"
    BY <2>1 DEF OrderOn, LoopAt, AtRest
  <2>4. Life!Given(s, "stopped", OrderOn(s)', "starting")
    BY <1>1, <2>1, <2>2, LifeGiven
  <2> QED
    BY <2>3, <2>4 DEF Life!Next, Life!Start
<1>3. CASE PopenOk(s)
  <2>1. PICK c \in Copies : process' = [process EXCEPT ![s] = c]
    BY <1>3 DEF PopenOk
  <2>2. /\ loop.svc = s /\ loop.pc = "popen" /\ loop'.svc = s /\ loop'.pc = "probe"
        /\ status' = [status EXCEPT ![s] = "running"]
    BY <1>1, <1>3 DEF PopenOk, LoopAt, Goto, TypeOK
  <2>3. OrderOn(s) = "start" /\ OrderOn(s)' = "none" /\ Holds(s)'
    BY <2>2 DEF OrderOn, LoopAt, Stopping, Holds
  <2>4. c # None
    BY CopiesAssumption
  <2>5. Life!Done(s, "start", "running", TRUE)
    BY <1>1, <2>1, <2>2, <2>3, <2>4, LifeDone
  <2> QED
    BY <2>5 DEF Life!Next, Life!Started
<1>4. CASE PopenError(s)
  <2>1. /\ loop.svc = s /\ loop.pc = "popen" /\ loop'.pc = "idle"
        /\ status' = [status EXCEPT ![s] = "stopped"]
        /\ process' = [process EXCEPT ![s] = None]
    BY <1>4 DEF PopenError, LoopAt, AtRest
  <2>2. OrderOn(s) = "start" /\ OrderOn(s)' = "none" /\ Holds(s)'
    BY <2>1 DEF OrderOn, LoopAt, Stopping, Holds, LoopIdle
  <2>3. Life!Done(s, "start", "stopped", FALSE)
    BY <1>1, <2>1, <2>2, LifeDone
  <2> QED
    BY <2>3 DEF Life!Next, Life!NotStarted
<1>5. CASE StartProbe(s) \/ StartRecord(s)
  <2>1. \A r \in Services : OrderOn(r) = "none" /\ OrderOn(r)' = "none"
    <3>1. loop.svc = s /\ loop.pc \in {"probe", "probed"}
      BY <1>5 DEF StartProbe, StartRecord, LoopAt
    <3>2. loop'.pc \in {"probed", "idle"}
      <4>1. CASE StartProbe(s)
        <5>1. PICK reply : loop' = [loop EXCEPT !.pc = "probed", !.reply = reply]
          BY <4>1 DEF StartProbe
        <5> QED
          BY <1>1, <5>1 DEF TypeOK
      <4>2. CASE StartRecord(s)
        BY <4>2 DEF StartRecord, AtRest
      <4> QED
        BY <1>5, <4>1, <4>2
    <3> QED
      BY <3>1, <3>2 DEF OrderOn, LoopAt, Stopping
  <2> QED
    BY <1>5, <2>1, LifeSame DEF StartProbe, StartRecord, registry
<1> QED
  BY <1>2, <1>3, <1>4, <1>5 DEF StartStep

LEMMA LifeStop ==
  ASSUME IInv, NEW s \in Services,
         \/ \E role \in Roles : StopBegin(s, role)
         \/ StopStep(s) \/ StopError(s)
  PROVE  [Life!Next]_(Life!vars)
<1>1. TypeOK /\ HandleOk(s)
  BY HandleSplit DEF IInv
<1>2. CASE \E role \in Roles : StopBegin(s, role)
  <2>1. /\ LoopIdle /\ loop' = [AtRest EXCEPT !.pc = "terminate", !.svc = s]
        /\ status[s] = "running" /\ status' = [status EXCEPT ![s] = "stopping"]
        /\ UNCHANGED process
    BY <1>2 DEF StopBegin
  <2>2. process[s] # None
    BY <1>1, <2>1 DEF HandleOk, LoopAt, LoopIdle
  <2>3. OrderOn(s)' = "stop"
    BY <2>1 DEF OrderOn, LoopAt, Stopping, AtRest
  <2>4. Life!Given(s, "running", OrderOn(s)', "stopping")
    BY <1>1, <2>1, LifeGiven
  <2> QED
    BY <2>2, <2>3, <2>4 DEF Life!Next, Life!Stop
<1>3. CASE StopTerminate(s) \/ StopKill(s)
  <2>1. \A r \in Services : OrderOn(r)' = OrderOn(r)
    BY <1>1, <1>3 DEF StopTerminate, StopKill, OrderOn, LoopAt, Stopping, Goto, TypeOK
  <2> QED
    BY <1>3, <2>1, LifeSame DEF StopTerminate, StopKill, registry
<1>4. ASSUME NEW result, NEW p, NEW has \in BOOLEAN, has <=> p # None,
             Stopping(s), loop' = AtRest, status' = [status EXCEPT ![s] = result],
             process' = [process EXCEPT ![s] = p]
      PROVE  Life!Done(s, "stop", result, has)
  <2>1. /\ loop.svc = s /\ OrderOn(s) = "stop"
        /\ OrderOn(s)' = "none" /\ Holds(s)'
    BY <1>4 DEF OrderOn, LoopAt, Stopping, Holds, LoopIdle, AtRest
  <2> QED
    BY <1>1, <1>4, <2>1, LifeDone
<1>5. CASE StopFinish(s)
  <2>1. /\ Stopping(s) /\ loop' = AtRest /\ status' = [status EXCEPT ![s] = "stopped"]
        /\ process' = [process EXCEPT ![s] = None]
    BY <1>5 DEF StopFinish, StopFinished, Stopping
  <2>2. Life!Done(s, "stop", "stopped", FALSE)
    BY <1>4, <2>1
  <2> QED
    BY <2>2 DEF Life!Next, Life!Stopped
<1>6. CASE StopError(s)
  <2>1. /\ Stopping(s) /\ loop' = AtRest /\ status' = [status EXCEPT ![s] = "running"]
        /\ process' = [process EXCEPT ![s] = process[s]] /\ process[s] # None
    BY <1>1, <1>6 DEF StopError, Stopping, TypeOK
  <2>2. Life!Done(s, "stop", "running", TRUE)
    BY <1>4, <2>1
  <2> QED
    BY <2>1, <2>2 DEF Life!Next, Life!NotStopped
<1> QED
  BY <1>2, <1>3, <1>5, <1>6 DEF StopStep

LEMMA LifeHealth ==
  ASSUME IInv, HealthStep
  PROVE  [Life!Next]_(Life!vars)
<1>1. \A s \in Services : OrderOn(s)' = OrderOn(s)
  BY DEF HealthStep, HealthRound, HealthSkip, HealthVisit, HealthGet, HealthRecord,
     OrderOn, LoopAt, Stopping
<1>2. CASE UNCHANGED <<status, process>>
  BY <1>1, <1>2, LifeSame
<1>3. ASSUME NEW s \in Services, HealthRecord(s), status[s] # "stopped"
      PROVE  Life!Judge(s)
  <2>1. UNCHANGED process
    BY <1>3 DEF HealthRecord
  <2>2. \E verdict \in {"running", "stopped"} : status' = [status EXCEPT ![s] = verdict]
    BY <1>3 DEF HealthRecord, Judge
  <2> QED
    BY <1>1, <1>3, <2>1, <2>2 DEF Life!Judge
<1> QED
  BY <1>2, <1>3
  DEF HealthStep, HealthRound, HealthSkip, HealthVisit, HealthGet, HealthRecord,
      registry, Life!Next

LEMMA LifeRest ==
  ASSUME \/ \E s \in Services :
              \/ \E value \in BOOLEAN : SetHealthByCommand(s, value)
              \/ CreateUserBegin(s) \/ CreateUserEnd(s)
         \/ \E t \in Workers :
              \/ \E op \in Ops, s \in Services : Dispatch(t, op, s)
              \/ Handle(t) \/ Respond(t)
         \/ \E s \in Services, c \in Copies : Boot(s, c) \/ Exit(s, c)
  PROVE  UNCHANGED Life!vars
<1>1. UNCHANGED <<status, process>>
  BY DEF SetHealthByCommand, CreateUserBegin, CreateUserEnd, Dispatch, Handle, Respond,
     Head, Connect, Refused, Reply, Broken, SetHealth, ReadStatus, Boot, Exit, registry
<1>2. \/ UNCHANGED loop
      \/ LoopIdle /\ loop'.pc = "create"
      \/ loop.pc = "create" /\ loop'.pc = "idle"
  <2>1. ASSUME NEW s \in Services, CreateUserBegin(s)
        PROVE  LoopIdle /\ loop'.pc = "create"
    BY <2>1 DEF CreateUserBegin, AtRest
  <2>2. ASSUME NEW s \in Services, CreateUserEnd(s)
        PROVE  loop.pc = "create" /\ loop'.pc = "idle"
    BY <2>2 DEF CreateUserEnd, LoopAt, AtRest
  <2>3. CASE \/ \E s \in Services, value \in BOOLEAN : SetHealthByCommand(s, value)
             \/ \E t \in Workers :
                  \/ \E op \in Ops, s \in Services : Dispatch(t, op, s)
                  \/ Handle(t) \/ Respond(t)
             \/ \E s \in Services, c \in Copies : Boot(s, c) \/ Exit(s, c)
    BY <2>3 DEF SetHealthByCommand, Dispatch, Handle, Respond, Head, Connect, Refused,
       Reply, Broken, SetHealth, ReadStatus, Boot, Exit
  <2> QED
    BY <2>1, <2>2, <2>3
<1>3. \A s \in Services : OrderOn(s)' = OrderOn(s)
  BY <1>2 DEF OrderOn, LoopAt, Stopping, LoopIdle
<1> QED
  BY <1>1, <1>3, LifeSame

(***************************************************************************)
(* Whatever health checks and requests interleave with them, the orders of *)
(* the manager are carried out one at a time, each on a service in the     *)
(* state it was meant for, and have the last word on its status and its    *)
(* process; a health check never takes a service out of "stopped".         *)
(***************************************************************************)
THEOREM RegistryIsLifecycle == Spec => IsLifecycle
<1>1. Init => Life!Init
  <2> SUFFICES ASSUME Init PROVE Life!Init
    OBVIOUS
  <2>1. \A s \in Services : process[s] = None /\ OrderOn(s) = "none"
    BY DEF Init, OrderOn, LoopAt, Stopping, AtRest
  <2> QED
    BY <2>1 DEF Init, Life!Init
<1>2. IInv /\ [Next]_vars => [Life!Next]_(Life!vars)
  <2> SUFFICES ASSUME IInv, [Next]_vars PROVE [Life!Next]_(Life!vars)
    OBVIOUS
  <2>1. CASE UNCHANGED vars
    BY <2>1, LifeSame DEF vars, registry, OrderOn, LoopAt, Stopping
  <2> QED
    BY <2>1, LifeStart, LifeStop, LifeHealth, LifeRest DEF Next, Command, LoopStep
<1> QED
  BY <1>1, <1>2, Invariance, PTL DEF Spec, IsLifecycle, Life!Spec
=============================================================================
