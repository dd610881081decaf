------------------------------- MODULE Gateway -------------------------------
(***************************************************************************)
(* The service registry of the API gateway (api_gateway/main.py) and the   *)
(* four kinds of actor that share it:                                      *)
(*                                                                         *)
(*   - the asyncio event loop, which runs start_service_process and        *)
(*     stop_service_process.  Both are "async def" functions that never    *)
(*     await, so they block the loop from their first line to their last;  *)
(*   - the daemon thread of health_check;                                  *)
(*   - the threads of the pool in which FastAPI runs every "def" endpoint: *)
(*     the eight proxy handlers and the simulate_failure, recover and      *)
(*     status endpoints;                                                   *)
(*   - the operating system, which runs the service processes.             *)
(*                                                                         *)
(* No lock protects the registry.  An action is what a thread does between *)
(* two points where CPython may switch threads (a call or blocking I/O):   *)
(* the build is a GIL build, so subscripts, comparisons and assignments to *)
(* the registry's dictionaries that follow one another without a call are  *)
(* one step.                                                               *)
(***************************************************************************)
EXTENDS Naturals

CONSTANTS
  Services,         \* the keys of the dictionary "services"
  Copies,           \* names for the processes of a service alive at one time
  Workers,          \* the threads of the pool that runs "def" endpoints
  UserService,      \* the key the ChatOps command "create user" talks to
  BalancedService,  \* the key whose GET handler rotates the instance counter
  Unreliable,       \* the services that may answer late or with HTTP 500
  PipeCapacity,     \* log lines that fit in the stdout pipe nobody reads
  MaxRequests,      \* bound: request_count saturates here
  None              \* Python's None, and "no value" in the actors' records

ASSUME ServicesAssumption ==
  /\ Unreliable \subseteq Services
  /\ None \notin Services

ASSUME CopiesAssumption == None \notin Copies

ASSUME BoundsAssumption ==
  /\ PipeCapacity \in Nat \ {0}
  /\ MaxRequests \in Nat \ {0}

VARIABLES
  status,     \* services[s]["status"]
  healthy,    \* services[s]["healthy"]
  process,    \* services[s]["process"]: the copy the Popen handle refers to
  request_count,            \* the global of that name
  current_product_instance, \* the global of that name
  proc,       \* proc[s][c]: what the operating system says of copy c of s
  out,        \* out[s][c]: lines waiting in its stdout pipe
  loop,       \* the operation that blocks the event loop, if any
  hc,         \* where health_check is in its loop
  worker,     \* worker[t]: the request thread t of the pool is serving
  demoted     \* history: health_check marked s stopped over a live process

registry == <<status, healthy, process>>
counters == <<request_count, current_product_instance>>
world    == <<proc, out>>
vars     == <<registry, counters, world, loop, hc, worker, demoted>>

Roles         == {"manager", "client"}
Allowed(role) == role = "manager"

AtRest   == [pc |-> "idle", svc |-> None, reply |-> None]
Between  == [pc |-> "pick", svc |-> None, reply |-> None, todo |-> {}]
Idle     == [pc |-> "idle", op |-> None, svc |-> None, copy |-> None]

Init ==
  /\ status  = [s \in Services |-> "stopped"]
  /\ healthy = [s \in Services |-> TRUE]
  /\ process = [s \in Services |-> None]
  /\ request_count = 0
  /\ current_product_instance = 0
  /\ proc    = [s \in Services |-> [c \in Copies |-> "exited"]]
  /\ out     = [s \in Services |-> [c \in Copies |-> 0]]
  /\ loop    = AtRest
  /\ hc      = Between
  /\ worker  = [t \in Workers |-> Idle]
  /\ demoted = [s \in Services |-> FALSE]

-----------------------------------------------------------------------------
(***************************************************************************)
(* The operating system and the service processes.  A service writes its   *)
(* access log to the stdout pipe before it sends a response, and the       *)
(* gateway never reads that pipe: once it is full, the write blocks the    *)
(* service for good.                                                       *)
(***************************************************************************)
Alive(s, c)   == proc[s][c] # "exited"
Serving(s, c) == proc[s][c] = "serving"

Responsive(s, c) == Serving(s, c) /\ out[s][c] < PipeCapacity
Hung(s, c)       == Serving(s, c) /\ out[s][c] = PipeCapacity

\* Copy c handles a request: one more line in its pipe.
Answers(s, c) ==
  /\ Responsive(s, c)
  /\ out' = [out EXCEPT ![s][c] = @ + 1]

\* A new process binds its port, or exits because another copy holds it.
Boot(s, c) ==
  /\ proc[s][c] = "booting"
  /\ proc' = [proc EXCEPT ![s][c] =
                IF \E d \in Copies : Serving(s, d) THEN "exited" ELSE "serving"]
  /\ UNCHANGED <<registry, counters, out, loop, hc, worker, demoted>>

\* A process ends: it crashed, or it obeyed the signal of terminate().
Exit(s, c) ==
  /\ Alive(s, c)
  /\ proc' = [proc EXCEPT ![s][c] = "exited"]
  /\ out'  = [out EXCEPT ![s][c] = 0]
  /\ UNCHANGED <<registry, counters, loop, hc, worker, demoted>>

\* A name for a new process that neither a handle nor a request refers to.
Fresh(s, c) ==
  /\ ~Alive(s, c)
  /\ process[s] # c
  /\ \A t \in Workers : worker[t].svc = s => worker[t].copy # c

\* A request with a timeout, requests.get(f"{host}/health", timeout=2): 200,
\* another status, or an exception (refused, or no answer in time).
TimedRequest(s, reply) ==
  \/ /\ reply \in {"ok"} \cup (IF s \in Unreliable THEN {"bad", "fail"} ELSE {})
     /\ \E c \in Copies : Answers(s, c)
  \/ /\ reply = "fail"
     /\ \A c \in Copies : ~Responsive(s, c)
     /\ UNCHANGED out

-----------------------------------------------------------------------------
(***************************************************************************)
(* The event loop.  While loop.pc # "idle" one coroutine holds the loop.   *)
(***************************************************************************)
LoopIdle       == loop.pc = "idle"
LoopAt(s, pc)  == loop.svc = s /\ loop.pc = pc
Goto(pc)       == loop' = [loop EXCEPT !.pc = pc]

\* Mutant of StartBegin: without the test for a service already running.
StartBeginAlways(s, role) ==
  /\ LoopIdle
  /\ Allowed(role)
  /\ \E c \in Copies : Fresh(s, c)
  /\ status' = [status EXCEPT ![s] = "starting"]
  /\ loop' = [AtRest EXCEPT !.pc = "popen", !.svc = s]
  /\ UNCHANGED <<healthy, process, counters, world, hc, worker, demoted>>

\* POST /management/start/{s} or "start s" on the WebSocket.  The request for
\* a fresh copy is the model's bound on the copies alive at one time.
StartBegin(s, role) ==
  /\ LoopIdle
  /\ Allowed(role)
  /\ status[s] # "running"
  /\ \E c \in Copies : Fresh(s, c)
  /\ status' = [status EXCEPT ![s] = "starting"]
  /\ loop' = [AtRest EXCEPT !.pc = "popen", !.svc = s]
  /\ UNCHANGED <<healthy, process, counters, world, hc, worker, demoted>>

\* Mutant of PopenOk: the handle is not stored.
PopenOkDropsHandle(s) ==
  /\ LoopAt(s, "popen")
  /\ \E c \in Copies : Fresh(s, c) /\ proc' = [proc EXCEPT ![s][c] = "booting"]
  /\ status' = [status EXCEPT ![s] = "running"]
  /\ Goto("probe")
  /\ UNCHANGED <<healthy, process, counters, out, hc, worker, demoted>>

\* subprocess.Popen returns a handle; whatever handle was there is dropped.
PopenOk(s) ==
  /\ LoopAt(s, "popen")
  /\ \E c \in Copies :
       /\ Fresh(s, c)
       /\ proc' = [proc EXCEPT ![s][c] = "booting"]
       /\ process' = [process EXCEPT ![s] = c]
  /\ status' = [status EXCEPT ![s] = "running"]
  /\ Goto("probe")
  /\ UNCHANGED <<healthy, counters, out, hc, worker, demoted>>

\* Mutant of PopenError: the handler forgets the status.
PopenErrorKeepsStatus(s) ==
  /\ LoopAt(s, "popen")
  /\ process' = [process EXCEPT ![s] = None]
  /\ loop' = AtRest
  /\ UNCHANGED <<status, healthy, counters, world, hc, worker, demoted>>

PopenError(s) ==
  /\ LoopAt(s, "popen")
  /\ status' = [status EXCEPT ![s] = "stopped"]
  /\ process' = [process EXCEPT ![s] = None]
  /\ loop' = AtRest
  /\ UNCHANGED <<healthy, counters, world, hc, worker, demoted>>

\* After time.sleep(3): the start's own request to /health.
StartProbe(s) ==
  /\ LoopAt(s, "probe")
  /\ \E reply \in {"ok", "bad", "fail"} :
       /\ TimedRequest(s, reply)
       /\ loop' = [loop EXCEPT !.pc = "probed", !.reply = reply]
  /\ UNCHANGED <<registry, counters, proc, hc, worker, demoted>>

StartRecord(s) ==
  /\ LoopAt(s, "probed")
  /\ healthy' = [healthy EXCEPT ![s] = loop.reply = "ok"]
  /\ loop' = AtRest
  /\ UNCHANGED <<status, process, counters, world, hc, worker, demoted>>

\* POST /management/stop/{s} or "stop s" on the WebSocket.
StopBegin(s, role) ==
  /\ LoopIdle
  /\ Allowed(role)
  /\ status[s] = "running"
  /\ status' = [status EXCEPT ![s] = "stopping"]
  /\ loop' = [AtRest EXCEPT !.pc = "terminate", !.svc = s]
  /\ UNCHANGED <<healthy, process, counters, world, hc, worker, demoted>>

\* terminate() has sent its signal; the target obeys by Exit, or it does not.
StopTerminate(s) ==
  /\ LoopAt(s, "terminate")
  /\ process[s] # None
  /\ Goto("waiting")
  /\ UNCHANGED <<registry, counters, world, hc, worker, demoted>>

\* terminate() or kill() raises: the handler puts the status back.
StopError(s) ==
  /\ LoopAt(s, "terminate") \/ LoopAt(s, "waiting")
  /\ process[s] # None
  /\ Alive(s, process[s])
  /\ status' = [status EXCEPT ![s] = "running"]
  /\ loop' = AtRest
  /\ UNCHANGED <<healthy, process, counters, world, hc, worker, demoted>>

\* Mutant of StopKill: a process that ignores terminate() is waited for.
StopKillForgotten(s) == FALSE

\* wait(timeout=5) has expired: kill().
StopKill(s) ==
  /\ LoopAt(s, "waiting")
  /\ Alive(s, process[s])
  /\ proc' = [proc EXCEPT ![s][process[s]] = "exited"]
  /\ out'  = [out EXCEPT ![s][process[s]] = 0]
  /\ UNCHANGED <<registry, counters, loop, hc, worker, demoted>>

\* wait() has returned, or there was no handle to wait for.
StopFinished(s) ==
  IF process[s] = None
  THEN LoopAt(s, "terminate")
  ELSE LoopAt(s, "waiting") /\ ~Alive(s, process[s])

StopFinish(s) ==
  /\ StopFinished(s)
  /\ process' = [process EXCEPT ![s] = None]
  /\ status'  = [status EXCEPT ![s] = "stopped"]
  /\ healthy' = [healthy EXCEPT ![s] = FALSE]
  /\ loop' = AtRest
  /\ UNCHANGED <<counters, world, hc, worker, demoted>>

\* ChatOps "fail s" and "recover s": one assignment, made on the loop.
SetHealthByCommand(s, value) ==
  /\ LoopIdle
  /\ healthy' = [healthy EXCEPT ![s] = value]
  /\ UNCHANGED <<status, process, counters, world, loop, hc, worker, demoted>>

\* ChatOps "create user ...": a POST with timeout=5 made on the loop, which
\* looks at neither status nor healthy and changes neither.
CreateUserBegin(s) ==
  /\ LoopIdle
  /\ s = UserService
  /\ loop' = [AtRest EXCEPT !.pc = "create", !.svc = s]
  /\ UNCHANGED <<registry, counters, world, hc, worker, demoted>>

CreateUserEnd(s) ==
  /\ LoopAt(s, "create")
  /\ TimedRequest(s, "ok") \/ TimedRequest(s, "fail")
  /\ loop' = AtRest
  /\ UNCHANGED <<registry, counters, proc, hc, worker, demoted>>

-----------------------------------------------------------------------------
(***************************************************************************)
(* The thread of health_check.  The order in which a round visits the      *)
(* services is left open; sleeping ten seconds takes no step.              *)
(***************************************************************************)
HealthRound ==
  /\ hc.pc = "pick" /\ hc.todo = {}
  /\ hc' = [hc EXCEPT !.todo = Services]
  /\ UNCHANGED <<registry, counters, world, loop, worker, demoted>>

\* The guard of the loop: a stopped service without a handle is skipped.
Skipped(s) == status[s] = "stopped" /\ process[s] = None

HealthSkip(s) ==
  /\ hc.pc = "pick" /\ s \in hc.todo
  /\ Skipped(s)
  /\ hc' = [hc EXCEPT !.todo = @ \ {s}]
  /\ UNCHANGED <<registry, counters, world, loop, worker, demoted>>

HealthVisit(s) ==
  /\ hc.pc = "pick" /\ s \in hc.todo
  /\ ~Skipped(s)
  /\ hc' = [hc EXCEPT !.pc = "get", !.svc = s, !.todo = @ \ {s}]
  /\ UNCHANGED <<registry, counters, world, loop, worker, demoted>>

HealthGet(s) ==
  /\ hc.pc = "get" /\ hc.svc = s
  /\ \E reply \in {"ok", "bad", "fail"} :
       /\ TimedRequest(s, reply)
       /\ hc' = [hc EXCEPT !.pc = "got", !.reply = reply]
  /\ UNCHANGED <<registry, counters, proc, loop, worker, demoted>>

LiveHandle(s) == process[s] # None /\ Alive(s, process[s])

\* What the thread writes when the status it finds is not "stopped".
Judge(s, ok) ==
  /\ healthy' = [healthy EXCEPT ![s] = ok]
  /\ status'  = [status EXCEPT ![s] = IF ok THEN "running" ELSE "stopped"]
  /\ demoted' = [demoted EXCEPT ![s] = @ \/ (~ok /\ LiveHandle(s))]

\* Mutants of HealthRecord: without the test for a stopped service; without
\* the two assignments of the failure branch.
HealthRecordUnguarded(s) ==
  /\ hc.pc = "got" /\ hc.svc = s
  /\ Judge(s, hc.reply = "ok")
  /\ hc' = [Between EXCEPT !.todo = hc.todo]
  /\ UNCHANGED <<process, counters, world, loop, worker>>

HealthRecordHealthyOnly(s) ==
  /\ hc.pc = "got" /\ hc.svc = s
  /\ IF status[s] = "stopped" \/ hc.reply # "ok"
     THEN UNCHANGED <<healthy, status, demoted>>
     ELSE Judge(s, TRUE)
  /\ hc' = [Between EXCEPT !.todo = hc.todo]
  /\ UNCHANGED <<process, counters, world, loop, worker>>

HealthRecord(s) ==
  /\ hc.pc = "got" /\ hc.svc = s
  /\ IF status[s] = "stopped"
     THEN UNCHANGED <<healthy, status, demoted>>
     ELSE Judge(s, hc.reply = "ok")
  /\ hc' = [Between EXCEPT !.todo = hc.todo]
  /\ UNCHANGED <<process, counters, world, loop, worker>>

-----------------------------------------------------------------------------
(***************************************************************************)
(* The thread pool.  A request is dispatched by the event loop and its     *)
(* response is sent by the event loop; in between the thread runs alone.   *)
(***************************************************************************)
Forwarding == {"forward", "balance"}
Ops        == Forwarding \cup {"fail", "recover", "status"}

Thread(t, pc)     == worker[t].pc = pc
Move(t, pc)       == worker' = [worker EXCEPT ![t].pc = pc]
Marked(t, value)  == healthy' = [healthy EXCEPT ![worker[t].svc] = value]

Dispatch(t, op, s) ==
  /\ LoopIdle
  /\ Thread(t, "idle")
  /\ op = "balance" => s = BalancedService
  /\ worker' = [worker EXCEPT ![t] =
                  [pc |-> "called", op |-> op, svc |-> s, copy |-> None]]
  /\ UNCHANGED <<registry, counters, world, loop, hc, demoted>>

\* Mutant of Head: the instance counter without its modulus.
HeadUnwrapped(t) ==
  LET s == worker[t].svc
      open == status[s] # "stopped" /\ healthy[s]
  IN /\ Thread(t, "called")
     /\ worker[t].op \in Forwarding
     /\ request_count' = IF request_count < MaxRequests
                         THEN request_count + 1 ELSE request_count
     /\ current_product_instance' =
          IF open /\ worker[t].op = "balance"
          THEN current_product_instance + 1
          ELSE current_product_instance
     /\ Move(t, IF open THEN "sent" ELSE "done")
     /\ UNCHANGED <<registry, world, loop, hc, demoted>>

\* The head of every proxy handler: count the request, then refuse it with
\* 503 or go on to the request to the service.
Head(t) ==
  LET s == worker[t].svc
      open == status[s] # "stopped" /\ healthy[s]
  IN /\ Thread(t, "called")
     /\ worker[t].op \in Forwarding
     /\ request_count' = IF request_count < MaxRequests
                         THEN request_count + 1 ELSE request_count
     /\ current_product_instance' =
          IF open /\ worker[t].op = "balance"
          THEN (current_product_instance + 1) % 2
          ELSE current_product_instance
     /\ Move(t, IF open THEN "sent" ELSE "done")
     /\ UNCHANGED <<registry, world, loop, hc, demoted>>

\* The connection of requests.get/post/put reaches the copy on the port ...
Connect(t) ==
  /\ Thread(t, "sent")
  /\ \E c \in Copies :
       /\ Serving(worker[t].svc, c)
       /\ worker' = [worker EXCEPT ![t].pc = "waiting", ![t].copy = c]
  /\ UNCHANGED <<registry, counters, world, loop, hc, demoted>>

\* ... or is refused: the handler's except branch.
Refused(t) ==
  /\ Thread(t, "sent")
  /\ \A c \in Copies : ~Serving(worker[t].svc, c)
  /\ Marked(t, FALSE)
  /\ Move(t, "done")
  /\ UNCHANGED <<status, process, counters, world, loop, hc, demoted>>

\* The service answers.  A body that is not JSON raises in response.json().
Reply(t) ==
  /\ Thread(t, "waiting")
  /\ Answers(worker[t].svc, worker[t].copy)
  /\ \/ UNCHANGED healthy
     \/ worker[t].svc \in Unreliable /\ Marked(t, FALSE)
  /\ Move(t, "done")
  /\ UNCHANGED <<status, process, counters, proc, loop, hc, demoted>>

\* The process at the other end dies: the except branch.
Broken(t) ==
  /\ Thread(t, "waiting")
  /\ ~Alive(worker[t].svc, worker[t].copy)
  /\ Marked(t, FALSE)
  /\ Move(t, "done")
  /\ UNCHANGED <<status, process, counters, world, loop, hc, demoted>>

\* POST /management/simulate_failure/{s}, POST /management/recover/{s}.
SetHealth(t) ==
  /\ Thread(t, "called")
  /\ worker[t].op \in {"fail", "recover"}
  /\ Marked(t, worker[t].op = "recover")
  /\ Move(t, "done")
  /\ UNCHANGED <<status, process, counters, world, loop, hc, demoted>>

\* GET /management/status reads the registry and the counters.
ReadStatus(t) ==
  /\ Thread(t, "called")
  /\ worker[t].op = "status"
  /\ Move(t, "done")
  /\ UNCHANGED <<registry, counters, world, loop, hc, demoted>>

Respond(t) ==
  /\ LoopIdle
  /\ Thread(t, "done")
  /\ worker' = [worker EXCEPT ![t] = Idle]
  /\ UNCHANGED <<registry, counters, world, loop, hc, demoted>>

-----------------------------------------------------------------------------
StartStep(s) == PopenOk(s) \/ PopenError(s) \/ StartProbe(s) \/ StartRecord(s)
StopStep(s)  == StopTerminate(s) \/ StopKill(s) \/ StopFinish(s)

\* What the coroutine that holds the loop does next.
LoopStep == \E s \in Services : StartStep(s) \/ StopStep(s) \/ CreateUserEnd(s)

\* What anybody may ask of an idle loop.
Command ==
  \E s \in Services :
    \/ \E role \in Roles : StartBegin(s, role) \/ StopBegin(s, role)
    \/ \E value \in BOOLEAN : SetHealthByCommand(s, value)
    \/ CreateUserBegin(s)

HealthStep ==
  \/ HealthRound
  \/ \E s \in Services :
       HealthSkip(s) \/ HealthVisit(s) \/ HealthGet(s) \/ HealthRecord(s)

\* What thread t does by itself once it has a request.
Handle(t) ==
  \/ Head(t)
  \/ Connect(t) \/ Refused(t) \/ Reply(t) \/ Broken(t)
  \/ SetHealth(t) \/ ReadStatus(t)

Next ==
  \/ Command \/ LoopStep \/ HealthStep
  \/ \E s \in Services : StopError(s)
  \/ \E t \in Workers :
       \/ \E op \in Ops, s \in Services : Dispatch(t, op, s)
       \/ Handle(t) \/ Respond(t)
  \/ \E s \in Services, c \in Copies : Boot(s, c) \/ Exit(s, c)

(***************************************************************************)
(* A coroutine, a thread and a booting process go on when they can.  A     *)
(* finished response waits in the loop's FIFO queue and so gets its turn   *)
(* between two commands: strong fairness.  Nobody has to send a command or *)
(* a request, and no process has to end.                                   *)
(***************************************************************************)
Fairness ==
  /\ WF_vars(LoopStep)
  /\ WF_vars(HealthStep)
  /\ \A t \in Workers : WF_vars(Handle(t)) /\ SF_vars(Respond(t))
  /\ \A s \in Services, c \in Copies : WF_vars(Boot(s, c))

Spec     == Init /\ [][Next]_vars
FairSpec == Spec /\ Fairness

-----------------------------------------------------------------------------
Statuses  == {"starting", "running", "stopping", "stopped"}
LoopPCs   == {"idle", "popen", "probe", "probed", "terminate", "waiting", "create"}
Replies   == {None, "ok", "bad", "fail"}
WorkerPCs == {"idle", "called", "sent", "waiting", "done"}

\* Every variable has its type; in particular a pipe never holds more lines
\* than its capacity.
TypeOK ==
  /\ status  \in [Services -> Statuses]
  /\ healthy \in [Services -> BOOLEAN]
  /\ process \in [Services -> Copies \cup {None}]
  /\ request_count \in 0..MaxRequests
  /\ current_product_instance \in {0, 1}
  /\ proc    \in [Services -> [Copies -> {"exited", "booting", "serving"}]]
  /\ out     \in [Services -> [Copies -> 0..PipeCapacity]]
  /\ loop    \in [pc : LoopPCs, svc : Services \cup {None}, reply : Replies]
  /\ hc      \in [pc : {"pick", "get", "got"}, svc : Services \cup {None},
                  reply : Replies, todo : SUBSET Services]
  /\ worker  \in [Workers -> [pc : WorkerPCs, op : Ops \cup {None},
                              svc : Services \cup {None},
                              copy : Copies \cup {None}]]
  /\ demoted \in [Services -> BOOLEAN]

\* A service the registry calls running has a process handle, except while
\* Popen is being called for it.  Hence the test "if service["process"]" of
\* stop_service_process never fails, and a stop never skips terminate().
RunningHasHandle ==
  \A s \in Services :
    status[s] = "running" /\ process[s] = None => LoopAt(s, "popen")

Stopping(s) == LoopAt(s, "terminate") \/ LoopAt(s, "waiting")

\* "starting" and "stopping" are seen only while the operation that wrote
\* them is at work, whatever error ended the ones before: no service is left
\* in a state from which neither start nor stop would take it.
NoTransientLeftBehind ==
  \A s \in Services :
    /\ status[s] = "starting" => LoopAt(s, "popen")
    /\ status[s] = "stopping" => Stopping(s)

Orphan(s, c) == Alive(s, c) /\ process[s] # c

\* The gateway loses track of a process it started only after health_check
\* has marked the service stopped over a live process; start and stop alone,
\* whatever errors they meet, never lose one.
OrphanOnlyAfterDemotion ==
  \A s \in Services :
    (\E c \in Copies : Orphan(s, c)) => demoted[s]

\* Once "stopped", a service leaves that status only by a step of the event
\* loop, in an operation on that service: a health check or a request that was
\* under way when the manager stopped it never brings it back.
StickyStep ==
  \A s \in Services :
    status[s] = "stopped" /\ status'[s] # "stopped" =>
      /\ hc' = hc /\ worker' = worker
      /\ LoopAt(s, "popen") \/ Stopping(s) \/ (LoopIdle /\ loop'.svc = s)

StoppedIsSticky == [][StickyStep]_vars

\* Whatever a start, a stop or "create user" meets - a dead, a hung or an
\* unwilling process - the event loop gets free again.
EventLoopReturns == ~LoopIdle ~> LoopIdle

CanServe(s) == \E c \in Copies : Responsive(s, c)

\* A service that died or hung does not stay "running" in the registry.
DeadServiceIsReported ==
  \A s \in Services :
    status[s] = "running" /\ ~CanServe(s) ~> status[s] # "running" \/ CanServe(s)

\* A running service that the proxies refuse is judged again: however late a
\* failing request clears the flag of a service restarted or recovered
\* meanwhile, the flag is set again or the service is reported.
RefusedIsJudged ==
  \A s \in Services :
    status[s] = "running" /\ ~healthy[s] ~> healthy[s] \/ status[s] # "running"

\* Every request is answered, unless the process it was sent to hangs on a
\* full pipe.
AnsweredUnlessHung ==
  \A t \in Workers :
    ~Thread(t, "idle") ~>
      \/ Thread(t, "idle")
      \/ Thread(t, "waiting") /\ Hung(worker[t].svc, worker[t].copy)

-----------------------------------------------------------------------------
\* The order that the event loop is carrying out on s.  A start is done when
\* Popen has returned: what follows only sets the healthy flag.
OrderOn(s) == IF LoopAt(s, "popen") THEN "start"
              ELSE IF Stopping(s) THEN "stop" ELSE "none"

Life == INSTANCE Lifecycle WITH
          kept  <- [s \in Services |-> process[s] # None],
          order <- [s \in Services |-> OrderOn(s)]

\* Health checks and requests that interleave with the orders of the manager,
\* each in the middle of the others, leave the registry what an operator takes
\* it for: orders are carried out one at a time and have the last word.
IsLifecycle == Life!Spec
=============================================================================
