----------------------------- MODULE Supervision ------------------------------
(***************************************************************************)
(* The gateway and the order service it supervises, composed: the requests *)
(* to /health made by health_check and by a start, and POST /orders/       *)
(* forwarded by the gateway, are served by threads of order_service, whose *)
(* orders live in the memory of one copy of the process.                   *)
(*                                                                         *)
(* Gateway lets an Unreliable service answer 500 at any time.  Here no     *)
(* service is Unreliable, and that answer has its cause: the walk of       *)
(* /health over orders_db.                                                 *)
(***************************************************************************)
EXTENDS Gateway

CONSTANTS
  OrderKey,  \* "order", the key of the service
  MaxId      \* bound: no order is created once the counter exceeds it

ASSUME OneServiceAssumption == Services = {OrderKey} /\ Unreliable = {}

VARIABLES
  order_id_counter, orders, forced,  \* as in OrderService
  thread,   \* thread[p]: the service's thread for the request of p
  crowded   \* history: the probes during whose walk orders_db grew

\* Who asks for /health; a worker of the gateway may bring a POST /orders/.
Probes == {"health_check", "start"}
ASSUME ProbesAssumption == Probes \cap Workers = {}
shop   == <<order_id_counter, orders, forced, thread>>

Shop == INSTANCE OrderService WITH
          Workers <- Probes \cup Workers, Addressed <- {},
          worker <- thread

Held(p)     == thread[p].pc # "idle"
Unserved    == \A p \in Probes \cup Workers : ~Held(p)
Up          == \E c \in Copies : Responsive(OrderKey, c)
Asking(p)   == IF p = "start" THEN LoopAt(OrderKey, "probe")
               ELSE hc.pc = "get" /\ hc.svc = OrderKey

SuperInit == Init /\ Shop!Init /\ crowded = {}

-----------------------------------------------------------------------------
\* The service's event loop hands a request to a thread of its pool.
ProbeArrives(p) ==
  /\ Asking(p) /\ Up
  /\ Shop!ScanBegin(p)
  /\ crowded' = crowded \ {p}
  /\ UNCHANGED vars

OrderArrives(t) ==
  /\ Thread(t, "waiting") /\ Responsive(OrderKey, worker[t].copy)
  /\ Shop!CreateRead(t)
  /\ UNCHANGED <<vars, crowded>>

\* A thread of the service goes on.
Walking == {p \in Probes : Shop!At(p, "scan")}

ThreadStep(p) ==
  /\ \E c \in Copies : Serving(OrderKey, c)
  /\ Shop!Go(p)
  /\ crowded' = IF DOMAIN orders' = DOMAIN orders THEN crowded ELSE crowded \cup Walking
  /\ UNCHANGED vars

\* Mutant of HealthReply: the handler checks its count against the table.
HealthReplyIfAgreeing(p) ==
  IF thread[p].verdict = "failed" \/ thread[p].seen # Shop!Size THEN "bad" ELSE "ok"

\* A walk that raised RuntimeError is answered with HTTP 500.
HealthReply(p) == IF thread[p].verdict = "failed" THEN "bad" ELSE "ok"

\* What happens to the request p has made: answered, or lost with the process.
Answered(p) ==
  /\ Shop!At(p, "answer") /\ Up
  /\ Shop!Respond(p)

Lost(p) ==
  /\ ~Up
  /\ thread' = [thread EXCEPT ![p] = Shop!Rest]
  /\ UNCHANGED <<order_id_counter, orders, forced>>

ProbeEnds(p, reply) ==
  /\ \/ Answered(p) /\ reply = HealthReply(p) /\ \E c \in Copies : Answers(OrderKey, c)
     \/ Lost(p) /\ reply = "fail" /\ UNCHANGED out
  /\ crowded' = crowded \ {p}

GetEnds ==
  /\ hc.pc = "get"
  /\ \E reply \in Replies :
       /\ ProbeEnds("health_check", reply)
       /\ hc' = [hc EXCEPT !.pc = "got", !.reply = reply]
  /\ UNCHANGED <<registry, counters, proc, loop, worker, demoted>>

StartEnds ==
  /\ LoopAt(OrderKey, "probe")
  /\ \E reply \in Replies :
       /\ ProbeEnds("start", reply)
       /\ loop' = [loop EXCEPT !.pc = "probed", !.reply = reply]
  /\ UNCHANGED <<registry, counters, proc, hc, worker, demoted>>

\* A forwarded request ends: an order was created, or it was another one.
ForwardEnds(t) ==
  /\ \/ Reply(t) /\ Answered(t)
     \/ Reply(t) /\ ~Held(t) /\ UNCHANGED shop
     \/ /\ Broken(t)
        /\ thread' = [thread EXCEPT ![t] = Shop!Rest]
        /\ UNCHANGED <<order_id_counter, orders, forced>>
  /\ UNCHANGED crowded

\* Mutant of Restart: the port is bound although another copy has it.
RestartAnyway(c) ==
  /\ proc[OrderKey][c] = "booting" /\ Unserved
  /\ proc' = [proc EXCEPT ![OrderKey][c] = "serving"]
  /\ order_id_counter' = 4 /\ orders' = Shop!Samples
  /\ forced' = DOMAIN Shop!Samples
  /\ UNCHANGED <<registry, counters, out, loop, hc, worker, demoted, thread, crowded>>

\* A copy that gets the port starts with the sample orders; it takes a second
\* or more, and the connections to a copy that ended are reset before.
Restart(c) ==
  /\ Boot(OrderKey, c)
  /\ IF proc'[OrderKey][c] = "serving"
     THEN /\ Unserved
          /\ order_id_counter' = 4 /\ orders' = Shop!Samples
          /\ forced' = DOMAIN Shop!Samples
          /\ UNCHANGED thread
     ELSE UNCHANGED shop
  /\ UNCHANGED crowded

\* What does not reach the service.
GatewayAlone ==
  \/ Command
  \/ \E s \in Services : 
       \/ PopenOk(s) \/ PopenError(s) \/ StartRecord(s) \/ StopStep(s) \/ StopError(s)
       \/ HealthSkip(s) \/ HealthVisit(s) \/ HealthRecord(s)
       \/ \E t \in Workers, op \in Ops : Dispatch(t, op, s)
       \/ \E c \in Copies : Exit(s, c)
  \/ HealthRound
  \/ \E t \in Workers :
       Head(t) \/ Connect(t) \/ Refused(t) \/ SetHealth(t) \/ ReadStatus(t) \/ Respond(t)

SuperNext ==
  \/ GatewayAlone /\ UNCHANGED <<shop, crowded>>
  \/ GetEnds \/ StartEnds
  \/ \E p \in Probes : ProbeArrives(p)
  \/ \E t \in Workers : OrderArrives(t) \/ ForwardEnds(t)
  \/ \E p \in Probes \cup Workers : ThreadStep(p)
  \/ \E c \in Copies : Restart(c)

SuperSpec == SuperInit /\ [][SuperNext]_<<vars, shop, crowded>>

-----------------------------------------------------------------------------
\* The gateway sees a service that always answers its health checks properly,
\* unless an order is added while one of them is being served: nothing else
\* makes it demote a live, responsive service.
HonestUnlessCrowded == Init /\ [][Next \/ crowded # {}]_vars

Unsure == INSTANCE Gateway WITH Unreliable <- Services

\* Also then the gateway does nothing that its specification does not allow for
\* a service that may answer with HTTP 500: what Gateway assumes of such a
\* service, and is checked and proved under, covers the order service.
IsGateway == Unsure!Spec

\* A copy that goes on serving keeps its orders, whatever the health check
\* makes of it and however often the manager starts the service over it.
OrdersOutliveDemotion ==
  [][(\E c \in Copies : Serving(OrderKey, c) /\ Serving(OrderKey, c)')
       => DOMAIN orders \subseteq DOMAIN orders']_<<vars, shop, crowded>>
=============================================================================
