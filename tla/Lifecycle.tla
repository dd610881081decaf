------------------------------ MODULE Lifecycle ------------------------------
(***************************************************************************)
(* What the manager of the services may rely on, whatever health checks    *)
(* and requests are under way: one order to start or to stop is carried    *)
(* out at a time; a health check may overrule what the order has written   *)
(* so far, but the order has the last word; apart from that a health check *)
(* only ever turns a service that is not stopped to running or to stopped; *)
(* and only a service with a process is ever told to stop.                 *)
(***************************************************************************)
CONSTANT Services

VARIABLES
  status,  \* what the registry says of each service
  kept,    \* whether the gateway has a process for it
  order    \* the order being carried out on it

vars == <<status, kept, order>>

Init ==
  /\ status = [s \in Services |-> "stopped"]
  /\ kept   = [s \in Services |-> FALSE]
  /\ order  = [s \in Services |-> "none"]

Given(s, from, word, to) ==
  /\ \A r \in Services : order[r] = "none"
  /\ status[s] = from
  /\ order'  = [order EXCEPT ![s] = word]
  /\ status' = [status EXCEPT ![s] = to]
  /\ UNCHANGED kept

Start(s) == Given(s, "stopped", "start", "starting")
Stop(s)  == kept[s] /\ Given(s, "running", "stop", "stopping")

Done(s, word, result, process) ==
  /\ order[s] = word
  /\ order'  = [order EXCEPT ![s] = "none"]
  /\ status' = [status EXCEPT ![s] = result]
  /\ kept'   = [kept EXCEPT ![s] = process]

Started(s)    == Done(s, "start", "running", TRUE)
NotStarted(s) == Done(s, "start", "stopped", FALSE)
Stopped(s)    == Done(s, "stop", "stopped", FALSE)
NotStopped(s) == Done(s, "stop", "running", TRUE)

Judge(s) ==
  /\ status[s] # "stopped"
  /\ \E verdict \in {"running", "stopped"} : status' = [status EXCEPT ![s] = verdict]
  /\ UNCHANGED <<kept, order>>

Next ==
  \E s \in Services :
    \/ Start(s) \/ Started(s) \/ NotStarted(s)
    \/ Stop(s) \/ Stopped(s) \/ NotStopped(s)
    \/ Judge(s)

Spec == Init /\ [][Next]_vars
=============================================================================
