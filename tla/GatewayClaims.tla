---------------------------- MODULE GatewayClaims ----------------------------
(***************************************************************************)
(* What comments, messages and the README of the repository say of the     *)
(* gateway and the code does not do.                                       *)
(***************************************************************************)
EXTENDS Gateway

\* "Only update status if service is not manually stopped by manager"
\* (main.py:557): a service that was started and not stopped, and that
\* answers its health check, is marked running.
LiveServiceIsAdopted ==
  [][\A s \in Services :
       HealthRecord(s) /\ hc.reply = "ok" /\ LiveHandle(s)
         => status'[s] = "running"]_vars
=============================================================================
