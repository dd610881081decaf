---------------------------- MODULE ChatOpsClaims ----------------------------
(***************************************************************************)
(* What comments in main.py say of the ChatOps side and the code does not  *)
(* do.                                                                     *)
(***************************************************************************)
EXTENDS ChatOps

\* "Broadcast a message to all connected WebSocket clients" (main.py:88): when
\* a broadcast ends it has come to every connection that was in the list when
\* it began and still is.
BroadcastReachesAll ==
  \A c \in Conns :
    Exhausted(c) => \A d \in h[c].cast.due : Listed(d) => d \in h[c].cast.seen
=============================================================================
