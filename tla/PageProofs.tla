------------------------------ MODULE PageProofs -------------------------------
(***************************************************************************)
(* The safety theorems about the dashboard.  The type invariant, that a    *)
(* connected page has a socket, and that the socket has the page's role    *)
(* are inductive together.                                                 *)
(***************************************************************************)
EXTENDS Page, TLAPS

Links == {"connecting", "open", "closing", "closed"}

PageInv == TypeOK /\ ConnectedHasSocket /\ RoleFollows

LEMMA InitInv == Init => PageInv
<1> SUFFICES ASSUME Init PROVE PageInv
  OBVIOUS
<1>1. websocket = None /\ None \notin Sockets /\ isConnected = FALSE
  BY BoundsAssumption DEF Init
<1>2. TypeOK
  <2>1. link \in [Sockets -> Links] /\ given \in [Sockets -> Roles] /\ unheeded \subseteq Sockets \cup {None}
    BY DEF Init, Links, Roles
  <2>2. timers \in 0..MaxTimers /\ gateway \in Gateway /\ currentUserRole \in Roles
        /\ shown \in Statuses \cup {"unknown"}
    BY BoundsAssumption DEF Init, Gateway, Roles
  <2>3. poll \in [Polls -> {"none", "asked"} \cup Gateway]
    BY DEF Init
  <2> QED
    BY <1>1, <2>1, <2>2, <2>3 DEF TypeOK, Links
<1>3. ConnectedHasSocket /\ RoleFollows
  BY <1>1 DEF ConnectedHasSocket, RoleFollows
<1> QED
  BY <1>2, <1>3 DEF PageInv

-----------------------------------------------------------------------------
\* connectWebSocket, whoever calls it.
LEMMA OpeningStep ==
  ASSUME PageInv, NEW k \in Sockets, Opening(k, currentUserRole), timers' \in 0..MaxTimers,
         UNCHANGED <<currentUserRole, isConnected, status>>
  PROVE  PageInv'
<1>1. currentUserRole \in Roles /\ websocket' = k /\ link[k] = "closed"
  BY DEF PageInv, TypeOK, Opening
<1>2. \A j \in Sockets : link'[j] = IF j = k THEN "connecting" ELSE link[j]
  BY DEF PageInv, TypeOK, Opening
<1>3. given'[k] = currentUserRole
  BY DEF PageInv, TypeOK, Opening
<1>4. TypeOK'
  <2>1. link' \in [Sockets -> Links] /\ given' \in [Sockets -> Roles]
        /\ unheeded' \subseteq Sockets \cup {None}
    BY <1>1 DEF PageInv, TypeOK, Opening, Links
  <2> QED
    BY <1>1, <2>1 DEF PageInv, TypeOK, status, Links
<1>5. ConnectedHasSocket'
  <2> SUFFICES ASSUME isConnected PROVE \E j \in Sockets : link'[j] \in {"open", "closing"}
    BY DEF ConnectedHasSocket
  <2>1. PICK j \in Sockets : link[j] \in {"open", "closing"}
    BY DEF PageInv, ConnectedHasSocket
  <2>2. link'[j] = link[j]
    BY <1>1, <1>2, <2>1
  <2> QED
    BY <2>1, <2>2
<1>6. RoleFollows'
  BY <1>1, <1>3 DEF RoleFollows
<1> QED
  BY <1>4, <1>5, <1>6 DEF PageInv

\* disconnectWebSocket, whoever calls it.
LEMMA ClosingStep ==
  ASSUME PageInv, Closing, timers' \in 0..MaxTimers, currentUserRole' \in Roles,
         UNCHANGED <<isConnected, given, unheeded, status>>
  PROVE  PageInv'
<1>1. websocket' = None /\ None \notin Sockets
  BY BoundsAssumption DEF Closing
<1>2. link' \in [Sockets -> Links]
      /\ \A j \in Sockets : link'[j] = link[j] \/ link'[j] = "closing"
  BY DEF PageInv, TypeOK, Closing, Links
<1>3. TypeOK'
  BY <1>1, <1>2 DEF PageInv, TypeOK, status, Links
<1>4. ConnectedHasSocket'
  BY <1>2 DEF PageInv, ConnectedHasSocket
<1>5. RoleFollows'
  BY <1>1 DEF RoleFollows
<1> QED
  BY <1>3, <1>4, <1>5 DEF PageInv

LEMMA ChooseRoleStep ==
  ASSUME PageInv, NEW role \in Roles, ChooseRole(role) PROVE PageInv'
<1>1. CASE isConnected
  <2>1. timers' \in 0..MaxTimers
    BY <1>1, BoundsAssumption DEF ChooseRole, PageInv, TypeOK
  <2> QED
    BY <1>1, <2>1, ClosingStep DEF ChooseRole
<1>2. CASE ~isConnected
  <2>1. unheeded' = unheeded \cup {websocket} /\ UNCHANGED <<websocket, link, timers, isConnected, given, status>>
        /\ currentUserRole' = role
    BY <1>2 DEF ChooseRole
  <2>2. TypeOK'
    BY <2>1 DEF PageInv, TypeOK, status
  <2>3. ConnectedHasSocket'
    BY <1>2, <2>1 DEF ConnectedHasSocket
  <2>4. RoleFollows'
    BY <2>1 DEF RoleFollows
  <2> QED
    BY <2>2, <2>3, <2>4 DEF PageInv
<1> QED
  BY <1>1, <1>2

\* onopen and onclose.
LEMMA EventStep ==
  ASSUME PageInv, NEW k \in Sockets, Opened(k) \/ Closed(k) PROVE PageInv'
<1>1. UNCHANGED <<currentUserRole, websocket, given, unheeded, timers, status>>
  BY DEF Opened, Closed
<1>2. CASE Opened(k)
  <2>1. link' \in [Sockets -> Links] /\ link'[k] = "open" /\ isConnected' = TRUE /\ link[k] # "closed"
        /\ \A j \in Sockets : j # k => link'[j] = link[j]
    BY <1>2 DEF Opened, PageInv, TypeOK, Links
  <2>2. TypeOK'
    BY <1>1, <2>1 DEF PageInv, TypeOK, status, Links
  <2>3. ConnectedHasSocket'
    BY <2>1 DEF ConnectedHasSocket
  <2>4. RoleFollows'
    BY <1>1, <2>1 DEF PageInv, RoleFollows
  <2> QED
    BY <2>2, <2>3, <2>4 DEF PageInv
<1>3. CASE Closed(k)
  <2>1. link' \in [Sockets -> Links] /\ link'[k] = "closed" /\ isConnected' = FALSE
        /\ \A j \in Sockets : j # k => link'[j] = link[j]
    BY <1>3 DEF Closed, PageInv, TypeOK, Links
  <2>2. TypeOK'
    BY <1>1, <2>1 DEF PageInv, TypeOK, status, Links
  <2>3. ConnectedHasSocket'
    BY <2>1 DEF ConnectedHasSocket
  <2>4. RoleFollows'
    BY <1>1, <2>1 DEF PageInv, RoleFollows
  <2> QED
    BY <2>2, <2>3, <2>4 DEF PageInv
<1> QED
  BY <1>2, <1>3

\* The registry and the polls have nothing to do with the sockets.
LEMMA StatusStep ==
  ASSUME PageInv, UNCHANGED chat, gateway' \in Gateway,
         poll' \in [Polls -> {"none", "asked"} \cup Gateway], shown' \in Statuses \cup {"unknown"}
  PROVE  PageInv'
<1>1. TypeOK'
  BY DEF PageInv, TypeOK, chat
<1>2. ConnectedHasSocket' /\ RoleFollows'
  BY DEF PageInv, ConnectedHasSocket, RoleFollows, chat
<1> QED
  BY <1>1, <1>2 DEF PageInv

LEMMA PollingStep ==
  ASSUME PageInv, NEW p \in Polls, Ask(p) \/ Read(p) \/ Show(p) PROVE PageInv'
<1>1. UNCHANGED <<chat, gateway>> /\ gateway \in Gateway
  BY DEF Ask, Read, Show, PageInv, TypeOK
<1>2. poll' \in [Polls -> {"none", "asked"} \cup Gateway]
  BY DEF Ask, Read, Show, PageInv, TypeOK
<1>3. shown' \in Statuses \cup {"unknown"}
  BY DEF Ask, Read, Show, Label, Gateway, PageInv, TypeOK
<1> QED
  BY <1>1, <1>2, <1>3, StatusStep

LEMMA NextKeepsInv == PageInv /\ [Next]_vars => PageInv'
<1> SUFFICES ASSUME PageInv, [Next]_vars PROVE PageInv'
  OBVIOUS
<1>1. timers \in 0..MaxTimers /\ currentUserRole \in Roles
  BY DEF PageInv, TypeOK
<1>2. CASE UNCHANGED vars
  BY <1>2 DEF PageInv, TypeOK, ConnectedHasSocket, RoleFollows, vars, chat, status
<1>3. ASSUME NEW k \in Sockets, ClickConnect(k) PROVE PageInv'
  BY <1>1, <1>3, OpeningStep DEF ClickConnect
<1>4. ASSUME NEW k \in Sockets, Reconnect(k) PROVE PageInv'
  <2>1. timers' \in 0..MaxTimers
    BY <1>1, <1>4, BoundsAssumption DEF Reconnect
  <2> QED
    BY <1>4, <2>1, OpeningStep DEF Reconnect
<1>5. CASE ClickDisconnect
  BY <1>1, <1>5, ClosingStep DEF ClickDisconnect
<1>6. ASSUME NEW v \in Gateway, Turns(v) PROVE PageInv'
  <2>1. poll \in [Polls -> {"none", "asked"} \cup Gateway] /\ shown \in Statuses \cup {"unknown"}
    BY DEF PageInv, TypeOK
  <2> QED
    BY <1>6, <2>1, StatusStep DEF Turns
<1> QED
  BY <1>2, <1>3, <1>4, <1>5, <1>6, EventStep, ChooseRoleStep, PollingStep DEF Next, Timer, Polling

LEMMA PageInvHolds == Spec => []PageInv
BY InitInv, NextKeepsInv, PTL DEF Spec

-----------------------------------------------------------------------------
\* Whatever clicks, socket events, timers and answers come in whatever order,
\* every variable of the page keeps its type.
THEOREM PageTypeOK == Spec => []TypeOK
BY PageInvHolds, PTL DEF PageInv

\* The page never says "Connected" when all its sockets are closed for good.
THEOREM PageHasSocket == Spec => []ConnectedHasSocket
BY PageInvHolds, PTL DEF PageInv

\* The socket that carries commands has the role the page shows, unless the
\* role was chosen while the page took that socket for not connected.
THEOREM PageRoleFollows == Spec => []RoleFollows
BY PageInvHolds, PTL DEF PageInv
=============================================================================
