--------------------------------- MODULE Page ----------------------------------
(***************************************************************************)
(* The dashboard, frontend/script.js: the WebSocket it holds, the role it  *)
(* shows, and the status of a service that it polls every five seconds.    *)
(* Callbacks run one at a time, each to its end; in between come clicks,   *)
(* the events of any socket ever opened, timers, and answers to polls in   *)
(* any order, for the browser sends them on several connections.           *)
(***************************************************************************)
EXTENDS Naturals

CONSTANTS
  Statuses,   \* what the registry may say of the service
  Sockets,    \* names for the sockets that are not closed, or still referred to
  Polls,      \* names for the polls under way
  MaxTimers,  \* bound: reconnects pending at one time
  None        \* JavaScript's null

ASSUME BoundsAssumption == MaxTimers \in Nat \ {0} /\ None \notin Sockets
ASSUME StatusesAssumption == {"none", "asked", "down"} \cap Statuses = {}

VARIABLES
  currentUserRole, websocket, isConnected,  \* the variables of that name
  link,       \* link[k]: readyState of socket k, as its callbacks have told it
  given,      \* given[k]: the role socket k was opened with
  unheeded,   \* history: sockets held when a role was chosen "not connected"
  timers,     \* reconnects that setTimeout has still to run
  gateway,    \* the status of the service in the registry, or "down"
  poll,       \* poll[p]: "none", "asked", or the answer on its way
  shown       \* the status the page shows

chat   == <<currentUserRole, websocket, isConnected, link, given, unheeded, timers>>
status == <<gateway, poll, shown>>
vars   == <<chat, status>>

Roles   == {"client", "manager"}
Gateway == Statuses \cup {"down"}

Init ==
  /\ currentUserRole = "client" /\ websocket = None /\ isConnected = FALSE
  /\ link     = [k \in Sockets |-> "closed"]
  /\ given    = [k \in Sockets |-> "client"]
  /\ unheeded = {}
  /\ timers   = 0
  /\ gateway  = "down"
  /\ poll     = [p \in Polls |-> "none"]
  /\ shown    = "unknown"

-----------------------------------------------------------------------------
\* connectWebSocket: a new socket takes the place of whatever was held.
Opening(k, role) ==
  /\ link[k] = "closed" /\ websocket # k
  /\ websocket' = k
  /\ link'  = [link EXCEPT ![k] = "connecting"]
  /\ given' = [given EXCEPT ![k] = role]
  /\ unheeded' = unheeded \ {k}

\* disconnectWebSocket: close() is asynchronous, and isConnected stays.
Closing ==
  /\ websocket' = None
  /\ link' = IF websocket = None \/ link[websocket] = "closed" THEN link
             ELSE [link EXCEPT ![websocket] = "closing"]

\* The buttons "Connect WebSocket" and "Disconnect".
ClickConnect(k) ==
  /\ Opening(k, currentUserRole)
  /\ UNCHANGED <<currentUserRole, isConnected, timers, status>>

ClickDisconnect ==
  /\ websocket # None
  /\ Closing
  /\ UNCHANGED <<currentUserRole, isConnected, given, unheeded, timers, status>>

\* updateUIForRole.
ChooseRole(role) ==
  /\ role # currentUserRole
  /\ currentUserRole' = role
  /\ IF isConnected
     THEN /\ Closing
          /\ timers < MaxTimers /\ timers' = timers + 1
          /\ UNCHANGED unheeded
     ELSE /\ unheeded' = unheeded \cup {websocket}
          /\ UNCHANGED <<websocket, link, timers>>
  /\ UNCHANGED <<isConnected, given, status>>

\* Mutant of Reconnect: the role is the one before the change.
ReconnectAsBefore(k) ==
  /\ timers > 0 /\ timers' = timers - 1
  /\ \E role \in Roles \ {currentUserRole} : Opening(k, role)
  /\ UNCHANGED <<currentUserRole, isConnected, status>>

\* One second later: connectWebSocket again.
Reconnect(k) ==
  /\ timers > 0 /\ timers' = timers - 1
  /\ Opening(k, currentUserRole)
  /\ UNCHANGED <<currentUserRole, isConnected, status>>

\* onopen.
Opened(k) ==
  /\ link[k] = "connecting" /\ gateway # "down"
  /\ link' = [link EXCEPT ![k] = "open"]
  /\ isConnected' = TRUE
  /\ UNCHANGED <<currentUserRole, websocket, given, unheeded, timers, status>>

\* Mutant of Closed: the event of a socket no longer held is ignored.
ClosedIfHeld(k) ==
  /\ link[k] # "closed"
  /\ link' = [link EXCEPT ![k] = "closed"]
  /\ isConnected' = (isConnected /\ websocket # k)
  /\ UNCHANGED <<currentUserRole, websocket, given, unheeded, timers, status>>

\* onclose, whoever closed the socket and whichever socket the page holds now.
Closed(k) ==
  /\ link[k] # "closed"
  /\ link' = [link EXCEPT ![k] = "closed"]
  /\ isConnected' = FALSE
  /\ UNCHANGED <<currentUserRole, websocket, given, unheeded, timers, status>>

-----------------------------------------------------------------------------
\* A start, a stop or a health check writes the status of a service in the
\* registry, or the gateway goes down or comes back.
Turns(v) ==
  /\ gateway' = v /\ v # gateway
  /\ UNCHANGED <<chat, poll, shown>>

\* fetchSystemStatus, every five seconds and after an operation.
Ask(p) ==
  /\ poll[p] = "none"
  /\ poll' = [poll EXCEPT ![p] = "asked"]
  /\ UNCHANGED <<chat, gateway, shown>>

\* The gateway reads its registry, or does not answer.
Read(p) ==
  /\ poll[p] = "asked"
  /\ poll' = [poll EXCEPT ![p] = gateway]
  /\ UNCHANGED <<chat, gateway, shown>>

Label(answer) == IF answer = "down" THEN "unknown" ELSE answer

\* Mutant of Show: a failed poll leaves the page as it is.
ShowAnswers(p) ==
  /\ poll[p] \in Gateway
  /\ shown' = IF poll[p] = "down" THEN shown ELSE poll[p]
  /\ poll' = [poll EXCEPT ![p] = "none"]
  /\ UNCHANGED <<chat, gateway>>

\* Mutant of Show: the page shows what the poll brought, also when it failed.
ShowRaw(p) ==
  /\ poll[p] \in Gateway
  /\ shown' = poll[p]
  /\ poll' = [poll EXCEPT ![p] = "none"]
  /\ UNCHANGED <<chat, gateway>>

Show(p) ==
  /\ poll[p] \in Gateway
  /\ shown' = Label(poll[p])
  /\ poll' = [poll EXCEPT ![p] = "none"]
  /\ UNCHANGED <<chat, gateway>>

-----------------------------------------------------------------------------
Polling == \E p \in Polls : Ask(p) \/ Read(p) \/ Show(p)
Timer   == \E k \in Sockets : Reconnect(k)

Next ==
  \/ \E k \in Sockets : ClickConnect(k) \/ Opened(k) \/ Closed(k)
  \/ ClickDisconnect \/ Timer \/ Polling
  \/ \E role \in Roles : ChooseRole(role)
  \/ \E v \in Gateway : Turns(v)

Spec == Init /\ [][Next]_vars

(***************************************************************************)
(* The interval timer never stops, a poll is answered or refused, and a    *)
(* socket that is closing, or whose gateway is down, is told so.           *)
(***************************************************************************)
Fairness ==
  /\ \A p \in Polls : WF_vars(Ask(p)) /\ WF_vars(Read(p)) /\ WF_vars(Show(p))
  /\ \A k \in Sockets :
       WF_vars(Closed(k) /\ (link[k] = "closing" \/ gateway = "down"))

FairSpec == Spec /\ Fairness

-----------------------------------------------------------------------------
\* Every variable has its type; in particular a failed poll is never shown as a
\* status of its own.
TypeOK ==
  /\ currentUserRole \in Roles
  /\ websocket \in Sockets \cup {None}
  /\ isConnected \in BOOLEAN
  /\ link  \in [Sockets -> {"connecting", "open", "closing", "closed"}]
  /\ given \in [Sockets -> Roles]
  /\ unheeded \subseteq Sockets \cup {None}
  /\ timers \in 0..MaxTimers
  /\ gateway \in Gateway
  /\ poll  \in [Polls -> {"none", "asked"} \cup Gateway]
  /\ shown \in Statuses \cup {"unknown"}

\* The page never says "Connected" without a socket whose closing it has still
\* to be told of, whichever of its sockets open and close in whatever order.
ConnectedHasSocket == isConnected => \E k \in Sockets : link[k] \in {"open", "closing"}

\* A command is sent on a socket of another role than the page shows only if
\* the role was chosen while the page took that socket for not connected (it
\* was connecting, or the late event of an older socket had come in between):
\* no other order of role changes, reconnects and events leads there.
RoleFollows ==
  \A k \in Sockets :
    websocket = k /\ link[k] # "closed" => given[k] = currentUserRole \/ k \in unheeded

\* Once the registry stays as it is, the page shows it for good, although
\* polls overtake one another.
PageConverges ==
  \A v \in Gateway : <>[](gateway = v) => <>[](shown = Label(v))

\* When the gateway stays down, the page stops to say "Connected".
DownIsNoticed == <>[](gateway = "down") => <>[]~isConnected
=============================================================================
