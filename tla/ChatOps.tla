------------------------------- MODULE ChatOps -------------------------------
(***************************************************************************)
(* The WebSocket side of the gateway (api_gateway/main.py): the            *)
(* ConnectionManager and one coroutine websocket_endpoint per connection,  *)
(* all of them on one event loop.                                          *)
(*                                                                         *)
(* A coroutine keeps the loop until it awaits something that makes it      *)
(* wait: the next message of its client, or a send to a client that reads  *)
(* slowly.  turn is the coroutine that holds the loop, None when every one *)
(* of them waits.                                                          *)
(***************************************************************************)
EXTENDS Naturals, Sequences, FiniteSets, SequencesExt

CONSTANTS
  Conns,        \* the WebSocket objects; each connects at most once
  MaxCommands,  \* bound: commands taken from all the connections together
  None          \* no role, no target, nobody

Roles == {"manager", "client"}

ASSUME NoneAssumption == None \notin Conns \cup Roles
ASSUME MaxAssumption   == MaxCommands \in Nat

VARIABLES
  active_connections,  \* the list of that name
  user_roles,          \* the dictionary of that name; None where it has no key
  link,                \* the WebSocket as the server sees it
  broken,              \* a send has failed: application_state is DISCONNECTED
  turn,                \* the coroutine that holds the event loop
  h,                   \* h[c]: the coroutine that serves c
  taken                \* how many commands have been taken

manager == <<active_connections, user_roles>>
vars    == <<manager, link, broken, turn, h, taken>>

(***************************************************************************)
(* Commands, by what the two startswith tests of handle_chatops_command    *)
(* and the branches of process_command make of them: one command for each  *)
(* outcome of the two tests.  "status" stands also for a command that is   *)
(* not written in lower case ("Start x"): process_command lowers it, the   *)
(* two tests do not.                                                       *)
(***************************************************************************)
Commands    == {"start", "create", "fail", "status"}
Quiet(cmd)  == cmd \in {"start", "create"}
Public(cmd) == cmd \in {"start", "fail"}

\* A broadcast under way: the position of the list iterator, the connection
\* being sent to, those whose send failed; and, as history, the connections
\* listed when it began and those it has come to.
NoBroadcast == [idx |-> 1, target |-> None, failed |-> {}, due |-> {}, seen |-> {}]

NewHandler ==
  [pc |-> "new", given |-> None, role |-> None, cmd |-> None, cast |-> NoBroadcast]

Init ==
  /\ active_connections = << >>
  /\ user_roles = [c \in Conns |-> None]
  /\ link   = [c \in Conns |-> "open"]
  /\ broken = [c \in Conns |-> FALSE]
  /\ turn   = None
  /\ h      = [c \in Conns |-> NewHandler]
  /\ taken  = 0

-----------------------------------------------------------------------------
At(c, pc)     == h[c].pc = pc
Goto(c, pc)   == h' = [h EXCEPT ![c].pc = pc]
Settle(c, pc) == h' = [h EXCEPT ![c] = [NewHandler EXCEPT !.pc = pc, !.given = h[c].given]]
Resumes(c)    == turn = None /\ turn' = c     \* after an await, up to the next
Runs(c)       == turn = c /\ turn' = c
Waits(c)      == turn = c /\ turn' = None     \* from here to an await
Turns(c)      == turn = None /\ turn' = None  \* from one await to the next

Sendable(c)   == link[c] = "open" /\ ~broken[c]
Breaks(c)     == broken' = [broken EXCEPT ![c] = TRUE]

\* A list without the connections of S.
Without(list, S) ==
  LET kept[i \in 0..Len(list)] ==
        IF i = 0             THEN << >>
        ELSE IF list[i] \in S THEN kept[i - 1]
        ELSE Append(kept[i - 1], list[i])
  IN kept[Len(list)]

\* manager.disconnect for the connections of S.
Disconnect(S) ==
  /\ active_connections' = Without(active_connections, S)
  /\ user_roles' = [c \in Conns |-> IF c \in S THEN None ELSE user_roles[c]]

get_user_role(c) == IF user_roles[c] = None THEN "client" ELSE user_roles[c]

\* The start of manager.broadcast, with the connection it leaves out.
Casting(list, exclude) ==
  [NoBroadcast EXCEPT !.due = {list[i] : i \in DOMAIN list} \ {exclude}]

\* The client goes away, or the keepalive of the server gives it up.
Close(c) ==
  /\ ~At(c, "new") /\ link[c] = "open"
  /\ link' = [link EXCEPT ![c] = "closed"]
  /\ UNCHANGED <<manager, broken, turn, h, taken>>

\* accept() has returned: manager.connect registers the connection.
Connect(c, role) ==
  /\ At(c, "new")
  /\ Turns(c)
  /\ active_connections' = Append(active_connections, c)
  /\ user_roles' = [user_roles EXCEPT ![c] = role]
  /\ h' = [h EXCEPT ![c].pc = "welcome", ![c].given = role]
  /\ UNCHANGED <<link, broken, taken>>

\* The two personal messages of a new connection.
Greeting == {"welcome", "info"}

Greet(c) ==
  /\ h[c].pc \in Greeting
  /\ Sendable(c)
  /\ Turns(c)
  /\ Goto(c, IF At(c, "welcome") THEN "info" ELSE "receive")
  /\ UNCHANGED <<manager, link, broken, taken>>

\* "except WebSocketDisconnect" of websocket_endpoint: unregister, then tell
\* the others.
LeaveLoudly(c) ==
  /\ Resumes(c)
  /\ Disconnect({c})
  /\ h' = [h EXCEPT ![c].pc = "notice",
                    ![c].cast = Casting(active_connections', None)]

GreetFails(c) ==
  /\ h[c].pc \in Greeting
  /\ link[c] = "closed" /\ ~broken[c]
  /\ Breaks(c)
  /\ LeaveLoudly(c)
  /\ UNCHANGED <<link, taken>>

\* A send to a connection already broken raises RuntimeError.
GreetBroken(c) ==
  /\ h[c].pc \in Greeting
  /\ broken[c]
  /\ Resumes(c)
  /\ Goto(c, "leave")
  /\ UNCHANGED <<manager, link, broken, taken>>

\* "except Exception" of websocket_endpoint: a send to a connection already
\* broken, or a frame that holds no text.
Leaving == {"leave", "garbled"}

\* Mutant of Leave: without manager.disconnect.
LeaveListed(c) ==
  /\ h[c].pc \in Leaving
  /\ Waits(c)
  /\ Goto(c, "done")
  /\ UNCHANGED <<manager, link, broken, taken>>

Leave(c) ==
  /\ h[c].pc \in Leaving
  /\ Waits(c)
  /\ Disconnect({c})
  /\ Goto(c, "done")
  /\ UNCHANGED <<link, broken, taken>>

\* Mutant of Receive: user_roles[websocket] without a default.
ReceiveRawRole(c, cmd) ==
  /\ At(c, "receive")
  /\ taken < MaxCommands /\ taken' = taken + 1
  /\ Turns(c)
  /\ h' = [h EXCEPT ![c].pc = "echo", ![c].cmd = cmd,
                    ![c].role = IF user_roles[c] = None THEN "Unknown"
                                ELSE user_roles[c]]
  /\ UNCHANGED <<manager, link, broken>>

\* receive_text returns a command; messages that came before the connection
\* was closed are still read.
Receive(c, cmd) ==
  /\ At(c, "receive")
  /\ taken < MaxCommands /\ taken' = taken + 1
  /\ Turns(c)
  /\ h' = [h EXCEPT ![c].pc = "echo", ![c].cmd = cmd,
                    ![c].role = get_user_role(c)]
  /\ UNCHANGED <<manager, link, broken>>

\* receive_text raises KeyError on a frame of bytes.
ReceiveBytes(c) ==
  /\ At(c, "receive")
  /\ Resumes(c)
  /\ Goto(c, "garbled")
  /\ UNCHANGED <<manager, link, broken, taken>>

Hangup(c) ==
  /\ At(c, "receive")
  /\ link[c] = "closed"
  /\ LeaveLoudly(c)
  /\ UNCHANGED <<link, broken, taken>>

-----------------------------------------------------------------------------
(* handle_chatops_command                                                  *)

\* Mutant of Echo: a failed send of the echo is swallowed.
EchoSwallowed(c) ==
  /\ At(c, "echo")
  /\ Resumes(c)
  /\ IF Quiet(h[c].cmd)
     THEN Goto(c, "process")
     ELSE h' = [h EXCEPT ![c].pc = "announce",
                         ![c].cast = Casting(active_connections, c)]
  /\ UNCHANGED <<manager, link, broken, taken>>

Echo(c) ==
  /\ At(c, "echo")
  /\ Sendable(c)
  /\ Resumes(c)
  /\ IF Quiet(h[c].cmd)
     THEN Goto(c, "process")
     ELSE h' = [h EXCEPT ![c].pc = "announce",
                         ![c].cast = Casting(active_connections, c)]
  /\ UNCHANGED <<manager, link, broken, taken>>

\* Mutant of Process: the role is looked up when the command is executed.
ProcessLateRole(c) ==
  /\ At(c, "process")
  /\ Waits(c)
  /\ h' = [h EXCEPT ![c].pc = "respond", ![c].role = get_user_role(c)]
  /\ UNCHANGED <<manager, link, broken, taken>>

\* process_command never waits: what it does to the registry is in Gateway.
Process(c) ==
  /\ At(c, "process")
  /\ Waits(c)
  /\ Goto(c, "respond")
  /\ UNCHANGED <<manager, link, broken, taken>>

Respond(c) ==
  /\ At(c, "respond")
  /\ Sendable(c)
  /\ IF Public(h[c].cmd)
     THEN /\ Resumes(c)
          /\ h' = [h EXCEPT ![c].pc = "declare",
                            ![c].cast = Casting(active_connections, c)]
     ELSE /\ Turns(c)
          /\ Settle(c, "receive")
  /\ UNCHANGED <<manager, link, broken, taken>>

\* A failed send inside the handler: its except branch sends an error message
\* to the same connection, which raises again.
ReplyFails(c) ==
  /\ At(c, "echo") \/ At(c, "respond")
  /\ ~Sendable(c)
  /\ Resumes(c)
  /\ Breaks(c)
  /\ Settle(c, "leave")
  /\ UNCHANGED <<manager, link, taken>>

-----------------------------------------------------------------------------
(* ConnectionManager.broadcast: the "for" loop over the shared list.       *)

Broadcasting(c) == h[c].pc \in {"announce", "declare", "notice"}
Excluded(c)     == IF At(c, "notice") THEN None ELSE c

\* Mutant of Pick: an index loop that does not step over the sender.
PickStuck(c) ==
  LET cast == h[c].cast
      next == active_connections[cast.idx]
  IN /\ Broadcasting(c) /\ cast.target = None
     /\ cast.idx <= Len(active_connections)
     /\ next # Excluded(c)
     /\ Waits(c)
     /\ h' = [h EXCEPT ![c].cast = [cast EXCEPT !.idx = @ + 1, !.target = next]]
     /\ UNCHANGED <<manager, link, broken, taken>>

\* Mutant of Pick: the position is counted up both here and by the loop.
PickEveryOther(c) ==
  LET cast == h[c].cast
      next == active_connections[cast.idx]
  IN /\ Broadcasting(c) /\ cast.target = None
     /\ cast.idx <= Len(active_connections)
     /\ Waits(c)
     /\ h' = [h EXCEPT ![c].cast = [cast EXCEPT !.idx = @ + 2, !.target = next]]
     /\ UNCHANGED <<manager, link, broken, taken>>

\* The iterator yields the next connection of the list as it is now.
Pick(c) ==
  LET cast == h[c].cast
      next == active_connections[cast.idx]
  IN /\ Broadcasting(c) /\ cast.target = None
     /\ cast.idx <= Len(active_connections)
     /\ IF next = Excluded(c)
        THEN Runs(c) /\ h' = [h EXCEPT ![c].cast = [cast EXCEPT !.idx = @ + 1]]
        ELSE /\ Waits(c)
             /\ h' = [h EXCEPT ![c].cast = [cast EXCEPT !.idx = @ + 1, !.target = next]]
     /\ UNCHANGED <<manager, link, broken, taken>>

\* The send to it has ended, well or not.
Deliver(c) ==
  LET cast   == h[c].cast
      target == cast.target
      sent   == [cast EXCEPT !.target = None, !.seen = @ \cup {target}]
  IN /\ Broadcasting(c) /\ target # None
     /\ Resumes(c)
     /\ IF Sendable(target)
        THEN /\ h' = [h EXCEPT ![c].cast = sent]
             /\ UNCHANGED broken
        ELSE /\ h' = [h EXCEPT ![c].cast = [sent EXCEPT !.failed = @ \cup {target}]]
             /\ Breaks(target)
     /\ UNCHANGED <<manager, link, taken>>

Exhausted(c) ==
  /\ Broadcasting(c) /\ h[c].cast.target = None
  /\ h[c].cast.idx > Len(active_connections)

\* Mutant of Cleanup: the roles of the connections dropped are kept.
CleanupKeepsRoles(c) ==
  /\ active_connections' = Without(active_connections, h[c].cast.failed)
  /\ UNCHANGED user_roles

\* The connections whose send failed are unregistered, the sender included
\* if it is one of them.
Cleanup(c) == Disconnect(h[c].cast.failed)

EndAnnounce(c) ==
  /\ At(c, "announce") /\ Exhausted(c)
  /\ Runs(c)
  /\ Cleanup(c)
  /\ h' = [h EXCEPT ![c].pc = "process", ![c].cast = NoBroadcast]
  /\ UNCHANGED <<link, broken, taken>>

\* Back to receive_text, which raises RuntimeError on a broken connection.
EndDeclare(c) ==
  /\ At(c, "declare") /\ Exhausted(c)
  /\ IF broken[c] THEN Runs(c) ELSE Waits(c)
  /\ Cleanup(c)
  /\ Settle(c, IF broken[c] THEN "leave" ELSE "receive")
  /\ UNCHANGED <<link, broken, taken>>

EndNotice(c) ==
  /\ At(c, "notice") /\ Exhausted(c)
  /\ Waits(c)
  /\ Cleanup(c)
  /\ Settle(c, "done")
  /\ UNCHANGED <<link, broken, taken>>

-----------------------------------------------------------------------------
\* What a coroutine does without anything new from its client.
Step(c) ==
  \/ Greet(c) \/ GreetFails(c) \/ GreetBroken(c) \/ Leave(c) \/ Hangup(c)
  \/ Echo(c) \/ Process(c) \/ Respond(c) \/ ReplyFails(c)
  \/ Pick(c) \/ Deliver(c)
  \/ EndAnnounce(c) \/ EndDeclare(c) \/ EndNotice(c)

Next ==
  \E c \in Conns :
    \/ Close(c)
    \/ \E role \in Roles : Connect(c, role)
    \/ \E cmd \in Commands : Receive(c, cmd)
    \/ ReceiveBytes(c)
    \/ Step(c)

Spec == Init /\ [][Next]_vars

(***************************************************************************)
(* The loop serves the coroutines that are ready in the order in which     *)
(* they became ready, and a send to a client that does not read ends when  *)
(* the keepalive of the WebSocket server gives the client up: each         *)
(* coroutine that is ready again and again goes on.  Clients have to do    *)
(* nothing.                                                                *)
(***************************************************************************)
FairSpec == Spec /\ \A c \in Conns : SF_vars(Step(c))

-----------------------------------------------------------------------------
PCs == {"new", "welcome", "info", "receive", "echo", "announce", "process",
        "respond", "declare", "notice", "leave", "garbled", "done"}

Broadcasts == [idx : Nat \ {0}, target : Conns \cup {None}, failed : SUBSET Conns,
               due : SUBSET Conns, seen : SUBSET Conns]

TypeOK ==
  /\ active_connections \in Seq(Conns)
  /\ user_roles \in [Conns -> Roles \cup {None}]
  /\ link   \in [Conns -> {"open", "closed"}]
  /\ broken \in [Conns -> BOOLEAN]
  /\ turn   \in Conns \cup {None}
  /\ h \in [Conns -> [pc : PCs, given : Roles \cup {None},
                      role : Roles \cup {None}, cmd : Commands \cup {None},
                      cast : Broadcasts]]
  /\ taken \in 0..MaxCommands

Listed(c) == \E i \in DOMAIN active_connections : active_connections[i] = c

\* The list and the dictionary of the manager agree whatever broadcasts drop
\* and whoever disconnects meanwhile: "users" never counts a negative number
\* of clients, and no connection is listed twice.
RosterAgrees ==
  /\ \A c \in Conns : Listed(c) <=> user_roles[c] # None
  /\ \A i, j \in DOMAIN active_connections :
       active_connections[i] = active_connections[j] => i = j

\* A connection whose coroutine has returned is not in the list: nothing
\* keeps a closed WebSocket for good.
NoGhost == \A c \in Conns : At(c, "done") => ~Listed(c)

\* A command runs with the role its connection was opened with.  A connection
\* that a broadcast has dropped counts as a client from then on, but a command
\* read after that fails at the echo and is never executed.
RoleKept == \A c \in Conns : At(c, "respond") => h[c].role = h[c].given

\* The connections a broadcast has come to, the one it leaves out included;
\* those before the iterator that it has stepped over.
Met(c)     == (h[c].cast.seen \cup {h[c].cast.target, Excluded(c)}) \ {None}
Passed(c)  == {active_connections[i] : i \in {j \in DOMAIN active_connections : j < h[c].cast.idx}}
Skipped(c) == Passed(c) \ Met(c)
Left(c)    == {d \in Met(c) : ~Listed(d)}

\* The loop of a broadcast runs over a list that others change while it waits,
\* and may step over a connection that is open; but only when one it had come
\* to has left the list meanwhile, and at most one for each that has.
MissesBounded ==
  \A c \in Conns : Broadcasting(c) => Cardinality(Skipped(c)) <= Cardinality(Left(c))

Entered    == {c \in Conns : ~At(c, "new")}
WentAway   == {c \in Conns : link[c] = "closed"}
Unreadable == {c \in Conns : At(c, "garbled")}
Speakers   == {c \in Conns : Broadcasting(c)}
Reached    == [c \in Conns |-> IF Broadcasting(c) THEN Met(c) ELSE {}]

Hall == INSTANCE Room WITH
          ever <- Entered, gone <- WentAway, garbled <- Unreadable,
          role <- user_roles, talking <- Speakers, heard <- Reached

\* The manager and its coroutines implement the abstract room: what a client
\* may rely on while connections come, break and go under the broadcasts.
IsRoom == Hall!Spec

\* A closed connection leaves the list, also one whose coroutine is busy with
\* a broadcast or a command, or has been dropped by another.
ClosedIsForgotten == \A c \in Conns : link[c] = "closed" ~> ~Listed(c)

\* A broadcast ends, whoever connects, disconnects or breaks meanwhile.
BroadcastEnds == \A c \in Conns : Broadcasting(c) ~> ~Broadcasting(c)
=============================================================================
