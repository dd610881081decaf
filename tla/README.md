# MicroNet Manager: TLA+ models and proofs

This directory holds the formal models of the microservices manager in `src/`:
an API gateway (`api_gateway/main.py`) that starts, stops and supervises three
REST services (`user_service`, `product_service`, `order_service`), forwards
requests to them and offers a WebSocket "ChatOps" console, and a browser
frontend. TLC checks the models on small instances; TLAPS checks the theorems
of `*Proofs.tla` for every value of the constants.

## 1. Inventory

Only the files named here are the project's own; everything else in `src/` is
vendored Python packages.

| Component | Code | State it keeps | Operations | Hard behaviour |
|---|---|---|---|---|
| Service registry and lifecycle | `main.py` 20-49, 476-542, 760-811 | `services[s]`: `status`, `healthy`, `process` | start, stop, simulate failure, recover | no lock; start and stop block the event loop for seconds while the health thread and pool threads go on |
| Health monitor | `main.py` 545-574 | writes `healthy`, `status` | one round over the services every 10 s | acts on replies that are stale when recorded |
| Proxies, load balancer | `main.py` 577-737 | `request_count`, `current_product_instance` | eight `def` endpoints, each on a pool thread | check, then call without timeout, then write `healthy` |
| ChatOps | `main.py` 56-106, 145-473 | `active_connections`, `connection_users`, `user_roles` | connect, disconnect, command, broadcast | list mutated while a broadcast awaits; failures of one step out of several |
| Order service | `order_service/server.py` | `orders_db`, `order_id_counter` | create, get, update, cancel, confirm, ship, deliver, list, stats, health | id counter read long before it is incremented; iteration against insertion |
| Product service | `product_service/server.py` | `products_db`, `product_id_counter`, the stock of each product | create, get, update, delete, restock, purchase, list, search, stats | stock under concurrent writers; product read again after it was updated; the answer is the live record, encoded later on the event loop |
| User service | `user_service/server.py` | `users_db`, `user_id_counter` | create, get, update, delete, list, search | as above, without stock |
| Frontend | `frontend/script.js` | socket, `isConnected`, role, last status shown | connect, disconnect, role change with reconnect, polls | answers out of order, events of old sockets |
| Client script, gRPC stubs, test | `client/client.py`, `user_service/user_pb2*.py`, `test_grpc.py` | none | sequential calls | none (no gRPC server is ever started) |

How they interact. The gateway's event loop runs the coroutines (`start_service`,
`stop_service`, one `websocket_endpoint` per connection). FastAPI runs every
`def` endpoint on a thread of a pool; the loop dispatches the request and sends
the response. `health_check` is a daemon thread. All three kinds of actor read
and write the dictionary `services`. The gateway talks HTTP to the services and
holds a `Popen` handle of each one it started; the services write their access
log to a pipe (`stdout=subprocess.PIPE`) that the gateway never reads.

What makes each component correct is stated as properties below; every place
that is hard to test is listed, with its line, under "hazards" in
`PROJECT.json`.

## 2. Modules

| Module | What it is |
|---|---|
| `Gateway` | registry, lifecycle, health monitor, proxies, processes |
| `GatewayClaims` | the statement of a comment the gateway violates |
| `MCGateway` | instances for TLC (`gateway_*.cfg`, `claim_adopt`) |
| `Lifecycle` | abstract specification of the registry: orders to start and to stop, and verdicts of health checks |
| `GatewayProofs` | theorems about `Gateway` |
| `ChatOps` | connection manager, WebSocket coroutines, broadcasts |
| `Room` | abstract specification of the ChatOps room: who is in it, whom a message comes to |
| `ChatOpsClaims` | the statement of a comment the ChatOps side violates |
| `MCChatOps` | instances for TLC (`chat_*.cfg`, `claim_reach`) |
| `ChatProofs` | theorems about `ChatOps` |
| `OrderService` | the order service: id counter, orders, the requests its threads serve |
| `OrderBook` | abstract specification of the order service: atomic requests, true answers |
| `CrowdedBook` | the same when creates overlap: what a create may then replace |
| `MCOrder` | instances for TLC (`order_*.cfg`) |
| `OrderProofs` | theorems about `OrderService` |
| `Store` | what the user and the product service share line for line |
| `UserService` | the user service: `Store` and `list_users` |
| `ProductService` | the product service: `Store` with stock and statistics |
| `Shelf` | abstract specification of the product service: what happens to stock |
| `MCUser`, `MCProduct` | instances for TLC (`user_safety`, `product_safety`) |
| `StoreProofs`, `UserProofs`, `ProductProofs` | theorems about the three |
| `Supervision` | `Gateway` composed with `OrderService` |
| `MCSupervision` | instance for TLC (`supervision`) |
| `SupervisionProofs` | theorems about `Supervision` |
| `Page` | the dashboard: its socket, role and status polls |
| `MCPage` | instance for TLC (`page`) |
| `PageProofs` | theorems about `Page` |

### Gateway

State. `status`, `healthy`, `process` are the three mutable fields of
`services[s]`; `process[s]` is the copy the handle refers to. `proc[s][c]` is
the operating system's view of copy `c` of service `s` (`exited`, `booting`,
`serving`), `out[s][c]` the number of log lines in its pipe. `loop` is the
operation that blocks the event loop (`popen`, `probe`, `probed` of a start;
`terminate`, `waiting` of a stop; `create` of the ChatOps command
`create user`), `hc` the place of the health thread in its loop with the reply
it carries, `worker[t]` the request a pool thread serves. `demoted[s]` is a
history variable: a health check has marked `s` stopped over a live process.

Granularity. The build is a CPython 3.13 with the GIL: threads are switched at
calls, blocking I/O and backward jumps only. A step is what a thread does
between two such points; in particular `request_count += 1` up to the call of
`requests`, and the three assignments of `health_check` after its test, are one
step each. `start_service_process` and `stop_service_process` never await: while
one runs, no other coroutine runs, no request is dispatched to the pool and no
response is sent, but the health thread and the busy pool threads go on. That is
the guard `LoopIdle` of the operations, of `Dispatch` and of `Respond`.

| Code | Actions |
|---|---|
| `start_service_process` 476-512 | `StartBegin`, `PopenOk` / `PopenError`, `StartProbe`, `StartRecord` |
| `stop_service_process` 515-542 | `StopBegin`, `StopTerminate`, `StopKill`, `StopFinish` / `StopError` |
| ChatOps `fail`, `recover`, `create user` 343-419 | `SetHealthByCommand`, `CreateUserBegin`, `CreateUserEnd` |
| `health_check` 545-574 | `HealthRound`, `HealthSkip`, `HealthVisit`, `HealthGet`, `HealthRecord` |
| eight proxies 577-737 | `Head`, `Connect` / `Refused`, `Reply` / `Broken` |
| `simulate_failure`, `recover_service`, `get_status` | `SetHealth`, `ReadStatus` |
| Starlette's pool (external) | `Dispatch`, `Respond` |
| operating system, uvicorn (external) | `Boot`, `Exit`, `TimedRequest`, `Answers` |

A process may end at any time (`Exit`), also while it boots - the services print
non-ASCII characters before they serve, which a console code page may refuse -
and it may ignore `terminate()`. A second copy finds its port taken and exits.
Whether a killed process ends is the operating system's affair: `StopKill`
takes it for granted, the second `wait()` (`main.py:532`) is not looked at.
Since every health check adds a line to the pipe of the service, every service
the gateway starts hangs in the end, without any other request; the model has
no step that drains a pipe because the code has none. An `Unreliable` service may answer late, with another status than 200, or with a
body that is not JSON. The order in which a round of `health_check` visits the
services is left open (the code's is the order of the dictionary): the
properties do not depend on it.

`Lifecycle` is what the manager may rely on: at most one order to start or to
stop is carried out at a time, a stop only on a service that has a process; a
health check may write over the status meanwhile, but the order has the last
word; and a health check never brings a stopped service back. The mapping keeps
`status`, reads `kept[s]` off `process[s] # None`, and `order[s]` off the
operation that blocks the loop (`OrderOn`).

### ChatOps

`turn` is the coroutine that holds the event loop. A coroutine keeps it up to
an `await` that makes it wait: its client's next message, or a send to a client
that reads slowly. `h[c].pc` is the place of the coroutine of connection `c`;
`h[c].cast` is the broadcast it makes: the position of Python's list iterator,
the connection being sent to, and the ones whose send failed, with two history
fields (`due`: listed when it began; `seen`: come to). `broken[c]` is
`application_state == DISCONNECTED`, set by the first failed send; later sends
and `receive_text` raise `RuntimeError`. A command is abstracted to what the
two `startswith` tests of `handle_chatops_command` make of it (`Quiet`, `Public`):
`start` stands for the commands that are quiet and public, `create` for the
quiet ones only, `fail` for the public ones only, `status` for those that are
neither, also because they are not in lower case.

A frame of bytes is no command: `receive_text` looks up the key `text` and
raises `KeyError` (`starlette/websockets.py:121`), which `except Exception`
(`main.py:193-195`) takes. The connection is unregistered and its coroutine
returns, although its client is still there and its socket stays open until the
client closes it (`ReceiveBytes`, then `Leave`).

| Code | Actions |
|---|---|
| `connect` 66-71, greetings 159-176 | `Connect`, `Greet`, `GreetFails`, `GreetBroken` |
| receive loop 178-195 | `Receive`, `ReceiveBytes`, `Hangup`, `Leave` |
| `handle_chatops_command` 198-246 | `Echo`, `Process`, `Respond`, `ReplyFails` |
| `broadcast` 89-100 | `Pick`, `Deliver`, `EndAnnounce`, `EndDeclare`, `EndNotice` |

`connection_users` always changes together with `user_roles` and is left out.

A broadcast may step over a connection that is open (`claim_reach` below).
`MissesBounded` is what remains true of it: the connections before the iterator
it has not come to (`Skipped`) are at most as many as those it had come to that
are no longer listed (`Left`).

`Room` is what a client may rely on: one enters once, with a role; the messages of
others put nobody out whose client has not gone away, whatever they run into,
and one is put out without a word only if the client has gone away or has just
said something that is not text (`garbled`, mapped by `Unreadable`); only who is in the room speaks, so that a connection that was dropped announces
nothing any more (its echo fails first); a message comes to nobody twice and to
nobody outside, and when it ends it has missed at most one member for each it
had come to, or speaker, that is a member no longer. The mapping counts a
connection as reached from the moment the iterator yields it.

### OrderService

State. `orders` is `orders_db`, with the status of each order and whether it has
a tracking number, a delivery date and an infinite price or total (`infinite`: a
`float` may be sent as `1e999`, and a product or a sum may overflow; nothing
checks either); it starts with the three sample orders,
two of which carry statuses that `PUT` would refuse. `worker[w]` is the request
a pool thread serves: the place in its handler, the id it works on, and for an
iteration the size of the dictionary it began with (what Python compares at
every turn). History: `forced`, the ids whose status the flow does not explain
(samples, `PUT`), and `known`, the ids stored when a create read the counter.

Granularity as for `Gateway`: a handler runs alone between two calls. Hence
`confirm_order`, `ship_order` and `deliver_order` test and set the status in one
step, `create_order` stores the order and increments the counter in one step,
but reads the id steps earlier, before it calls `sum()` and `strftime()`. `sum()`
raises `OverflowError` for a quantity too large to become a `float`
(`CreateFails`). An answer that holds an infinite number cannot be written as
JSON (`allow_nan=False`, `starlette/responses.py:191-198`) and becomes HTTP 500
after the handler has done its work: `Rendered` for one order, `ScanSpoils` for
the lists and the revenue.

| Code | Actions |
|---|---|
| `create_order` 81-101 | `CreateRead`, `CreateStore` / `CreateFails`, `Close` |
| `get_order` 103-109 | `GetBegin`, `GetEnd` |
| `update_order` 111-126, `cancel_order` 128-136 | `Update` / `UpdateInvalid`, `Cancel`, `Close` |
| `confirm_order` 159-170 | `Confirm`, `Close` |
| `ship_order` 172-184 | `Ship`, `ShipDraw`, `ShipLabel`, `Close` |
| `deliver_order` 186-198 | `Deliver`, `DeliverSign`, `Close` |
| `list_orders`, `get_user_orders`, `health`, `get_stats` | `ScanBegin`, `ScanStep` / `ScanSpoils` |
| 404 and 400 | `NotFound`, `Wrong`, `UpdateInvalid` |
| Starlette's pool (external) | `Respond` |

`OrderBook` is what a client may rely on: a book of statuses, requests that take
effect at once, and an answer that says what the effect was. The mapping reads
the statuses off `orders`; a request counts as served (`Served`) as soon as its
handler works on nothing but marks, the log line and the answer. An answer about
an order with an infinite number may turn into an error (`Err`). `OrderService`
implements it, however many threads create orders, until a create replaces
another one's order: the steps after which every id given out still has its
order (`Complete`) are steps of `OrderBook` (`IsOrderBook`). Nothing is assumed
about who creates; what two creates that share an id may do is `CrowdedBook`.

`CrowdedBook` is what it implements in any case. A create that has read the
counter is free to store its order under any id that was not in use then
(`free`, mapped by `Free` from `known`), also if another create has used it
since; it is the only request that is not atomic. A request to ship may be
answered with a failure after it took effect, when such a create has taken the
order, and its tracking number, away (`Fail`, possible only when fewer orders
are in the book than were ever `placed`). Everything else is as in
`OrderBook`; in particular no order that was in the book when a create began is
replaced by it.

### Store, UserService, ProductService, Shelf

State. `db` is the dictionary `users_db` or `products_db`. Its values are Python
objects, and it matters which: records are numbered in the order in which they
were stored, `db[id]` is the number of the record under `id`, `ids[o]` the field
`id` of record `o` (also after it was deleted or replaced), `dated` the records
that have got the key `updated_at`, `stock[o]` the stock of record `o`, `infinite` the
products whose price is infinite or NaN.
`worker[w]` is the request of a pool thread: the id it names, `obj` the record
its handler changed, `ref` the one it answers with, and what an iteration
compares. History: `calm`, the threads whose request no other request has
disturbed, that is, has stored, deleted or for the first time dated a record of
the same id (any record, for a walk).

Granularity as for the other services. `purchase_product` compares and subtracts
without a call in between; `create_*` reads the counter before it calls `str()`
or `strftime()` and increments it afterwards; `update_*` writes the fields, calls
`strftime()`, looks the record up again for `updated_at`, prints, and looks it
up a third time for the answer. A handler returns the record itself: FastAPI
encodes it on the event loop (`jsonable_encoder` iterates over its items) while
pool threads may add a key to it. Iterations raise `RuntimeError` when the size
of the dictionary has changed.

Numbers of products may be out of JSON's reach. A price may be infinite, or the
product of a finite price and a quantity or stock may overflow, and
`JSONResponse.render` then raises `ValueError` (`EncodeEnd`, unless `Writable`);
a quantity too large to become a `float` raises `OverflowError` at
`total_price`, when the stock has been taken already (`Sale`). The model
does not compute prices: whether a total overflows is a choice, except that it
does for a price that is infinite, and does not for a finite price and a
quantity of -1, 0 or 1. A request that is bound to be answered 500
for such a number has the verdict `overflow`. Integers are taken to stay below
the 4300 digits from which Python refuses to print them.

| Code | Actions |
|---|---|
| `create_user`, `create_product` | `CreateRead`, `CreateStore` (with a stock: `Create`), `LookUp` |
| `update_user`, `update_product` | `UpdateFields` (with a stock: `Update`), `UpdateDate`, `LookUp` |
| `delete_user`, `delete_product` | `Delete` |
| `get_user`, `get_product` | `GetBegin`, `GetEnd` |
| `list_users` | `ListBegin`, `ListEnd` |
| `list_products`, `search_*` | `WalkBegin` (with an infinite price filter: `ListBegin`), `WalkFind`, `WalkEnd` / `WalkFail` |
| `purchase_product`, `restock_product` | `Purchase` (`Sale`) / `Insufficient`, `Restock`, `LookUp` |
| `get_stats` of products (two walks) | `StatsBegin`, `StatsAgain` / `StatsFail`, `StatsSum`, `WalkEnd` / `WalkFail` |
| 404 and 400 | `NotFound`, `Insufficient` |
| FastAPI's encoder and pool, Starlette's JSON rendering (vendored) | `EncodeBegin`, `EncodeEnd`, `Respond` |

`Shelf` is what the product service promises about stock: requests that take
effect at most once and at one instant, sales only from enough stock, refusals
that change nothing, creates that may take the place of one product. It does
not promise that a request that took effect is answered as such (`Spoil`): an
update whose product is deleted before the answer is looked up has been applied
and is answered 500, and a sale whose total is infinite has been made. It says
nothing of the stock shown in an answer, and it allows restocks of any quantity,
negative ones included, as the code does. The mapping takes the products on sale from `db` and reads
the state of each request off its thread (`Deal`).

### Supervision

The composition of `Gateway`, for the one service `order`, with `OrderService`:
the requests to `/health` that `health_check` and a start make, and the
`POST /orders/` that a thread of the gateway forwards, are served by threads of
`order_service` (`thread`), whose orders live in the memory of the copy that has
the port. In `Gateway` an `Unreliable` service may answer 500 at any time; here
no service is `Unreliable`, and that answer has its cause in the code: the walk
of `/health` over `orders_db`. `ProbeEnds` ties the reply the gateway gets to
what the thread did. A process that ends, or hangs on its pipe, takes the
requests it was serving with it (`Lost`); a copy that gets the port starts with
the sample orders (`Restart`), and not before the requests of its predecessor
are lost, since their connections are reset at once and booting takes a second.
Answers that come after the timeout of a probe are not modelled here (they are
in `Gateway`, for unreliable services). `crowded` is a history variable: the
probes during whose walk an order was added to `orders_db`. `Unsure` is `Gateway` with every
service `Unreliable`: `IsGateway` says that the composition implements it, so
that the properties checked and proved of `Gateway` hold of it.

### Page

The page's part of the protocol: the socket the page holds (`websocket`),
`isConnected`, `currentUserRole`, the state of every socket it ever opened and
that is not closed (`link`), the role each was opened with (`given`), the
reconnects `setTimeout` still has to run, the polls of `/management/status`
under way and the status shown. Every callback runs to its end; clicks, socket
events, timers and answers come in any order. `gateway` is the status of one
service in the registry, or `down`. `unheeded` is a history variable: sockets
that were held when a role was chosen while the page took itself for not
connected, so that `updateUIForRole` did not reconnect.

| Code | Actions |
|---|---|
| `connectWebSocket` 52-92, `onopen`, `onclose` | `ClickConnect`, `Opened`, `Closed` |
| `disconnectWebSocket` 94-100 | `ClickDisconnect` |
| `updateUIForRole` 27-49 | `ChooseRole`, `Reconnect` |
| `fetchSystemStatus`, `updateStatus` 525-588 | `Ask`, `Read`, `Show` |
| the gateway (external to the page) | `Turns`, `Read` |

## 3. Runs

| Run | Instance | What it shows |
|---|---|---|
| `gateway_safety` | 1 unreliable service, 2 copies, 2 threads, pipe of 2 lines | `TypeOK`, `RunningHasHandle`, `NoTransientLeftBehind`, `OrphanOnlyAfterDemotion`, `StoppedIsSticky`, `IsLifecycle`: `Gateway` implements `Lifecycle` |
| `gateway_liveness` | 1 unreliable service, 2 copies, 1 thread, pipe of 1 line | `EventLoopReturns`, `DeadServiceIsReported`, `RefusedIsJudged`, `AnsweredUnlessHung` |
| `chat_safety` | 3 connections, 1 command, frames of bytes at any time | `TypeOK`, `RosterAgrees`, `NoGhost`, `RoleKept`, `MissesBounded`, `IsRoom`: `ChatOps` implements `Room` |
| `chat_liveness` | 2 connections, 2 commands | `ClosedIsForgotten`, `BroadcastEnds` |
| `order_safety` | 2 threads, requests for id 4, creates until the counter is above 5 | `TypeOK`, `ReplacesOnlyNewer`, `MarksFollow`, `CountsAddUp`, `FlowOnly`, `IsCrowdedBook`: `OrderService` implements `CrowdedBook` |
| `order_book` | as `order_safety` | `IsOrderBook`: `OrderService` implements `OrderBook` until an order is replaced |
| `user_safety` | 2 threads, requests for id 4, creates until the counter is above 5 | `StoreTypeOK`, `CalmRequestsSucceed`, `AnswersItsOwn`, `ReplacesOnlyNewer` |
| `product_safety` | 2 threads, requests for id 4, creates until the counter is above 4, quantities -2 and 1, prices finite or not | `TypeOK`, `CalmRequestsSucceed`, `KeepsPromise`: `ProductService` implements `Shelf` |
| `supervision` | 1 service, 2 copies, 1 thread of the gateway, pipe of 2 lines, 1 order created per copy | `HonestUnlessCrowded`, `IsGateway`, `OrdersOutliveDemotion` |
| `page` | 2 sockets, 2 polls, 2 timers, 1 status beside "down" | `TypeOK`, `ConnectedHasSocket`, `RoleFollows`, `PageConverges`, `DownIsNoticed` |

Two more runs end in a counterexample and stand for a finding each:

| Run | Statement of the repository | What the code does |
|---|---|---|
| `claim_adopt` | "Only update status if service is not manually stopped by manager" (`main.py:557`) | a service demoted by a failed check is never taken back, although nobody stopped it |
| `claim_reach` | "Broadcast a message to all connected WebSocket clients" (`main.py:88`) | a disconnect during the broadcast makes the iterator step over a client |

Bounds. `Copies` bounds the processes of one service alive at a time: two are
enough for an orphan beside the copy the handle refers to (`StartBegin` waits
for a free name, which is the only effect of the bound). `PipeCapacity` of one
or two lines makes a pipe fill within a run; `MaxRequests` saturates
`request_count`, which no guard reads. Two threads let a stale failure of one
meet the request of another. The gateway is run with one service, since its
services share nothing but the loop and the health thread, which one service
already keeps busy; its safety is proved for any number of them. Three
connections are the fewest for a broadcaster, one that leaves and one that is
stepped over; `MaxCommands` bounds the commands of all connections, but not
their disconnections and notices. Two threads are enough for two creates to
overlap, for a delivery to overtake a shipping, for a create to fall into an
iteration and for a deletion to fall into an update; `MaxId` of 5 lets a third
create follow two that shared an id (the counter moved by two), `MaxId` of 4
leaves the product service the two that share it; requests
for orders, users and products name id 4, which is at first unknown, then
stored, shared, replaced or deleted: no handler compares two ids other than for
equality, and the theorems hold for any ids. Quantities -2 and 1 and `MaxStock` of
1, a guard on every change, let a stock be bought to zero, refused and restocked
below zero, and a total overflow (the one of -2); records 1 to 3 keep their stocks. Two sockets, two timers and two
polls are enough for an event of an old socket after its successor's, for two
role changes within the second before a reconnect and for one poll to overtake
another. The safety runs use the symmetry of copies, threads and connections;
the liveness runs use none. Only the ChatOps runs switch the deadlock check off:
when every client has left, nothing is to be done.

Fairness. `Gateway`: weak fairness of the coroutine that holds the loop, of the
health thread, of each busy pool thread and of a booting process - each of them
goes on unless it waits for something the model shows (a full pipe, a process
that has not ended). Strong fairness of `Respond`: completions wait in asyncio's
FIFO queue and get their turn between two commands. No fairness of commands,
requests, errors or `Exit`: in particular no process is assumed to obey
`terminate()`. `ChatOps`: strong fairness of each coroutine's steps, since the
ready queue is FIFO and the keepalive of the WebSocket server ends a send to a
client that never reads; none of the clients. `Page`: weak fairness of the polls
(`setInterval` at the end of `script.js` is never cleared, and the browser ends
a `fetch` that nobody answers) and of the `onclose` of a socket that is closing
or whose gateway is down; none of clicks, of the gateway, of `onopen` or of the
reconnect. The other components are checked for safety only.

## 4. Proofs

Every safety property of the passing runs, invariants, action properties and
refinements alike, is also a theorem, for every value of the constants that the
named assumptions allow.

`GatewayProofs`, for any sets of services, copies and threads and any capacity
of the pipe, assuming only that `None` is no service and no copy, that
unreliable services are services and that the bounds are positive:

- `TypeCorrect`: `Spec => []TypeOK`;
- `HandleOfRunning`, `TransientsEnd`, `OrphansComeFromDemotion`: the three safety
  invariants of `gateway_safety`;
- `StoppedStays`: the action property `StoppedIsSticky`, from `TypeOK`;
- `RegistryIsLifecycle`: `Spec => IsLifecycle`, the refinement of `Lifecycle`.

The three invariants are not inductive: a health check that finds a service
`stopping` may write `running`, so that `RunningHasHandle` needs to know that a
stop at work has a handle (`StopHasHandle`), and `OrphanOnlyAfterDemotion` needs
to know that the live handle a start overwrites belongs to a demoted service
(`LiveHandleExplained`). `HandleInv` is the conjunction; `HandleOk(s)` says the
same of one service. The proof of a step has a frame lemma (`HandleFrame`: a
step that leaves a service alone keeps `HandleOk` of it), one lemma for the
steps of start, of stop, of `HealthRecord` and of the processes, and
`HandleOther` for the rest.

The refinement rests on the same invariant: that a start finds its service
`stopped` is the guard of the code, but that no order is under way then is
`LoopIdle`, and that a service called `running` has a process to stop is
`HandleOk`. An order that begins (`LifeGiven`) or ends (`LifeDone`) is one step
of `Lifecycle`; what a start or a stop does in between, and every request, leaves
the mapped state alone (`LifeSame`, `LifeRest`); `HealthRecord` is `Judge`
(`LifeHealth`).

`ChatProofs`, for any connections and commands, assuming that `None` is neither a
connection nor a role: `ChatTypeOK`, `ChatRosterAgrees`, `ChatNoGhost`,
`ChatRoleKept`, `ChatSentOnce`, `ChatMissesBounded`, `ChatReachesListed`, `ChatIsRoom`.
The list `active_connections` is a sequence from
which elements are taken while broadcasts hold positions in it. The inductive
invariant `ChatInv` says that it has no duplicates and lists exactly the
connections that have a role (`ListOK`), that a coroutine which has returned has
none and any other one has its own or is broken (`ConnOK`), and of each
broadcast that no position its iterator has still to come to holds a connection
it has sent to (`CastOK`). What taking connections out of a sequence leaves of it
is stated in lemmas about `Without`; they use a least-number argument in
the place of induction over the length.

`ChatMissesBounded` needs a count as well. `CountInv` says that for each
broadcast there is a set of connections it has come to, exactly one for each
advance of its iterator, none of which is at the position of the iterator or
after it. That set is
`Met` but perhaps for the connection that is left out, which is why it is
quantified and not defined. A removal before the iterator moves the list under
it, and the set does not change; what is before the iterator and not in the set
is then no more than what of the set is not before it (`Counting`), and that has
left the list. `ChatReachesListed` is the consequence a user of the console cares
about: a broadcast during which none of those it came to left the list has, at
its end, come to every listed connection but the sender.

`ChatIsRoom` (`Spec => IsRoom`) puts these together. It needs one more invariant,
`LinkInv`: a send fails only to a client that has gone away, a coroutine about to
leave has met such a failure or a frame of bytes, and those a broadcast is going to drop are among
those it has come to. That a speaker is a member follows from `ConnOK`: a
connection not listed is broken, and the echo before every announcement would
have failed. The guard of `End` is `CountBounds` once the iterator is exhausted
(`MissedAre`). Most steps leave the mapped state alone (`Unseen`, `Silently`).

`OrderProofs`, for any threads, addressed ids and bound (assuming only that ids
are natural numbers):

- `OrderTypeCorrect`: `Spec => []TypeOK`. The size an iteration remembers is a
  number because `orders_db` is finite, hence `TypeInv`; a handler half way
  through (`HalfWay`) works on an order that exists because orders are never
  removed (`WorkerType`).
- `OldOrdersKept`: `Spec => []ReplacesOnlyNewer`, by `AllocInv`: every id in use
  is below the counter, and no create has read an id above it. Steps that do
  not allocate are dealt with together (`AllocFrame`).
- `FlowKept`: `Spec => FlowOnly`, one step per handler, from the type of
  `orders`.
- `MarksKept`: `Spec => []MarksFollow`, which is inductive given the types: a
  handler that sets a status is `Busy` with the mark until it has written it.
- `CountsAgree`: `Spec => []CountsAddUp`, by `CountInv`: an iteration under way has
  seen no more orders than the size it began with, and `orders_db` is never
  empty.
- `ServiceIsCrowdedBook`: `Spec => IsCrowdedBook`. `CrowdInv` is the types,
  `AllocInv`, that a handler keeps its operation until the answer (`OpsKept`),
  that the id a create has read is one of the book's (`PricedInRange`), and that
  as long as every id has its order (`Complete`) the log line of `ship_order`
  finds the tracking number (`LabelHasNumber`: only a create that replaces the
  order takes it away). `ReplacesOnlyNewer` is what makes the id one of those the
  create is `free` to use.
- `ServiceIsOrderBook`: `Spec => IsOrderBook`, for any threads, all of which may
  create: from the same invariant, since a create after which every id has its
  order has stored its own under an id that was free.

The two refinements share their proof of every step but those of a create
and of a ship that fails: it is the step of one thread with a request other than a create
(`StepServes`), and it either leaves the mapped state alone (`InnerStep`) or is
one step of the book (`RequestRefines`, `GoRefines`, `ReadRefines`).

`StoreProofs` shows one inductive invariant, `StoreInv`, to be kept by every
action that the user and the product service share: every id ever used is below
the counter (`TablesOK`), the record a handler has changed and the one it answers
with carry the id it names, and a create under way has read an id no older
record has (`RequestOK`); an undisturbed request still finds what it is going to
look up, and what it walks over has not changed (`CalmOK`). From it `UserProofs` proves `UserStoreTypeOK`,
`UserCalmRequestsSucceed`, `UserAnswersItsOwn` and `UserReplacesOnlyNewer`, and
`ProductProofs` proves `ProductTypeOK`, `ProductCalmRequestsSucceed` and the
refinement `ProductKeepsPromise`: `Spec => KeepsPromise`, for any quantities and
levels, negative ones included. Each action of the product service is one step
of `Shelf` or leaves the mapped state alone.

`SupervisionProofs`, assuming that the gateway supervises the order service only
and that no thread has the name of a probe:

- `GatewayOfUnsureService`: `SuperSpec => IsGateway`;
- `HonestWhenCalm`: `SuperSpec => HonestUnlessCrowded`;
- `OrdersKept`: `SuperSpec => OrdersOutliveDemotion`;
- `SuperTypeOK`, `SuperHandleOfRunning`, `SuperTransientsEnd`,
  `SuperOrphansComeFromDemotion`, `SuperStoppedStays`, `SuperIsLifecycle`: what
  `GatewayProofs` shows of the gateway holds of the composition.

`SuperInv` says that a health check under way asks for the order service
(`HcOK`) and that a walk of a probe that failed, or will fail because the size
of `orders_db` is no longer the one it began with, has been crowded
(`ThreadsOK`). The steps of the gateway that do not reach the service are steps
of `Gateway` for any set of unreliable services (`AloneIs`). The last six theorems
are not proved again: `Proved` is `GatewayProofs` with every service unreliable,
`SuperSpec` implies its specification (`SuperIsProved`), and its theorems are
cited. `SuperIsLifecycle` goes through two refinements, from the composition to
`Gateway` and from there to `Lifecycle`.

`PageProofs`, for any sockets, polls, timers and statuses: `PageTypeOK`,
`PageHasSocket`, `PageRoleFollows`. Their conjunction is inductive as it stands:
the socket that `ConnectedHasSocket` speaks of may be another one than the page
holds, which is what makes it survive a late `onclose`.

Only model-checked: the liveness properties `EventLoopReturns`,
`DeadServiceIsReported`, `RefusedIsJudged`, `AnsweredUnlessHung`,
`ClosedIsForgotten`, `BroadcastEnds`, `PageConverges` and `DownIsNoticed` (they
rest on fairness and `ENABLED`, which the prover does not handle), and the two
findings.

## 5. Not modelled

- What proxied answers say: `response.json()` is passed on with status 200 also
  when the service answered 404 (`main.py:591`). Nothing in the repository reads
  that status, so there is no behaviour to relate it to.
- A proxied request that fails late clears the healthy flag of a service that
  has recovered meanwhile (`main.py:592`). `Gateway` has these steps and no safety
  property forbids them; that the flag does not stay cleared is `RefusedIsJudged`.
- Real time: `time.sleep`, the two-second and five-second timeouts are the
  possibility of a late answer, not a distance between events.
- Wording, logging, static files, the gateway's `/health`.
- In the order service: items, addresses and time stamps (no handler decides
  anything by them). The encoding of an answer after its handler has
  returned may fail when another thread adds a key to the order meanwhile, as it
  may in the other two services: it is modelled in `Store` only. Hence
  `OrderBook` speaks of what a handler returns, and whether that can be written
  as JSON, not of what is left of it on the way.
- In the user and product services: names, mail addresses and categories, which
  decide only what a search finds (`WalkFind` finds anything), and the amounts of
  prices.
- In the page, a poll that fails while the gateway is up.
- Two services in one liveness run: that a hung service does not keep the health
  thread from the others. A pool with no thread left, since requests that have
  no thread are no steps of `Gateway`. Ids handed out again after a restart.
- In the page: the buttons that send one request and show its answer as text,
  and the chat log. They keep no state. (`currentUserId` is one variable more,
  but it is never set to anything except `null`.)
- The composition of the gateway with the user and the product service: their
  `/health` walks over nothing that can fail, so that the gateway sees them as
  `Gateway` with no unreliable service describes them.
- The client script, the generated gRPC stubs (no server uses them) and the
  vendored packages, which appear only as environment: the request cycle of
  uvicorn, Starlette's pool and sockets, FastAPI's encoder, the timeouts of
  `requests`.

## 6. Plan

1. *(done)* `Gateway` and `OrderService` with their proofs and `OrderBook`;
   `ChatOps`.
2. *(done)* `Store`, `UserService`, `ProductService`, `Shelf` and their proofs;
   `Supervision`; `Page`; proofs about `ChatOps`, the page, marks and counts, and
   the composition.
3. *(done)* `Lifecycle`, `CrowdedBook` and `Room` with their refinements; how many
   connections a broadcast may miss; the theorems about the gateway carried over
   to the composition.
4. *(done)* Frames that hold no text in `ChatOps`; numbers that JSON cannot write in
   `Store`, `ProductService` and `OrderService`; `IsOrderBook` for any creators.
5. The order service inside `Supervision`: that its invariants hold of every
   copy, across restarts and lost requests.
6. The encoding of answers in the order service, with an order book that may
   spoil an answer, as `Shelf` does.
