# chilliacd: a TLA+ verification project

`chilliacd` is a call-routing server. A soft switch connects over TCP, asks for
the route of a call (`acdRoute`, `acdRouteEx`), and reports that a route is in
use or free again (`acdRouteUsed`, `acdRouteEnd`). The server keeps the
routing tables and one counter of current calls per gateway in Redis, which it
loads from MySQL when it starts. Each request gets a *session* with a thread of
its own.

All paths below are relative to `src/chilliacd/src/` unless they start with
`src/`. The own code has no tests; the documents in `src/doc` are Word and
Visio files, so comments and messages in the source are all the intent there
is.

## 1. The system

### Components, their state and operations

| component | source | state | operations |
|---|---|---|---|
| event buffer | `CEventBuffer.h` | a list, a mutex, a condition variable | `Put`, `Get` with a timeout |
| session manager | `SiaManager.cpp` | `m_mainqueue`, `m_Sessions`, `m_Callid2SessionMap`, the session counter | `SendMessageToMe`, `run`, `HandleMessage`, `NewSession`, `AssociateSessionByCallId`, `GetSessionByCallId`, `DispatchThreadMessage`, `RemoveSession`, `Stop`, `OnDisconnect` |
| session | `SiaSession.cpp` | `m_EventQueue`, `m_thread`, `m_connection`, the subscriptions | `run`, `HandleMessage`, five handlers, `Stop`, the destructor |
| gateway manager | `ACDCallNum.cpp` | copies of the Redis tables, the result of the last lookup; in Redis: the tables and `key_sip_gateway` | `get_data_from_redis`, `get_route_by_caller`, `get_modified_callee_by_callee`, `get_result`, `update_current_sessions_by_route_id`, `load_data_from_mysql`, `save_data_2_redis` |
| TCP server | `TcpServerModule.cpp`, `SiaTcpServer.cpp` | `g_TCPClientMap`, `m_Connects`, `m_Datas`, a buffer and timers per connection | libevent callbacks, the framing of the streams, `PutMessage`, `OnWriteble`, `Start`, `Stop` |
| process | `src/chilliacd/acdd.cpp` | `g_Running` | `main` |
| timer | `SiaManager.cpp`, `SiaManager.h` | `m_TimerMap`, `m_AddTimerMap` | `timerSet`, `timerClear`, `ProcessTimer`, `AddTimer`, `Stop` (no callers set a timer) |
| readers of cfg, xml, json | `ACDReadConfig.cpp`, `cfgFile.cpp` | none that is shared | parsing |
| MySQL access | `MySql.cpp` | none that is shared | `executeQuery` |
| Prometheus exporter, HTTP server | `SiaPrometheus.cpp`, `SiaHttpServer.cpp` | none of its own | one HTTP answer |
| soft switch client, statistics, monitor, TCP and HTTP client | `TcpClientModule.cpp`, `SSModule.cpp`, `StatModule.cpp`, `SiaTcpMonitor.cpp`, `HttpClientModule.cpp` | reconnect state, send queues | compiled, but nothing creates one |

### How they interact

```
peer --TCP--> TCP server thread --m_mainqueue--> manager thread
                    ^                               | m_Sessions, m_EventQueue (per session)
                    | m_Datas                       v
                    +------- SendMessageToSS --- session threads --> GatewayManager --> Redis
main(): Start, MySQL --> Redis, startup lookup and count, console, Stop
```

Threads: the TCP server's loop, the manager, the timer's loop, one per session,
`main()`, and the Prometheus exporter's. Shared state: the event buffers (each
with its own mutex), the two maps of the manager (under the recursive
`m_sessionMtx`, with exceptions listed as hazards), the members of the
`GatewayManager` singleton (under no effective lock: `MyMutex` locks a mutex of
its own), Redis (each command atomic, sequences of commands not), `m_Datas`
(under `m_DataMtx`).

### What is hard

* `RemoveSession` runs on the session's own thread, which holds the last
  reference to its session; `Stop` destroys sessions on `main()`'s thread at the
  same time, and clears the map without the lock.
* A session detaches its own thread while `Stop` asks whether it is joinable.
* Messages for one session arrive in three ways: by the session the manager has
  just created, by `invokeID`, by call id.
* Read-modify-write of one JSON array in Redis by several threads, and again by
  the next run of the process.
* Lookups write their result, entry by entry, into a member every other thread
  writes too.
* A Redis command may fail, or be rejected, at any point of an update.
* Objects of closed connections stay reachable through `m_Connects`.
* TCP cuts the streams anywhere; the callback that takes the frames out of a
  buffer runs while session threads answer and `main()` stops the loop.
* A timer passes a queue, libevent's heap and a map, each of which another
  thread changes; `CSIATimer::Stop` goes through the map without the lock.
* `Stop` waits for four kinds of threads in turn, the manager's, the timer's,
  every session's and the TCP server's, two of which may have missed the request
  to leave; and the TCP server must outlive the last session that could answer.
* Requests are accepted before the configuration of Redis is set.
* The client's flags and counters live longer than the connection they are
  about, and its `Stop` uses `m_pBase` while the client's thread makes and frees
  it.

### What makes each component correct

* event buffer: no lost wake-up, FIFO, exactly once, a bound.
* manager and sessions: never more sessions than `session_num`; a session
  handles the request it was created for; a call id leads to the session opened
  with it, and a message that names no session reaches only one it is meant for; no thread joins itself; no object destroyed under a thread that still
  works on it; every thread ends; `Stop` returns.
* gateway manager: counts are the sum of what was reported; the answer to a
  lookup comes from the caller's own gateways.
* TCP server: contents are handed on whole, once and in order, none is left in a
  buffer; answers are written once and in order; timers do not outlive
  connections; `Stop` returns.
* timer: the manager is told of a timer once at most, of one that was cleared in
  the map never, and of every other one at some time; no element is freed twice.
* the whole: the soft switch sees each request answered once at most, in the
  order of the answers; no session answers into a server that is gone; every
  thread ends and `Stop` returns.
* TCP client: messages go out once, in order, and only after the login on this
  very connection; a lost connection is made anew, with every address in turn;
  a peer that is gone without closing is given up; `Stop` returns.

## 2. The modules

| module | models | source |
|---|---|---|
| `EventQueue` | abstract FIFO, what users of a buffer rely on | `CEventBuffer.h` as used |
| `EventBuffer` | `CEventBuffer` with its waiting threads; implements `EventQueue` | `CEventBuffer.h` |
| `EventBufferProofs` | proofs about `EventBuffer` | |
| `SessionPool` | abstract: what a pool of sessions promises whoever sends requests | `SiaManager.cpp` as used |
| `SiaManager` | manager, sessions, `Stop`; implements `SessionPool` | `SiaManager.cpp`, `SiaSession.cpp` |
| `SiaManagerProofs` | proofs about `SiaManager` | |
| `GatewayManager` | the gateway data in Redis and in memory, the handlers, `main()`'s start | `ACDCallNum.cpp`, `SiaSession.cpp`, `acdd.cpp` |
| `GatewayManagerProofs` | proofs about `GatewayManager` | |
| `TcpServer` | the TCP server and its connections | `TcpServerModule.cpp`, `SiaTcpServer.cpp` |
| `TcpServerProofs` | proofs about `TcpServer` | |
| `Framing` | the streams of several connections, cut anywhere, and the loop of `conn_read_cb` | `TcpServerModule.cpp` |
| `TcpReading` | `TcpServer` and `Framing` together: `conn_read_cb` frame by frame | `TcpServerModule.cpp` |
| `TcpReadingProofs` | proofs about `TcpReading` | |
| `TimerService` | abstract: what a timer promises sessions and manager | `SiaManager.h` as used |
| `Timer` | `CSIATimer`: the sessions' calls, its thread, `Stop`; implements `TimerService` | `SiaManager.h`, `SiaManager.cpp` |
| `TimerProofs` | proofs about `Timer` | |
| `RequestReply` | abstract: what the server promises the soft switch | |
| `AcdServer` | `SiaManager` and `TcpServer` together, up to the end of `Stop`; implements `RequestReply` | `SiaManager.cpp`, `SiaTcpServer.cpp`, `acdd.cpp` |
| `AcdServerProofs` | proofs about `AcdServer` | |
| `TcpClient` | the reconnecting TCP client, its queue, `Start` and `Stop` | `TcpClientModule.cpp`, `SSModule.cpp`, `StatModule.cpp`, `SiaTcpMonitor.cpp` |
| `TcpClientProofs` | proofs about `TcpClient` | |
| `MC*` | the requests and constants TLC is given | |

The operator of a function has the function's name where the function is one
action; a function in several steps has one action per step, named for what the
step does. Definitions marked `Mutant` are plausible mistakes in the action
that follows; no specification uses them.

### EventBuffer

`Put` holds `m_mtx` throughout: one action, with `PutThrows` for the full
buffer. `Get` gives the lock up only inside `wait_for`, so it is `GetAtOnce` or
`GetWaits`, then `Resume...` once the thread is awake and has the lock again. A
thread leaves the wait set by `notify_one` (`notified`), by its timeout
(`expired`) or for no reason (`roused`); `wait_for` with a predicate goes back
to sleep except after a timeout, when it returns the predicate.
A timed-out thread that finds an item takes it.

### SiaManager

A section under `m_sessionMtx` is one action, an operation on a queue is one
action (`EventBuffer` says why that is right), and everything a thread does in
between that another thread can see is an action of its own: the detach, the
removal, the release of the last reference; in `Stop`, the message, `join()` of
the manager, the request to the timer's loop (`TimerStop`) and its `join()`
(`OnDisconnect`), the message, `join()` and destruction of each session. Of the
timer only what `Stop` sees of its thread is here, `TimerRun`: a request that
comes before the loop is dispatched is missed, and `Stop` then waits for ever.
Setting and firing are in `Timer`; nothing in the deployed process sets one. A request is reduced to its command,
`invokeID`, `param.callid` and `param.connection.callID`; a connection that is
not an object is `Bad`, because `RemoveSession` throws on it. Requests whose
`param` is not an object make the manager thread throw and are left out.

To whoever sends the requests all this is a `SessionPool`: a session is opened
for one request, later than those of the sessions before it, works on that request,
and leaves when it is through. `Phase` maps the thread's place in `run` to it; the
queues, call ids and locks do not appear, and `Stop` only makes sessions give up
or leave.

`crashed` is set in two places: `join()` on a thread that has detached itself
throws out of a destructor; `clear()` without the lock together with
`RemoveSession` is a data race, of which the model allows both outcomes. The
code can end in other ways that are not in this model: an exception on the
manager's thread when `param` is not an object (`SiaManager.cpp:510`), the null
Redis context of a failed connection (`ACDCallNum.cpp:49`, the `Restart` of
`GatewayManager`), a header below 4 (`TcpServerModule.cpp:345`). No property says
that the process lives.

### GatewayManager

Every Redis command is one action of the calling thread, and so is every visit
of a loop to one entry: `FindNumber` for a number of the caller, `AddGateway` for
a gateway of these numbers, `EditEntry` for an entry of the result. Between two
of them another thread may clear or reload the tables, clear `json`, or write its
own entries into it; `found`, `place` and `size` are the loop's local variables.
`operator[]` makes the entries that are gone (`Placed`, `Indexed`). The fields of
one entry are written together: the code can mix those as well, which the model
leaves to `Restart`, like every other outcome of a race inside jsoncpp.

The three tables are reduced to `RouteOf`, what their join yields; they are
stored whole or as the JSON null that a failed query yields, and one null table
has the effect of three, because `get_route_by_caller` tests them together. The
three GETs of the tables are one action, which changes nothing: they are stored
only before `set_sql_config`, and nobody reads them before that (`TablesKept`).
A query, a GET or a SET may fail, or be rejected by Redis (`Fail`, at most
`NumFailures` times): a rejected GET leaves a null that is stored over the counts,
a failed SET is logged and no more.

`main()` is a thread like the sessions, with its own first steps (`SaveTables` to
`SetSqlConfig`). `Restart` is the end of the process and its next start, at any
point; Redis keeps its data.

### TcpServer

One action per libevent callback, since the loop is one thread; the loop's
start and end are actions too because `Stop` races them. A freed object that is
still in `m_Connects` is used in `OnWritebleFreed`, whose outcomes are those of
the read of freed memory: the answer is lost, goes to a connection allocated in
the same place, or the process dies. libevent's rules used: `event_break` is
cleared when the loop starts (`src/libs/libevent-2.1.8-stable/event.c:1909`),
`event_base_loopbreak` of a null base does nothing (`event.c:1815`), a freed
event does not fire.

### Framing and TcpReading

A byte is known by its place in the stream of its connection: `ends` says where
the frames end that the peer has sent, `arrived` how much has come, `removed`
how much has left the buffer, `contents` what `onReceived` was given. A header is
what `ntohl` makes of the bytes at the front: at the start of a frame its length,
anywhere else any number. Peers send well-formed frames.

In `TcpReading` a turn of the loop of `conn_read_cb` is one step of `Framing`
(`TakeFrame`) and one of `TcpServer` (`Ping` or `ReceiveRequest`) together.
While the callback runs no other one does, but sessions put answers and `main()`
calls `Stop`; the loop ends only after it.

### Timer

`timerSet` takes a number and then puts the element into `m_AddTimerMap`, two
steps; `AddTimer` makes the event and then the entry of the map, two steps;
`ProcessTimer` erases the entry under `m_mtx`, tells the manager and frees the
element, three steps, since `timerClear` and `Stop` may come between any two of
them. `Stop` frees the elements of the map one by one without `m_mtx`
(`StopDelete`); an access by another thread meanwhile is a data race, which the
process survives or not (`damaged`). Nothing in the code calls `settimer`: the
model is about what the class offers, and `SafeUntilSwept` says that a process
that sets no timer is not damaged. What it offers is `TimerService`: a timer is
set when it is in `m_AddTimerMap`, cancelled when `timerClear` has found it in the
map, told of by `SendMessage`; elements may be freed unasked, and the process may
break, only after `Stop` has begun.

### AcdServer

The manager's and the server's variables side by side. Their common steps are
`Receive` (a request is taken off a connection and put on the manager's queue)
and `Answer` (a handler of a session puts its answer into `m_Datas`); `TcpStops`
begins when the manager has joined the timer's thread and cleared the sessions. Every other
step is one of either (`OnlyManager`, `OnlyServer`). Where one of them
terminates the process both end. `answerOf` is history: the request each answer belongs
to. The requests here have no duplicates on the way: TCP loses and repeats
nothing while a connection is open, and a request is not repeated by the code.

### TcpClient

The client's thread goes round in `run`: the test of `m_Running`, a new base and
connection (`Connect`), libevent's loop, the clean-up, and the clearing of
`m_pBase`, each an action because `Stop` can come in between. `m_pBase` is
`"null"`, `"live"` or `"freed"`: between `event_base_free` and the assignment it
points at a base that is gone. `Stop` is three steps as well: `m_Running` is
cleared, `m_pBase` is read, and the base is asked to leave its loop, which
`event_base_dispatch` forgets if it has not begun. The callbacks of the
three subclasses are one, `OnConnected` and what follows it: log in, ping, take
the answers. `Close()`, on a refused login, closes the descriptor without telling
libevent, so that only the heartbeat ends such a connection.

`m_TimeoutTimes` is counted up to `MaxTimes` = 3, as the code only compares it
with 2, and keeps its value over a new connection as in the code. Messages are
the numbers of their puts. `Send` copies one to the output buffer of the
connection (`output`), libevent writes it from there (`Flush`, to `written`); a
failing `Send` loses its message, and the clean-up what is still in the buffer
(`lost`). What `PutMessage` turns away is no message of the client, and counted in
`refused`. `granted` and `missed` are history, for the properties only. Left out:
the framing, which is the loop of `Framing`, and what follows a refused login in
the same read.

## 3. The runs

Constants of a `.cfg` are values only; no definition is replaced.

| run | what it asks | bounds and why they suffice | states |
|---|---|---|---|
| `event_buffer` | lost wake-ups, bound, refinement of `EventQueue` (FIFO, each item once, waiting threads get theirs) | 3 consumers (one notified, one timed out, one asleep at once), capacity 1 (full and over-full reached), 4 puts | 2 035 |
| `sia_manager` | refinement of `SessionPool`, and the safety of call ids, threads and objects up to the end of `Stop` | 3 requests and 2 sessions: limit reached, refused, freed and reused; six shapes of request; the timer's loop dispatched or not when `Stop` comes | 3 046 465 |
| `sia_manager_drain` | the comment on the loop of `run` | violated | |
| `acd_server` | the promise to the soft switch, answers and `Stop` of the whole | 2 requests of three shapes, 2 sessions, 1 connection: one session answers while another leaves, is cleared or waits for ever; each of the two loops dispatched or not | 200 107 |
| `gateway` | counting and lookups with restarts and failing commands | 2 sessions and `main()`; 2 requests of four shapes (one more and one less call, a lookup with one entry, one with no caller and then two entries), so that two lookups, two updates, or one of each meet each other and `main()`; 1 restart, 1 failure, 2 gateways of which one is full | 4 548 479 |
| `gateway_lost_update` | the comment on `update_current_sessions_by_route_id` | violated | |
| `gateway_wrong_caller` | the comment on `get_route_by_caller` | violated | |
| `gateway_startup` | the comment on `currentsessions` | violated | |
| `tcp_server` | framing, answers, timers, `Stop` | 2 connections (the first closed while the second is open), 3 requests; 2 frames each of 2 or 3 bytes with a header of 2: cuts inside a header, inside a content, between frames, and two frames in a read | 782 835 |
| `tcp_server_dangling` | the log text of `onClosed` | violated | |
| `tcp_client` | login, heartbeat, queue, reconnection, `Stop` | 2 addresses (the redundant one), 2 threads that put with capacity 1 (the bound is passed by one), 3 calls of `PutMessage`, 2 starts | 177 671 |
| `timer` | refinement of `TimerService`, cleared for good, fires, damage only in the sweep, `Stop` | 2 sessions, 3 timers: one session with two timers, one waiting, one in hand, one in the map when `Stop` comes | 88 894 |

`CHECK_DEADLOCK FALSE` stands only in the runs of `GatewayManager`: there the
number of requests is bounded, and a server without a request does nothing.

### Bounds

`NumItems` (calls of `Put`), `NumMsgs` (requests that arrive), `NumRequests`,
`NumFailures`, `NumCrashes`, `NumClients`, `NumFrames`, `NumTimers`, `NumPuts`, `NumStarts` bound what the environment
does; each is a guard of the action it bounds. `NumMsgs` also bounds the session ids, as each request
opens one session at most.

### Fairness

* `EventBuffer`: a thread that can take the lock does, for each consumer; no
  fairness for `Put`, timeouts and spurious wake-ups.
* `SiaManager`, `AcdServer`: the manager thread, each session's thread, the timer's,
  the TCP server's and `main()` inside `Stop` run (the operating system schedules
  them). A handler is one step of a session's thread, so this supposes that its
  Redis commands return: hiredis blocks without a time limit, and a Redis that
  accepts a connection and never answers would hold the session, and `Stop` with
  it, for ever; a message need not arrive,
  the hour of `Get` need not pass, `Stop` need not be called.
* `TcpServer`, `TcpReading`: the loop's thread starts and runs, a callback comes to
  its end, `main()` waits in `Stop`. `OnWriteble` is a persistent 50 ms timer in
  libevent's heap of timeouts, which serves what is due in its order between any
  two rounds of other events: strong fairness where other callbacks can be in
  the way (`TcpReading`, `AcdServer`). Peers and sessions are free, and what has
  arrived at a socket need not be read soon.
* `Timer`: its thread runs; an event in libevent's heap comes, however many other
  events there are (strong fairness for each timer); `main()` goes on in `Stop`.
  Setting, clearing and calling `Stop` are free.
* `TcpClient`: the client's thread runs, its timers fire, and whoever called
  `Stop` goes on in it; the peer, the messages, `Start` and `Stop` are free.
* `GatewayManager` has no liveness property and no fairness: without Redis or
  MySQL a handler may stay where it is.

`WholeStops` supposes that the timer's and the server's loops have been
dispatched when `Stop` begins, or, for the server's, have ended; a `Stop` that comes
earlier may be missed by either and wait for ever, which is in the model. Its
first part allows the death of the process in the race of `clear()` with a session
that leaves; its second part excludes it when no session is leaving, and leaves
only the entry of a closed connection in `m_Connects` to die of.
`StopReturns` of `Timer` and `TcpClient` name the missed request as their own
outcome in the same way.

### What the violated properties show

* `QueueDrained`: a message that names the session in its `invokeID` and is
  dispatched while the session handles its first message is dropped.
  `IsClose()` is true after every message, so a session handles exactly one.
* `NoUpdateLost`: two `acdRouteUsed` at once count one call.
* `RouteOfCaller`: a request with an empty caller, or one overtaken by another
  thread's lookup, is answered with the other caller's gateway; an answer may also
  mix the entries of both.
* `StartupCountsNothing`: each start of the process counts a call on gateway 1.
* `ConnectsAreLive`: a closed connection stays in `m_Connects`; every later
  answer is sent through a pointer to freed memory.

Seen while modelling and not a run of its own: `CEventBuffer` admits one item
more than its maximum (`CapacityBound` states the bound that holds);
`acdRoute` answers with the first gateway of the join whether or not it has
capacity left; the callback of the login timer tests the wrong way round.

## 4. The proofs

Everything below is proved for every value of the constants that satisfies the
`ASSUME`s of the modules: any finite set of consumers, any number of
items, requests, sessions, connections, frames, timers and restarts, any length
of header and contents, any session limit, any tables. The assumptions say what the constants are, never how the program
behaves; TLC evaluates them on each run.

| module | theorems | argument |
|---|---|---|
| `EventBufferProofs` | `TypeCorrect`, `WakeupsSuffice`, `CapacityBounded`, `ExactlyOnceInOrder`, `StepsOfQueue` | `NoLostWakeup` is inductive with the types: a `Put` adds one item and, if anybody sleeps, one notified thread; a thread that takes an item away may have been notified for another one, so the lemma `NotifiedCount` counts both. `StepsOfQueue` maps each step to a step of `EventQueue` or to a stutter. |
| `SiaManagerProofs` | `TypeCorrect`, `LimitKept`, `HandlesOpener`, `NobodyJoinsItself`, `LiveSessionsStay`, `FreedAfterDetach`, `SilentAfterStop`, `DestructorAssertsHold`, `CallMapCorrect`, `NothingStrays`, `RequestHandledOnce`, `NobodyIdle`, `StopIsHeard`, `AnsweredOnce`, `PoolImplemented` | The types need `QueueOrder`: that the session counter stays in range rests on the order of the requests that still wait. `LifeInv` ties each session's thread to the map, to `attached` and to how far `Stop` has come; five theorems follow from it. `OpenerInv` says that the request a session was created for is at the head of its queue, or still in the manager's hand, until the session takes it; with it go the entries of the map of call ids. `NothingStrays` adds what the manager has looked up and not yet dispatched: the session may leave and its call id be erased meanwhile. `OnceInv` orders the requests: what the sessions hold is older than what the manager holds, and that older than what waits in its queue; the lemma `OnceMoved` covers all steps that only move what a session holds. `NoIdleSession` and `StopHeard` follow the request and the stop message from queue to queue. `PoolImplemented` is the refinement, one lemma per thread (`PoolOfThread`, `PoolOfManager`, `PoolOfStop`): that a session is opened for a request later than all before it is `OpenedFirst`, which rests on `QueueOrder`; that it works on the request it was opened for is `OpenerInv`; that it is still in the pool then is `ThreadInv`. |
| `GatewayManagerProofs` | `TypeCorrect`, `CountsBounded`, `SerialCountsExact`, `RouteUndisturbed`, `LegsAnswered`, `TablesKept` | `CountInv` extends the bound to the arrays that are on their way back to Redis, which a thread may store at any later time. `SerialInv` says what such an array is when no other update came in between. `RouteInv` follows one lookup from step to step: what it has read, what the members hold as long as nobody touched them, and how far its three loops have come (`NumbersInv`, `GatewaysInv`, `EditingInv`: the first numbers' gateways are found, the first entries are in `json`, the first entries have changed the callee); `LoopInv` says that nothing of a loop is left outside it. It needs `ConfigInv`, by which the tables are stored only before the configuration is set, that is, before anybody looks up; `TablesKept` is that as a property of the steps. `LegsInv` says which leg a thread is at, whatever others make of the members: a loop ends at the length its thread took at its start. |
| `TcpServerProofs` | `TypeCorrect`, `TimersFreed`, `FirstServed`, `AnswersWithinReach`, `StopReached` | `TimersOfLiveClients` is inductive by itself. `FirstConnectionServed` needs `ServedInv`: answers wait for the first connection only, none before it was accepted, and it stays in `m_Connects` while it is open. `AppendNext` is the lemma on sequences it uses. `ServedInv` also gives `AnswersReachable`. `StopReachesLoop` follows the request to leave the loop until the loop sees it. |
| `TcpReadingProofs` | `StreamKept`, `StepsOfServer`, `ReadInOrder`, `ReadEmpties` | `StreamInv`: the frames lie one behind the other (`Ordered`), and the buffer begins with the first frame that was not handed on (`Aligned`), so that what is read as a header is one. `StepsOfServer` shows that every behaviour is one of `TcpServer` and one of `Framing`; the theorems about each hold of both together. |
| `TimerProofs` | `TypeCorrect`, `ToldOnce`, `ClearHolds`, `SafeOutsideStop`, `DestructorAssert`, `NothingForgotten`, `StopGetsThrough`, `ServiceImplemented` | `IInv`, with a lemma for what each step does to each of its conjuncts: an element is in one hand at a time, from the session to the queue, the thread, the heap and the map; once it is out of the callers' hands (`Out`) it does not come back, so what is known of it stays. `Kept` adds where it can be until `Stop` is called. `ServiceImplemented` maps each step to one of `TimerService`: what the callers no longer hold is set there (`OutIsPut`), and the conjuncts of `IInv` yield the guards of `Tell`, `Cancel` and `Free`. |
| `AcdServerProofs` | `StepsOfBoth`, `AnswersFind`, `PromiseKept`, `RepliesGiven`, `EveryWaitOwed` | `StepsOfBoth` carries everything proved of `SiaManager` and `TcpServer` over to the whole. `AnswerInv` says that the answers belong to different requests, each in the hand of a session that has handled it already, and that the TCP server is stopped after the sessions; `OnceInv` then excludes a second answer to the same request. `PromiseKept` is the refinement: `FirstConnectionServed` says that what is written to the soft switch is a beginning of the answers, so `OnWriteble` shows it all of them. `EveryWaitOwed` puts together what is proved of either part: neither alone says of all four waits of `Stop` that what is waited for has been asked for, or has missed the request before its loop was dispatched. |
| `TcpClientProofs` | `TypeCorrect`, `QueueBounded`, `LoginOfThisConnection`, `OnceInOrder`, `AlwaysFollowed`, `StopGetsThrough` | `SizeInv` counts the threads between the test and the `Put` with the messages; the types need it too, as it keeps `puts` in range. `LoginInv` says that the flag is down outside the loop. `SentOnceInOrder` is inductive with the types; the lemmas `TwoParts`, `ThreeParts` and `SentInParts` take the sequence of what is written, in the buffer and waiting apart, so that each step has to do with one part. `LoopInv` ties each state of the connection to the timer that ends it, `StopInv` each step of `Stop` to what the thread can still see. |

Each invariant above that is not in a `.cfg` was first checked by TLC on the
instance of the runs, then proved. Proved for every value of the constants, and
in no run:

* of `EventBuffer` and `SiaManager`: `FifoExactlyOnce`; `HandlesItsOpener`, which
  `ImplementsPool` implies, `SessionLimit`, `NoAnswerAfterStop`,
  `DestructorAsserts`, `NoIdleSession`, `StopHeard`, `OneReply`;
* of `GatewayManager`: `EveryLegAnswered`, `TablesStable`;
* of `TcpServer`: `AnswersReachable`, `StopReachesLoop`;
* of `AcdServer`: `RepliesAreAnswers`, `NobodyWaitsInVain`;
* of `Timer`: `FiredOnce`, which `ImplementsService` implies, `NoneForgotten`,
  `StopReachesLoop`, `BaseClosed`;
* of `TcpClient`: `NeverAbandoned`, `StopReachesLoop`.

### Only model-checked

* Liveness: `ThreadsEnd`, `WholeStops`, `AnswersWritten`, `TimersFire`,
  `StopReturns` (of timer and client), `Reconnects`, `AddressesRotate`,
  `SilentPeerGivenUp` and the
  fairness part of `ImplementsQueue`. Liveness under fairness and `ENABLED`
  are out of the prover's reach. The safety half of most of them is proved: that
  whoever waits has, in some queue, heap, timer or flag, what will end the wait
  (`NobodyWaitsInVain` for `ThreadsEnd` and `WholeStops`, `AnswersReachable` for
  `AnswersWritten`, `NoneForgotten` for `TimersFire`, `NeverAbandoned` for
  `Reconnects`, `StopReachesLoop` for `StopReturns`). What stays with TLC is that
  fair threads then get there and no cycle keeps them from it, and all of
  `AddressesRotate`.
* The violated properties, which are counterexamples.

## 5. What is not modelled, and why

* Formatting, logging, the JSON text, the character sets: the properties do not
  depend on them, except that a blank in a value makes Redis reject a `SET`
  (`SaveGatewayRejected`).
* The edits of the callee number (`get_modified_callee_by_callee`) are reduced
  to which gateways make them: sequential work on text. A rule that is longer
  than the number throws, as any handler may (`HandlerThrows`).
* Bytes that are no frame: peers are taken to send headers that hold the length
  of their frame. A header below 4 makes `std::string(begin + 4, end)` throw on the
  loop's thread (`TcpServerModule.cpp:345-347`), which ends the process.
* The second `close` of a descriptor after a heartbeat timeout: descriptors of
  the other threads are in no model.
* `HttpClientModule`: compiled, but every place that creates one is commented
  out. The same holds of `TcpClientModule` and its subclasses, which are
  modelled all the same, but for the commands by which the monitor's peer ends
  sessions.
* The readers of cfg, xml and json files, `MySql.cpp`: sequential; the query
  enters `GatewayManager` as rows or null.
* `HttpServerModule` and the Prometheus exporter answer requests without state
  of their own.
* The console, the daemon start, signals, the Windows service: input and output.
* Vendored code under `src/libs` and `src/chilliacd/tinyxml2`.
* An operating system that refuses a thread or memory; requests whose `param` is
  not an object, which end the process.
* The fields of one entry of a lookup that another thread writes at the same time
  (section 2, `GatewayManager`).

## 6. Plan

Done, in this order: the event buffer (everything else communicates through
it), the manager with its sessions and `Stop`, the gateway manager with Redis
and restarts, the TCP server, the reconnecting client, the timer, the framing
of the streams with the server, the composition of manager and TCP server with
the promise both keep; each first checked, then proved about; then the abstract
specifications of the session pool and of the timer service with the proofs that
`SiaManager` and `Timer` implement them, and what is proved about waiting.

What is left, and why it came last:

1. `HttpClientModule` (pool of threads, retry): nothing creates one.
2. `cfgFile.cpp`, the choice of a reader in `ACDReadConfig.cpp`, `MySql.cpp`:
   sequential, and the code that writes a cfg file has no callers.
3. The arithmetic of `get_modified_callee_by_callee` on digits.
4. `GatewayManager` in the composition: a session's handler is one step in
   `AcdServer` and many in `GatewayManager`. Nothing a handler does there changes
   what the manager or the TCP server do, but for the exception that ends it,
   which is in both.
