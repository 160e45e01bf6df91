# A TLA+ verification project for smps

smps is a short-message proxy written in Go. It keeps one SMPP connection to a
short-message centre (SMSC) as a client, runs an SMPP server (the "SMMC server")
that external network elements bind to, hands every message the SMSC delivers to
all of them, and is meant to decide from their answers whether the message is let
through or intercepted. Around this core are account management, a web API,
tracing of chosen numbers, a database and a two-node high-availability layer.

This directory models the concurrent and stateful parts of that program in TLA+,
model-checks them with TLC and proves theorems about them with TLAPS.

## Inventory

| part (source) | state | operations | hard behaviour |
|---|---|---|---|
| response tracker (`internal/processor/tracker.go`, `rules.go`, `decision.go`) | decisions, expected sources, `done`, final decision, a channel of capacity 1 | `AddDecision`, `WaitForCompletion`, `complete` | decisions race with timers and with each other; one channel element for many waiters |
| response processor (`processor.go`, `processor_handler.go`) | map of trackers under an RWMutex | `TrackMessage`, `ProcessResponse`, `GetDecision`, cleanup, `Handle` | trackers used after the map lock is released; cleanup by age; reused ids |
| dispatcher (`internal/dispatcher`) | bounded queue, handlers, workers, counters, `isRunning` | `Start`, `Stop`, `Dispatch`, `DispatchSync`, worker loop | stop against busy workers, handlers outliving their timeout, reordering |
| SMMC server (`internal/server`) | sessions, their status, connection count | accept, bind, session loop, heartbeats, broadcast, `Stop`, `CloseSession` | sessions closed from four places; shutdown against a bind in progress |
| SMSC client (`internal/client/smsc_client.go`) | connection, status, sequence number, heartbeat misses | `Start`, read loop, heartbeat loop, reconnect, `Stop` | reconnection, acknowledged but lost messages |
| connection pool (`internal/client/conn_pool.go`) | idle list, active count | `Get`, `Put`, `Close`, cleanup | accounting across errors and close |
| accounts (`internal/auth`, `api/handlers/smmc_config.go`) | two tables, and a copy of them in memory | load, create, update, delete, register, save, authenticate | two copies that must agree, changed in two steps by concurrent requests |
| main program (`cmd/smps/main.go`), migrations (`internal/database`) | schema, record of migrations; a context and a queue that the parts share | `Migrate`, starting the parts, shutdown | a process that ends between any two statements; parts that notice the end one by one, and stops that do not wait or wait for ever |
| tracing (`internal/tracer`, `api/handlers/trace.go`) | switch and traced numbers, in memory and in tables; recent records | the check of a message, add, remove, settings, load | several reads of settings that change meanwhile; two copies |
| logger (`pkg/logger`) | the global instance, its writer and file, two locks | `Init`, `InitWithConfig`, `GetLogger`, `Close`, lines | the writer is replaced under one lock and used under the other |
| protocol codec (`internal/protocol`) | none | framing, parsing | messages cut out of a stream whose reads time out |
| high availability (`internal/ha`) | role, state, term, peers, virtual IP | `Start`, heartbeats, election, switchover, state manager | locks held across calls |
| limiter, metrics, pools, profiler (`internal/performance`) | counters | wrappers | little of its own |
| web API, other commands, simulators | none of their own | routing | data formats |

`cmd/smps/main.go` wires the core: the SMSC client hands each DELIVER_SM, and nothing else, to
`Dispatcher.Dispatch`, and answers it SM_OK whatever that says; the dispatcher's workers call
the SMMC server, which sends the message to every session, and the response processor, whose
`HandleMessage` takes it for a response. A DELIVER_SM that a session sends is answered by the
server itself and goes no further: the message handler that `main` gives the server, which would
dispatch again, is only reached for other messages from the dispatcher, and there are none.
`processor_handler.go`, which would track each message and answer the centre with the decision,
is registered by no program: what is said here of tracked messages is said of the component.

## What makes each part correct

- **Tracker, rules:** an interception wins over every allowing answer and over a
  timeout that comes later; a timeout decides only while somebody is silent; there is
  one decision, everybody who waits gets it, and everybody who waits gets one.
- **Processor:** what the SMSC is told, what `ProcessResponse` reports and what
  `GetDecision` returns is one verdict per message, also when the tracker has left the
  map or the message id was reused; cleanup removes nothing undecided and everything
  else in the end.
- **Dispatcher:** an accepted message is in one place, across stops and restarts, and is
  dealt with even if handlers hang; no late handler panics; `Stop` leaves nobody.
- **SMMC server:** never more connections than allowed; a session is in the map only as
  long as somebody serves it; a closed session stays closed; a message reaches every
  session that could take it; dead peers are dropped; `Stop` returns and leaves nothing.
- **SMSC client:** no socket is leaked; "connected" means connected; it comes back after
  any failure, or ends when stopped; a missing connection is an error, not a panic.
- **Framing:** what is handed on is what was sent, each message once and in order.
- **Connection pool:** the count is what is lent or idle; the limit holds.
- **Accounts:** memory agrees with the table once the requests about an account have
  ended; nobody meets a nil account.
- **Main program, migrations:** a recorded migration has been made; the next process can
  finish a half-made schema; a shutdown ends, and loses no more of the messages that were
  answered SM_OK than are waiting when it begins to, and one.
- **Tracer:** a verdict is right for some instant of the check; memory and table hold the
  same numbers once the requests have ended.
- **Logger:** no line goes to a file that a reconfiguration closed; every call returns.
- **High availability:** a node that starts comes back from the call.

## Modules

| module | models | proofs |
|---|---|---|
| `DecisionRules` | the pure part of `decision.go` and `rules.go` | (lemmas in `ResponseTrackerProofs`) |
| `DecisionOnce` | abstract: a decision taken once and given to every reader | |
| `TrackedMessage` | abstract: a tracker as those see it who keep and ask it | |
| `HandOut` | abstract: what a dispatcher promises of the messages it accepts | |
| `Membership` | abstract: what a server of sessions promises of its peers | |
| `Link` | abstract: what a client that keeps one connection promises | |
| `ResponseTracker` | `tracker.go`, one tracker; implements `DecisionOnce` and `TrackedMessage` | `ResponseTrackerProofs` |
| `ResponseProcessor` | `processor.go`, `processor_handler.go`: the map of trackers; implements `DecisionOnce` for each message | `ResponseProcessorProofs` |
| `Dispatcher` | `dispatcher.go`, `queue.go`; implements `HandOut` | `DispatcherProofs` |
| `SMMCServer` | `smmc_server.go`, `session_manager.go`, `session.go`; implements `Membership` | `SMMCServerProofs` |
| `SMSCClient` | `smsc_client.go`; implements `Link` | `SMSCClientProofs` |
| `Framing` | `readMessage` of server and client, and the lengths of `message.go`, `header.go` | `ConnectionProofs` |
| `ConnectionPool` | `conn_pool.go` | `ConnectionProofs` |
| `Accounts` | `authenticator.go`, `account.go`, `ip_whitelist.go`, `smmc_config.go` | `AccountsProofs` |
| `MainProgram` | the start of `main.go`, `migration.go`, `schema.go`, `connection.go` | `SupportProofs` |
| `Service` | the rest of `main.go`, and what its parts do to each other from their start to their stop | `SupportProofs` |
| `Tracer` | `internal/tracer`, `trace.go` | `SupportProofs` |
| `Logger` | `logger.go` | `SupportProofs` |
| `HANode` | the start of `internal/ha`, its heartbeats and monitor | `SupportProofs` |

Each `MC...` module extends the module of the same name with the small sets its `.cfg`
files use; `MCSupport` extends the seven from `Framing` to `Logger`. `MCHANode.cfg` needs no
module of its own. Definitions whose comment begins "The bug of", and those named after
another one with a suffix such as `...Regardless`, `...Alone` or `...Only`, are plausible
mistakes: putting one in the place of the definition that follows it makes the property
that `PROJECT.json` names with it fail. No specification uses them.

### DecisionRules, ResponseTracker, DecisionOnce, TrackedMessage

A decision is a record of source, action, timestamp and whether a timeout made it.
`ApplyDecisionRules` returns the *set* of decisions the Go function may return: it sorts
by time with an unstable sort, so among equally old ones any can come first. The
variables are the fields of the Go struct (`decisions`, `done`, `finalDecision`,
`completeChan`, and `responded` for the marks in `expectedSources`), the clock, and
where each goroutine is. `Create` reads the clock outside the mutex, so the
order of timestamps and of arrival may differ. Every critical section is one action. The
timer case of `WaitForCompletion` is two actions (`TimerFires`, `Expire`) because the
mutex is taken only after the select, and a decision may slip in between.

`DecisionOnce` says what those are promised who wait for a decision: it is taken once and
everybody is told the same. `TrackedMessage` says what is left of a tracker when decisions
are their actions and timestamps are forgotten: who has answered, which actions were asked
for, the final one, and whether the channel has its element.

### ResponseProcessor

A *generation* is one tracker object. The map says which generation an id stands for now;
`ProcessResponse` is three steps (`Lookup`, `Add`, `Report`), so a generation may be
cleaned up, or its id reused, between them. The tracker is coarser here: that of
`TrackedMessage`, which `ResponseTracker` implements (`TrackedRefinement`) and whose steps
are the only ones that the processor takes with a tracker (`TrackedMessagesUsed`). To its
callers the processor is again a `DecisionOnce` for every message
(`ImplementsDecisionOnce`): the answer to the SMSC, the result of `ProcessResponse` and that
of `GetDecision` are its readers. Time is counted in
message timeouts: `Tick` ages trackers and waits until due timers are served,
so a goroutine may be late but not by a whole timeout. Because every source is named
"unknown" in the code (`SourceID`), the run gives a system that very name to one
session, so that the rest of the module does something; the code's behaviour with
any other name is the finding `processor_unknown_source`. `Handle` is that of the
`ProcessorHandler`; `HandleMessage` is the one that `main` registers, a call of
`ProcessResponse`. As nothing else tracks messages, the properties of answers, and that
finding, are about the component and who will use it.

### Dispatcher

`caller` follows a call of `Dispatch` (the check of `isRunning`, then the send on the
queue), `worker` and `holds` a worker and its message, `run` the handler goroutines that
may outlive `DispatchSync`, `errChClosed` the closing of their channel. `d.mu` is
modelled as held only while `Stop` waits (`stopping`); all other sections under it
are one action each that needs it free.

`HandOut` is the promise without workers' loops, locks, timeouts and counters: accepted
messages wait in order, each comes into one pair of hands, and is let go of once handlers have
been called for it, once.

### SMMCServer

A connection and its session are one element of `Conns`. `pc` is where its handler is
(`handleConnection`, `handleSession` and their deferred functions, in order), `status`
and `registered` are what the other goroutines see. `closer` is the `CloseSession` call
that the web API, the heartbeat loop or `CloseAll` is in: load, close the connection,
mark and delete are separate steps. `idle` tells 0 (active), 1 (due for a heartbeat) and
2 (due for the cleaner). The far end may fall silent, stop taking data ("deaf") or
break. `HandleMessage` looks at the status of a session in one step and writes in another
(`writing`), as `SendMessage` does, so a session may be closed in between. `steady` is a
history variable: who has been able to receive since the current `HandleMessage` began.

In `Membership` a peer is outside, admitted, a member, has left, or is gone, in this order
and never back; the mapping takes an accepted connection up to `Register` for admitted, one
in the map for a member, and one that is not in it any more for one that has left. The
many ways to end a session are one step there.

### SMSCClient

`pc` is the goroutine that is first `Start` and then the read loop with its
reconnections. `conn` is `c.conn`, used by three goroutines without a lock: whoever checks
it and then uses it does so in two steps, and using `Nil` is a panic. `Alive`
connections are open here and not broken at the far end. `close` is find, shut, clear.

`Link` promises only what the code keeps: "connected" is said from the bind until the lost
connection has been closed, no attempt is made while a socket is open, and nothing is
promised of sockets once `Stop` was called, because `Stop` closes what it finds in `c.conn`
while the read loop may be opening another.

### Framing

The stream is a set of messages, each with the position where it begins. `taken` counts
the bytes the reader has consumed, `arrived` those that are there to read. A deadline that
passes (`DeadlinePasses`) has consumed what had arrived: the server goes on and takes the
next bytes for a header, which may announce any length; the client gives the connection
up, because it takes every error for a break. `torn` remembers that the server went on
inside a message.

### ConnectionPool

Every operation holds `p.mu` from its first line to its last and is one action. The idle
list is in order of age, so the expired connections are a prefix of it. `owed` is history:
what `Close` left out of the count when it set it to zero with connections lent.

### Accounts

`smmc` and `accountIPs` are the tables, `accounts` the map in memory. A statement and the
change of memory that follows it are two steps of a request; the load is one query of the
accounts, one of each account's addresses, and the replacement of the map. `unsettled` is
history: the system ids whose copies the code lets come apart, because two requests
or a request and a load overlapped, the load at start-up failed, or an update named a row
that does not exist. `accCallers` tells behaviours of the program, where the
web API writes, from those of a user of the package, who may call `SaveAccount`,
`DeleteAccount` and load again; the program does not.

### MainProgram

One process after another on the same database. `phase` is where `main` is; each statement
of the migrations is a step, and `ProcessEnds` may come between any two. `stuckOn` is
history: the statement on which a process gave up by itself.

### Service

One process, from the start of its parts. `stage` is where `main` is. The read loop of the
client (`reader`) and the workers go through the steps of their own modules that matter to the
others: the look at the context at the top of each loop, the message between read, `isRunning`,
the queue and the answer SM_OK, the worker that has a message and needs `d.mu`. Of the queue only
its length is kept, of the server the accept loop and the number of handlers. `Dispatch`
refuses where it does in the code: a message that cannot be parsed (`main.go:200`), a dispatcher
that is not running, a full queue. `cancelled` is the context that all the parts derive theirs from:
the tops of the loops read it. Of the stops, those of the server and of the dispatcher wait
(`ServerStopped`, `DispatcherStopped`), those of the processor and the client do not. `late`,
`inVain` and `queuedAtCancel` are history: what each goroutine has begun since the
cancellation, what was refused because the dispatcher had been stopped, and what was
waiting. A panic of the read loop on the connection that `Stop` takes away (`SMSCClient`) is an
end like any other here.

### Tracer

`at` is where a goroutine is in `shouldTraceMessage`, whose four reads of the settings are
four steps. `seen` and `changes` are history: whether the message was due at each instant
of its check, and how often the settings changed. A request changes memory, then the
table. `apart` is history: the numbers whose copies may differ.

### Logger

`loggerMu` and `logMu` are the two locks. `log` takes the second, reads the writer, and
writes: three steps. `InitWithConfig` opens the new file and closes the old one in
one step and installs the new writer in the next, all under the first lock only.

### HANode

Everything `Node.Start` does happens with `n.mu` held, which `nodeMu` says. Its last call is
`setState`, which needs `n.mu`. The goroutines it started wait for `n.mu` when they ask for
the node's role. What they would decide is left out: they never get that far.

## Runs

Passing runs (every action of the module fires in them):

| run | instance | shows |
|---|---|---|
| `tracker` | 2 responders, 2 waiters, 3 sources of which 2 expected | interception first, timeout last, all waiters agree and return, one channel element is enough; `DecisionOnce` and `TrackedMessage` are implemented |
| `processor` | 2 ids, room for 1 tracker, 2 generations, 1 response, 1 `GetDecision` | one verdict for everybody (`DecisionOnce` for each message); cleanup spares the undecided; all messages are answered; places are freed |
| `dispatcher` | 2 messages, queue of 1, 2 workers, 2 handlers | nothing lost or handled twice over stops and restarts, `HandOut` is implemented; no panic; messages are finished |
| `server_sessions` | 3 connections, room for 2, 1 delivery | the limit, nothing left after `Stop`; whoever could receive was written to, and nobody else: `Membership` is implemented |
| `server_liveness` | 1 connection, threshold 2 | deaf, broken and idle peers are dropped, each by its own means (`UnservedIsDropped`); `Stop` returns |
| `client` | 3 sockets, 2 retries | `Link` is implemented: no leak, "connected" is true, no attempt too many; it reconnects, `Stop` ends it |
| `support` | see Bounds | the pool's count and limit; where lines go and that log calls return; memory follows the accounts table and no nil account is met; what crashes leave of the migrations; what a shutdown loses and that it ends; verdicts and copies of the tracer; messages come as sent |

Each run that ends in a violation checks one thing the repository says of itself:

| run | what is said | what the code does |
|---|---|---|
| `tracker_first_received` | of the allowing decisions the first received is used (`rules.go:12`, `rules.go:44`, `README.md:197`) | the oldest timestamp is, which is taken before the lock: the one received later may win |
| `processor_unknown_source` | a decision is refused when the tracker may be done (`processor.go:160`) | every response comes from "unknown", which no message expects: all are refused and only timeouts decide |
| `dispatcher_stop_deadlock` | `Stop` waits for the workers to exit (`dispatcher.go:110`) | it waits with `d.mu` held, and a worker that has just dequeued needs `d.mu`: neither goes on |
| `client_nil_connection` | no connection is the error "not connected" (`smsc_client.go:188`) | checked by one goroutine, cleared by another, then used: a panic |
| `ha_start` | high availability is implemented (`README.md:20`) | `Node.Start` waits for the lock it holds; `main` waits for it and serves neither the web interface nor signals |

Differences that have no run of their own:

- a timeout of the client's read is said to be normal (`smsc_client.go:339`), but the error
  was wrapped and five quiet seconds drop a working connection (stated as
  `TimeoutKeepsConnection` in `SMSCClient`, which the code does not satisfy);
- regular heartbeats are said to keep the connection, but after three failures the
  goroutine ends and a reconnection does not start it again (`HeartbeatWhileConnected`,
  likewise);
- an unknown decision older than an allowing one becomes the final one (`rules.go:45`): the
  comment on line 44 speaks of allowing ones. `EarliestChosen` is what the code keeps;
- messages that wait in the dispatcher's queue at a shutdown have been answered SM_OK and are
  lost (`smsc_client.go:374`, `dispatcher.go:257`); `AtMostOneMore` bounds them;
- `GetDecision` with `wait` false waits out the timeout when the channel element is taken
  (`processor.go:188`);
- `HandleMessage` reports success when no session could be written to
  (`smmc_server.go:763`); an unanswered heartbeat is never counted as missed, only one that
  could not be sent (`smmc_server.go:219`);
- a process that ends between the `ALTER TABLE` of migration 2 and its record leaves a
  database on which no later one starts (`OnlyColumnSticks` says that it is the only such
  point);
- an account that was deleted or disabled by the web API is still admitted until a
  restart (`smmc_config.go:227`); the package's `LoadAccounts` asks for a table that
  no migration makes;
- after a read that timed out inside a message the server may hand on anything
  (`smmc_server.go:338`; `FramesAsSent` says that this is the only way);
- `Close` of the pool forgets what is lent, and the limit grows by as much when it comes back
  (`conn_pool.go:113`; no part of the program makes a pool);
- a signal that comes before the web server's goroutine has made its `http.Server` ends the
  shutdown with a panic (`api/server.go:132`);
- no protocol record reaches the database, so the page that queries it stays empty
  (`tracer.go:20`).

### Bounds, and why they are enough

- Two responders, two waiters: every race of the tracker is between two goroutines and
  the lock. The safety results are proved for any number.
- `MaxGens` 2 and `MaxTrackers` 1: a message in the map and one refused or reusing its id;
  a third would meet the same two states. `RetainFor` 2 and `AbandonAfter` 4 stand for
  the 5 and 10 timeouts of the code; only their order matters.
- `Capacity` 1, two messages, two workers: the queue is full and empty, both workers are
  busy, and one stops while the other dispatches.
- Three connections with `MaxConnections` 2: one is over the limit whenever the others live.
  The third only contends for a place (`Contends`, an action constraint): its bind is refused,
  and it has come and gone when a message is delivered to the other two. `MissThreshold` is 1
  where the count plays no part and 2 where heartbeats must be counted. `Faults` names the
  failures a run tries: silence concerns only liveness. `MaxDeliveries` 1: calls are
  independent. `MaxIdle` 2 is the whole range of `idle`.
- `Sockets` 3: the current one and two that a leak could leave. `MaxRetries` 2: a first
  attempt, a last one, and giving up.
- Symmetry, of the two that are served, is used in `server_sessions` only, which checks no
  liveness.
- `support`: the seven parts share no state, so `subject` picks the one that moves and the
  others rest; nothing that needs two of them is asked. Pool: limit 2, four connections, one
  lost, so that what `Close` forgot can exceed the limit. Logger: two goroutines, two files:
  one logs or waits while the other closes the old file and installs the new. Accounts: two
  requests, two ids, two rows, two writes, one crash: every overlap of two requests or of a
  request and a load. `MainMaxFaults` 3: three processes fail on the way and a fourth meets
  what they left; two default keys make the loop stop half-way. Service: two workers, a queue
  of one, which is empty and full, one connection; the bound of `AtMostOneMore` is reached, by
  a message that is queued without workers and by one that is refused. Tracer: two numbers,
  one message from one to the other, one check at a time, one recent record; while a message
  is checked, requests come one at a time (`QuietRequests`), which is what `VerdictWasTrue` is
  about: more changes than one are excused by it. Framing: a header of 2 bytes and bodies of 0
  and 1, with 2 as the abnormal length, so that a stream can be cut in every place.
- Where `accCallers` or `trCallers` is "library" the run has no crash of the accounts and no
  message for the tracer. The proofs about the accounts do without these limits.

### Fairness

Weak fairness means a goroutine that can run does, a started timer fires and a ticker ticks:
the Go scheduler and the deadlines on every read and write justify it. `SF(Dequeue)` in
`Dispatcher`: the worker polls, so it is ready to receive again and again but not
continuously, and a select with a ready case does not pass it over for ever. Nothing is
assumed of peers, handlers, the network, whoever calls `Stop`, `Start` or the API, or how idle
a session gets. `Reconnects` assumes in its own statement that the SMSC is reachable from some
point on. In `Service` `main` goes on once it has its signal, a worker and the accept loop go
on where they do not wait, and handlers end once the context is done, which `StopTerminates`
of the server shows; nothing is assumed of the signal, and nothing of the read loop. In
`Logger` and `HANode` goroutines compete for a mutex; Go hands a mutex over to a waiter that
has starved for a millisecond, so taking it is strongly fair. In `HANode` nothing is assumed
of peers but that a dial ends, which has a deadline. Deadlock is not checked: all these
systems may stop for good.

## Proofs

TLAPS checks these for every value of the constants that the named assumptions allow.
`PROJECT.json` lists the main theorems; here is what each argument turns on.

### Refinements

Each is two facts: initial states map to initial states, and under the inductive invariant every
step maps to a step of the abstract specification or leaves its variables alone. There is
one lemma for every group of actions, so a reader can see which step of the code is which step
of the promise.

| theorem | what maps to what | why the invariant is needed |
|---|---|---|
| `Refinement` (tracker, `DecisionOnce`) | `complete` is `Decide`, a return is `Read`; a timer that decides is both | a waiter that is about to return has the final decision, whichever of channel, `done` and timer woke it |
| `TrackedRefinement` (tracker, `TrackedMessage`) | `AddDecision` is a response, `Expire` a timer; decisions map to their actions | the final action is one the rules leave possible, for which `RulesSound` must hold of the decisions with their timestamps |
| `VerdictRefinement` (processor, `DecisionOnce` for each message) | adding the deciding response or a due timer decides; answering, reporting and returning read | the generation that a goroutine looked up is still its own, also when it has left the map or the id was reused |
| `HandOutRefinement` (dispatcher, `HandOut`) | `Enqueue`, `Dequeue`, `CopyAndSpawn`; `Finish` and `TimeOut` both let go | a message is in one place (`QueuedOnce`, `HeldOnce`), so no worker calls handlers for it twice |
| `MembershipRefinement` (server, `Membership`) | accept, `Register`, and every deferred function that takes a session out; a write | the counter is the number of live handlers; a session in the map has a handler that serves it or leaves; `Stop` has waited for all |
| `LinkRefinement` (client, `Link`) | the phases of `Start`, the read loop and `reconnect` | until `Stop` the read loop alone opens and closes sockets |

### What each module's proofs rest on

- **`ResponseTrackerProofs`**, from `ExpectedAssumption` and the assumptions of
  `DecisionRules`. `RulesSound` says what `ApplyDecisionRules` returns. The
  properties are not inductive alone: an undecided tracker must have no final decision,
  an empty channel and a source still silent, and only the timer makes timeout
  decisions.
- **`DispatcherProofs`**, from `DispatcherAssumption`. `Conservation` counts; what is
  inductive is where a message may be: once in the queue or with one worker, accepted
  and unfinished in both cases (`QueuedOnce`, `HeldOnce`, `PendingIsSomewhere`).
- **`SMMCServerProofs`**, from `ServerAssumption`. `Sessions` ties what others see of a
  session to where its handler is; `Counting` says the counter is the number of live
  handlers and that only the accept loop raises it between check and accept; `Delivery`
  says a steady session is still to be visited or was written to. `ClosedForGood`, a theorem
  only, follows because only `Register` connects a session, when nobody can have closed it.
- **`SMSCClientProofs`**, from `ClientAssumption`. `SocketsHeld`: until `Stop` is called
  the read loop alone opens and closes sockets and holds none when it is about to open
  one; the heartbeat goroutine never changes the set. So while it works, it says that it is
  connected and is (`WorkingMeansConnected`).
- **`ResponseProcessorProofs`**, from `LimitAssumption`. `Waiting`: while a goroutine waits
  its tracker is younger than two timeouts, once it has answered the tracker is done and the
  answer is its verdict; so cleanup, which takes the undecided only when they are far older,
  never finds one. `Retained`: a generation is in the map or older than `RetainFor`, which is
  why a looked-up tracker is the right one or the response is that late. `Grows` is the one
  fact about all steps that carries what callers have learnt over the steps of others: a
  verdict is final.
- **`ConnectionProofs`**, from `FramingAssumption` and `PoolAssumption`. Framing: `Chained` says
  that the messages sent lie one after the other, `InStep` that a reader that was never torn
  waits for a header where the message after those handed on begins, or for the body of that
  message. Pool: no connection is idle twice or idle and lent (`PoolExclusiveAlways`), on which
  the count and the limit rest.
- **`SupportProofs`**, from `MainAssumption`, `ServiceAssumption`, `TracerAssumption` and
  `LogAssumption`. `SchemaInv` says for each phase of the migrations which tables, rows and
  keys there must be by then (what an earlier process has left can only be more). Service:
  `LateIsLeaving` says that who has begun something since the cancellation is past the point
  from which he could begin more, so that his way leads over the top of his loop. Tracer:
  `Half` says what a request about a number has done so far, `Checked` what the reads of a
  check are worth, now or at an instant it has seen; one change touches the switch or one
  number, so it spoils at most one read. Logger: a reconfiguration holds `loggerMu` while the
  instance has the file that was closed, and so only lines it has overtaken meet it. `HANode`
  needs no assumption: `HAHeld` says that `n.mu` is held from the first step of `Node.Start`,
  and `setState`, which needs it, never happens.
- **`AccountsProofs`**, from `AccAssumption`. `FollowInv` says of each settled id: one
  request at most is about to change it in memory, and to what its row says; without one,
  memory says what its active row says; a load under way has read the same and nobody
  interferes. `ApiInv` is why the second look-up succeeds: a load runs only while
  nothing is served, no request of the program takes an account out of memory, and each
  registers one with a password.

### The violations, for all constants

A counterexample shows one bad behaviour of one instance. Theorems say how far it reaches:

- `NobodyIsHeard`: as long as no network element is called "unknown", no answer of any of them
  is ever added to a message, and no message is intercepted (run `processor_unknown_source`).
- `StopDeadlockIsForEver`: once `Stop` waits and a worker has a message and waits for `d.mu`,
  no step of the program, a timeout included, frees either (`dispatcher_stop_deadlock`).
  `HungForEver`: nor does any other part of the process, which then never ends by itself.
- `ReaderSafeUntilStop` bounds the panic of `client_nil_connection`: until `Stop` the read
  loop and the bind never use a nil connection, so it is the heartbeat goroutine's.
  `NoHeartbeatAfterItsEnd`: once that goroutine has ended, no reconnection starts it again.
- `HAStartNeverDone`, `HANodeLockedForEver`: for any number of peers `Node.Start` does not get
  past `setState`, and from there `n.mu` is held for ever (`ha_start`).
- `LockedOutForEver`: who calls `GetLogger` before there is a logger keeps `loggerMu` for ever;
  `InitialisedNeverLocksOut`: `main`, which initialises the logger first, is spared this.

### What is only model-checked

Every safety property and every refinement that a passing run checks is proved. Liveness is
not: the provers have no fairness and no `ENABLED`. So `WaitersReturn`, `MessagesAnswered`,
`CapacityReturns`, `AcceptedIsFinished`, `UnservedIsDropped`, `StopTerminates` of the server,
`Reconnects`, `StopEnds`, `ShutdownEnds` and `LogCallsReturn` are shown on the instances
above. For four of them the safety that they rest on is proved, and fairness is all that is
missing:

- `AcceptedIsFinished`: `NoWorkerIsLost`. While the dispatcher runs and no context is done, no
  worker has ended, whatever handlers do.
- `StopTerminates`: `StopBoundsHandlers`. After the cancellation each handler only comes
  nearer to its end, in seven moves at most, and none is added once the listener is closed.
- `StopEnds`: `StopBoundsReader`. After `Stop` the read loop, wherever it is between two
  attempts to connect, ends within `5 * MaxRetries + 9` moves.
- `LogCallsReturn`: `LockHoldersGoOn`. Whoever holds a lock of the logger waits for no other,
  so two goroutines never wait for each other.

The violations are found by TLC alone.

## Not modelled

- Message contents and optional parameters, sequence numbers, statistics other than those
  named, the text of log lines and of SQL: data that no property tells apart.
- Half a message that a timed-out write leaves (`smmc_server.go:429`).
- Code nobody calls (`Process`, `selectResult`, `BroadcastMessage`, the broadcast handler
  outside a test command), and the storage of protocol records, which is never written.
- Elections, switch-over, failover and the stopping of a node: no behaviour of the program
  reaches them, because `Node.Start` never returns (run `ha_start`). Properties of them would
  be about a program that does not exist yet. (Two things are modelled that no program uses either,
  because they are whole and other code is meant to use them: the `ProcessorHandler`, without
  which the tracker map stays empty, and the connection pool.)
- Configuration (its values are the CONSTANTS), web pages and logins, the backup, which runs
  another program, performance helpers, simulators and test commands.

`PROJECT.json` lists every part with its status, and every hazard with the properties that
watch it or the reason why none does.

## What is left

The parts are modelled one by one, and `Service` has what they do to each other at start and
stop. For the rest, what they tell each other is in each module's inputs, and the abstract
specifications say what one part may rely on in another: the processor's trackers are
`TrackedMessage`s, and a composition of dispatcher, processor and server would be one of `HandOut`,
`DecisionOnce` and `Membership`. It would say more than they do only when some document says
what an answer to a delivery means. The remaining liveness properties need their safety cores
proved (a message that is not answered has a timer to come, a dead session has somebody
who will close it). If `Node.Start` is mended, elections and switch-over come next, with "at
most one active node" as the property.
