------------------------------- MODULE Service -------------------------------
(***************************************************************************)
(* One smps process from the start of its parts to its end                  *)
(* (cmd/smps/main.go from line 248): main, which starts and stops them, and *)
(* the goroutines that it shares a context and a queue with: the read loop  *)
(* of the SMSC client, the workers of the dispatcher, the accept loop and   *)
(* the connection handlers of the SMMC server, and the starter of the web   *)
(* server.  What each part does by itself is in its own module; here is     *)
(* what they do to each other.  Only the read loop calls Dispatch: it hands *)
(* on nothing but DELIVER_SM, and for these the server's HandleMessage does *)
(* not use the message handler that main gives it.                          *)
(*                                                                         *)
(* High availability is off, as in the configuration that is shipped; what  *)
(* starting it does is the module HANode.                                   *)
(***************************************************************************)
EXTENDS Naturals

CONSTANTS SvWorkers,       \* the workers of the dispatcher
          SvQueueSize,     \* the capacity of its queue
          SvMaxConnections \* config.MaxConnections of the server

ASSUME ServiceAssumption ==
    /\ SvQueueSize \in Nat \ {0} /\ SvMaxConnections \in Nat \ {0}
    /\ {"client", "acceptor"} \cap SvWorkers = {}

\* Who may begin something: a message of the centre, a connection, a message
\* of the queue.
Beginners == {"client", "acceptor"} \cup SvWorkers

VARIABLES
    stage,      \* where main is; "over": the process is gone
    web,        \* the starter of the web server: "none", "starting" until it has
                \* made the http.Server, then "started", whether or not it listens
    cancelled,  \* main's context, from which all parts derive theirs
    dispatches, \* isRunning of the dispatcher
    queued,     \* messages in its queue
    reader,     \* the read loop of the client
    worker,     \* the workers
    acceptor,   \* the accept loop
    handlers,   \* connection handlers that run
    queuedAtCancel, \* history: messages in the queue at the cancellation
    late,       \* history: what each has begun or handed on since
    inVain      \* history: messages refused since then because dispatches was FALSE

clientVars == <<reader>>
dispatcherVars == <<dispatches, queued, worker>>
serverVars == <<acceptor, handlers>>
historyVars == <<queuedAtCancel, late, inVain>>
svVars == <<stage, web, cancelled, clientVars, dispatcherVars, serverVars, historyVars>>

SvInit ==
    /\ stage = "client" /\ web = "none" /\ cancelled = FALSE
    /\ dispatches = FALSE /\ queued = 0
    /\ reader = "off" /\ worker = [w \in SvWorkers |-> "off"]
    /\ acceptor = "off" /\ handlers = 0
    /\ queuedAtCancel = 0 /\ late = [b \in Beginners |-> 0] /\ inVain = 0

Moves(from, to) == stage = from /\ stage' = to

Exits == stage' = "over"

Begins(b) == late' = IF cancelled THEN [late EXCEPT ![b] = @ + 1] ELSE late

-----------------------------------------------------------------------------
\* main starts the parts.

\* The client connects and reads, or is not tried again; main goes on either way.
StartClient ==
    /\ Moves("client", "dispatcher")
    /\ reader' \in {"off", "top"}
    /\ UNCHANGED <<web, cancelled, dispatcherVars, serverVars, historyVars>>

StartDispatcher ==
    /\ Moves("dispatcher", "processor")
    /\ dispatches' = TRUE
    /\ worker' = [w \in SvWorkers |-> "top"]
    /\ UNCHANGED <<web, cancelled, queued, clientVars, serverVars, historyVars>>

\* Start leaves a cleaner behind, which ends with the context; Stop closes a
\* channel that nobody reads.  Neither waits.
PassProcessor ==
    /\ Moves("processor", "server") \/ Moves("stop processor", "stop dispatcher")
    /\ UNCHANGED <<web, cancelled, clientVars, dispatcherVars, serverVars, historyVars>>

\* Where the server cannot listen, main exits at once.
StartServer ==
    /\ stage = "server"
    /\ \/ stage' = "web" /\ acceptor' = "top"
       \/ Exits /\ UNCHANGED acceptor
    /\ UNCHANGED <<web, cancelled, handlers, clientVars, dispatcherVars, historyVars>>

\* The web server, if it is enabled, is left to a goroutine of its own.
StartWeb ==
    /\ Moves("web", "serving")
    /\ web' \in {"none", "starting"}
    /\ UNCHANGED <<cancelled, clientVars, dispatcherVars, serverVars, historyVars>>

\* SIGINT or SIGTERM, for which main waits here.
Signal ==
    /\ Moves("serving", "stop web")
    /\ UNCHANGED <<web, cancelled, clientVars, dispatcherVars, serverVars, historyVars>>

-----------------------------------------------------------------------------
\* main stops the parts.

\* Stop of the web server uses the http.Server: it panics if that is not made.
StopWeb ==
    /\ stage = "stop web"
    /\ IF web = "starting" THEN Exits /\ UNCHANGED web
       ELSE stage' = "cancel" /\ web' = "none"
    /\ UNCHANGED <<cancelled, clientVars, dispatcherVars, serverVars, historyVars>>

Cancel ==
    /\ Moves("cancel", "stop server")
    /\ cancelled' = TRUE
    /\ queuedAtCancel' = queued
    /\ UNCHANGED <<web, clientVars, dispatcherVars, serverVars, late, inVain>>

\* The listener and the connections are closed; from here Stop waits for the
\* accept loop, the handlers, and the heartbeat loop, which ends as they do.
StopServer ==
    /\ Moves("stop server", "await server")
    /\ UNCHANGED <<web, cancelled, clientVars, dispatcherVars, serverVars, historyVars>>

ServerStopped ==
    /\ Moves("await server", "stop processor")
    /\ acceptor = "off" /\ handlers = 0
    /\ UNCHANGED <<web, cancelled, clientVars, dispatcherVars, serverVars, historyVars>>

\* Stop of the dispatcher holds d.mu while it waits for the workers.
StopDispatcher ==
    /\ Moves("stop dispatcher", "await workers")
    /\ UNCHANGED <<web, cancelled, clientVars, dispatcherVars, serverVars, historyVars>>

DispatcherStopped ==
    /\ Moves("await workers", "stop client")
    /\ \A w \in SvWorkers : worker[w] = "off"
    /\ dispatches' = FALSE
    /\ UNCHANGED <<web, cancelled, queued, worker, clientVars, serverVars, historyVars>>

\* Stop of the client closes the connection and does not wait for the read
\* loop; the end of main does not either.
StopClient ==
    /\ Moves("stop client", "close") \/ Moves("close", "over")
    /\ UNCHANGED <<web, cancelled, clientVars, dispatcherVars, serverVars, historyVars>>

-----------------------------------------------------------------------------
\* The goroutines, which end with the process at the latest.

WebStarts ==
    /\ web = "starting"
    /\ web' = "started"
    /\ UNCHANGED <<stage, cancelled, clientVars, dispatcherVars, serverVars, historyVars>>

Read(from, to) == reader = from /\ reader' = to

\* The bug of a read loop that looks at the connection only.
ReaderLoopsOn ==
    /\ Read("top", "reading")
    /\ UNCHANGED <<stage, web, cancelled, dispatcherVars, serverVars, historyVars>>

\* Its top: the context is looked at, and nothing else stops it there.
ReaderLoops ==
    /\ Read("top", IF cancelled THEN "off" ELSE "reading")
    /\ UNCHANGED <<stage, web, cancelled, dispatcherVars, serverVars, historyVars>>

\* A DELIVER_SM, any other message, or an error, which is all that there is once
\* the Stop of the client has closed the connection.
Reads ==
    /\ \/ Read("reading", "message") /\ stage # "close"
       \/ Read("reading", "top") /\ stage # "close"
       \/ Read("reading", "reconnecting")
    /\ UNCHANGED <<stage, web, cancelled, dispatcherVars, serverVars, historyVars>>

\* The context, a last failed attempt, or a new connection: where the context
\* is done and a wait has passed, the select takes either.
Reconnects ==
    /\ Read("reconnecting", "off") \/ Read("reconnecting", "top")
    /\ UNCHANGED <<stage, web, cancelled, dispatcherVars, serverVars, historyVars>>

\* The message cannot be parsed again.
ParseFails ==
    /\ Read("message", "answering")
    /\ Begins("client")
    /\ UNCHANGED <<stage, web, cancelled, dispatcherVars, serverVars, queuedAtCancel, inVain>>

\* Dispatch looks whether the dispatcher runs, without its lock.
DispatchChecks ==
    /\ \/ /\ dispatches
          /\ Read("message", "enqueueing")
          /\ UNCHANGED <<late, inVain>>
       \/ /\ ~dispatches
          /\ Read("message", "answering")
          /\ Begins("client")
          /\ inVain' = IF cancelled THEN inVain + 1 ELSE inVain
    /\ UNCHANGED <<stage, web, cancelled, dispatcherVars, serverVars, queuedAtCancel>>

\* A full queue refuses the message.
Enqueues ==
    /\ Read("enqueueing", "answering")
    /\ queued' = IF queued < SvQueueSize THEN queued + 1 ELSE queued
    /\ Begins("client")
    /\ UNCHANGED <<stage, web, cancelled, dispatches, worker, serverVars, queuedAtCancel, inVain>>

\* The centre is answered SM_OK, whatever Dispatch has said.
Answers ==
    /\ Read("answering", "top")
    /\ UNCHANGED <<stage, web, cancelled, dispatcherVars, serverVars, historyVars>>

Work(w, from, to) == worker[w] = from /\ worker' = [worker EXCEPT ![w] = to]

\* The bug of a worker that looks at the queue only.
WorkerLoopsOn(w) ==
    /\ Work(w, "top", "dequeueing")
    /\ UNCHANGED <<stage, web, cancelled, dispatches, queued, clientVars, serverVars, historyVars>>

WorkerLoops(w) ==
    /\ Work(w, "top", IF cancelled THEN "off" ELSE "dequeueing")
    /\ UNCHANGED <<stage, web, cancelled, dispatches, queued, clientVars, serverVars, historyVars>>

Dequeues(w) ==
    /\ queued > 0
    /\ queued' = queued - 1
    /\ Work(w, "dequeueing", "copying")
    /\ Begins(w)
    /\ UNCHANGED <<stage, web, cancelled, dispatches, clientVars, serverVars, queuedAtCancel, inVain>>

\* After 100 ms; where a message comes then too, the select takes either.
DequeueTimesOut(w) ==
    /\ Work(w, "dequeueing", "top")
    /\ UNCHANGED <<stage, web, cancelled, dispatches, queued, clientVars, serverVars, historyVars>>

\* DispatchSync copies the handlers under d.mu, and ends with them or, at the
\* latest, with its timeout.
DispatchSync(w) ==
    /\ \/ Work(w, "copying", "handing") /\ stage # "await workers"
       \/ Work(w, "handing", "top")
    /\ UNCHANGED <<stage, web, cancelled, dispatches, queued, clientVars, serverVars, historyVars>>

Accept(from, to) == acceptor = from /\ acceptor' = to

ListenerOpen == stage \in {"web", "serving", "stop web", "cancel", "stop server"}

\* The accept loop's top: the context, then the limit.
AcceptorLoops ==
    /\ \/ cancelled /\ Accept("top", "off")
       \/ ~cancelled /\ handlers < SvMaxConnections /\ Accept("top", "accepting")
    /\ UNCHANGED <<stage, web, cancelled, handlers, clientVars, dispatcherVars, historyVars>>

Accepts ==
    /\ ListenerOpen
    /\ Accept("accepting", "top")
    /\ handlers' = handlers + 1
    /\ Begins("acceptor")
    /\ UNCHANGED <<stage, web, cancelled, clientVars, dispatcherVars, queuedAtCancel, inVain>>

\* A temporary error is passed over; any other, as that of a closed listener,
\* ends the loop.
AcceptFails ==
    /\ \/ Accept("accepting", "top") /\ ListenerOpen
       \/ Accept("accepting", "off")
    /\ UNCHANGED <<stage, web, cancelled, handlers, clientVars, dispatcherVars, historyVars>>

\* A handler ends: for whatever reason, and with the context at the next read.
HandlerEnds ==
    /\ handlers > 0
    /\ handlers' = handlers - 1
    /\ UNCHANGED <<stage, web, cancelled, acceptor, clientVars, dispatcherVars, historyVars>>

-----------------------------------------------------------------------------
Starting == StartClient \/ StartDispatcher \/ StartServer \/ StartWeb
Stopping ==
    \/ StopWeb \/ Cancel \/ StopServer \/ ServerStopped
    \/ StopDispatcher \/ DispatcherStopped \/ StopClient

ReaderStep ==
    ReaderLoops \/ Reads \/ Reconnects \/ ParseFails \/ DispatchChecks \/ Enqueues \/ Answers

WorkerStep(w) == WorkerLoops(w) \/ Dequeues(w) \/ DequeueTimesOut(w) \/ DispatchSync(w)

ServerStep == AcceptorLoops \/ Accepts \/ AcceptFails \/ HandlerEnds

Lives == stage # "over"

SvNext ==
    /\ Lives
    /\ \/ Starting \/ PassProcessor \/ Signal \/ Stopping
       \/ WebStarts \/ ReaderStep \/ ServerStep
       \/ \E w \in SvWorkers : WorkerStep(w)

\* Once it is told to, main goes on; goroutines run and deadlines pass: an
\* Accept ends when the listener is closed, a handler when its context is done.
SvFairness ==
    /\ WF_svVars(Stopping \/ (cancelled /\ PassProcessor))
    /\ WF_svVars(Lives /\ (AcceptorLoops \/ (~ListenerOpen /\ AcceptFails)))
    /\ WF_svVars(Lives /\ cancelled /\ HandlerEnds)
    /\ \A w \in SvWorkers : WF_svVars(Lives /\ WorkerStep(w))

SvSpec == SvInit /\ [][SvNext]_svVars /\ SvFairness

-----------------------------------------------------------------------------
\* Type invariant of the process.
SvTypeOK ==
    /\ stage \in {"client", "dispatcher", "processor", "server", "web", "serving", "stop web",
                  "cancel", "stop server", "await server", "stop processor",
                  "stop dispatcher", "await workers", "stop client", "close", "over"}
    /\ web \in {"none", "starting", "started"}
    /\ cancelled \in BOOLEAN /\ dispatches \in BOOLEAN
    /\ queued \in 0..SvQueueSize /\ queuedAtCancel \in Nat
    /\ reader \in {"off", "top", "reading", "reconnecting", "message", "enqueueing", "answering"}
    /\ worker \in [SvWorkers -> {"off", "top", "dequeueing", "copying", "handing"}]
    /\ acceptor \in {"off", "top", "accepting"}
    /\ handlers \in Nat /\ inVain \in Nat
    /\ late \in [Beginners -> Nat]

\* Once the context is cancelled, whichever of the two notices when: the client
\* hands on one message more at the most, each worker takes one more, and the
\* accept loop one connection.  So of the messages that the centre takes for
\* delivered, a shutdown loses what waits in the queue then and one more,
\* whether that is refused or left in a queue without workers.
\* (main.go:345 cancels while client and dispatcher still work; 349-359 stop
\* the dispatcher before the client, which feeds it.)
AtMostOneMore ==
    /\ \A b \in Beginners : late[b] <= 1
    /\ cancelled => queued + inVain <= queuedAtCancel + late["client"]

\* Stop of the dispatcher waits, with d.mu, for a worker that waits for d.mu.
Hung == stage = "await workers" /\ \E w \in SvWorkers : worker[w] = "copying"

\* Once main has its signal the process ends, though every part works at the
\* time, but for the one deadlock that is known (dispatcher.go:111).
\* (main.go:323-359: the stops that wait, wait only for goroutines that the
\* cancelled context ends.)
ShutdownEnds == stage = "stop web" ~> (stage = "over" \/ Hung)
=============================================================================
