----------------------------- MODULE SMSCClient -----------------------------
(***************************************************************************)
(* The client that keeps one connection to the short-message centre: Start *)
(* with its first connect, the read loop with its reconnections, the       *)
(* heartbeat goroutine, and Stop.  The goroutines share c.conn without a   *)
(* lock, so what one checks another may change before the first uses it;   *)
(* a call on a nil connection is a panic, which ends the process.          *)
(***************************************************************************)
EXTENDS Naturals, FiniteSets

CONSTANTS
  Sockets,      \* sockets the process may hold at once
  Nil,
  MaxRetries    \* config.MaxRetries

ASSUME ClientAssumption ==
  /\ Nil \notin Sockets
  /\ MaxRetries \in Nat

Closers == {"reader", "stop"}

HeartbeatLimit == 3    \* the literal 3 of the heartbeat goroutine

VARIABLES
  conn,        \* c.conn
  open,        \* sockets opened and not yet closed by this process
  broken,      \* sockets whose far end is gone
  status,      \* 0 disconnected, 1 connecting, 2 connected
  cancelled,   \* c.ctx is done
  pc,          \* where the goroutine of Start, later the read loop, is
  starting,    \* Start has not yet returned
  tries,       \* reconnection attempts made
  heart,       \* where the heartbeat goroutine is
  failures,    \* N1
  stopper,     \* where Stop is
  reachable,   \* the SMSC accepts connections
  panicked,
  closing      \* where a call of close is: the read loop's and Stop's

vars == <<conn, open, broken, status, cancelled, pc, starting, tries, heart,
          failures, stopper, reachable, panicked, closing>>

Init ==
  /\ conn = Nil
  /\ open = {}
  /\ broken = {}
  /\ status = 0
  /\ cancelled = FALSE
  /\ pc = "connect"
  /\ starting = TRUE
  /\ tries = 0
  /\ heart = "off"
  /\ failures = 0
  /\ stopper = "no"
  /\ reachable \in BOOLEAN
  /\ panicked = FALSE
  /\ closing = [p \in Closers |-> "no"]

Alive(s) == s \in open \ broken

\* A panic ends the process.
Running == ~panicked

(***************************************************************************)
(* connect, called by Start or by reconnect                                *)
(***************************************************************************)
\* What a failed connect leads to: Start gives up, reconnect tries again.
ConnectFailed ==
  IF starting
  THEN pc' = "failed" /\ UNCHANGED tries
  ELSE /\ tries' = tries + 1
       /\ pc' = IF tries + 1 < MaxRetries THEN "backoff" ELSE "exit"

BeginConnect ==
  /\ Running
  /\ pc = "connect"
  /\ IF status = 2
     THEN pc' = "loop" /\ tries' = 0 /\ UNCHANGED status
     ELSE pc' = "dial" /\ status' = 1 /\ UNCHANGED tries
  /\ UNCHANGED <<conn, open, broken, cancelled, starting, heart, failures, stopper, reachable, panicked, closing>>

Dial ==
  /\ Running
  /\ pc = "dial"
  /\ reachable
  /\ \E s \in Sockets \ open :
       /\ conn' = s
       /\ open' = open \cup {s}
       /\ broken' = broken \ {s}
  /\ pc' = "bind"
  /\ UNCHANGED <<status, cancelled, starting, tries, heart, failures, stopper, reachable, panicked, closing>>

DialFails ==
  /\ Running
  /\ pc = "dial"
  /\ ~reachable
  /\ status' = 0
  /\ ConnectFailed
  /\ UNCHANGED <<conn, open, broken, cancelled, starting, heart, failures, stopper, reachable, panicked, closing>>

\* The bind request was sent and a positive response read; Stop may have
\* closed the connection since.
BindAnswered ==
  /\ Running
  /\ pc = "bind"
  /\ conn # Nil /\ Alive(conn)
  /\ pc' = "bound"
  /\ UNCHANGED <<conn, open, broken, status, cancelled, starting, tries, heart, failures, stopper, reachable, panicked, closing>>

\* The bug of a bind that leaves the status at connecting.
SetConnectedForgotten ==
  /\ Running
  /\ pc = "bound"
  /\ pc' = "loop"
  /\ tries' = 0
  /\ starting' = FALSE
  /\ heart' = IF starting THEN "idle" ELSE heart
  /\ UNCHANGED <<conn, open, broken, status, cancelled, failures, stopper, reachable, panicked, closing>>

SetConnected ==
  /\ Running
  /\ pc = "bound"
  /\ status' = 2
  /\ pc' = "loop"
  /\ tries' = 0
  /\ starting' = FALSE
  /\ heart' = IF starting THEN "idle" ELSE heart
  /\ UNCHANGED <<conn, open, broken, cancelled, failures, stopper, reachable, panicked, closing>>

\* The bind failed: c.conn.Close() is called on whatever c.conn is by now.
BindFails ==
  /\ Running
  /\ pc = "bind"
  /\ IF conn = Nil
     THEN panicked' = TRUE /\ UNCHANGED <<open, status, pc, tries>>
     ELSE /\ open' = open \ {conn}
          /\ status' = 0
          /\ ConnectFailed
          /\ UNCHANGED panicked
  /\ UNCHANGED <<conn, broken, cancelled, starting, heart, failures, stopper, reachable, closing>>

(***************************************************************************)
(* readLoop                                                                *)
(***************************************************************************)
\* The bug of a read loop that never looks at its context.
LoopTopIgnoringContext ==
  /\ Running
  /\ pc = "loop"
  /\ pc' = IF conn = Nil THEN "reconnect" ELSE "read"
  /\ UNCHANGED <<conn, open, broken, status, cancelled, starting, tries, heart, failures, stopper, reachable, panicked, closing>>

LoopTop ==
  /\ Running
  /\ pc = "loop"
  /\ pc' = IF cancelled THEN "exit" ELSE IF conn = Nil THEN "reconnect" ELSE "read"
  /\ UNCHANGED <<conn, open, broken, status, cancelled, starting, tries, heart, failures, stopper, reachable, panicked, closing>>

\* readMessage found c.conn set, and uses it after it was set to nil.
ReadPanics ==
  /\ Running
  /\ pc = "read"
  /\ conn = Nil
  /\ panicked' = TRUE
  /\ UNCHANGED <<conn, open, broken, status, cancelled, pc, starting, tries, heart, failures, stopper, reachable, closing>>

\* A DELIVER_SM, handled whatever the handler says, is answered; other
\* messages are not.
ReadMessage ==
  /\ Running
  /\ pc = "read"
  /\ conn # Nil /\ Alive(conn)
  /\ failures' = 0
  /\ pc' \in {"answer", "loop"}
  /\ UNCHANGED <<conn, open, broken, status, cancelled, starting, tries, heart, stopper, reachable, panicked, closing>>

\* sendMessage looks at c.conn, and uses it once it has the send lock.
Answer ==
  /\ Running
  /\ pc = "answer"
  /\ pc' = IF conn = Nil THEN "loop" ELSE "write"
  /\ UNCHANGED <<conn, open, broken, status, cancelled, starting, tries, heart, failures, stopper, reachable, panicked, closing>>

WriteAnswer ==
  /\ Running
  /\ pc = "write"
  /\ IF conn = Nil
     THEN panicked' = TRUE /\ UNCHANGED pc
     ELSE pc' = "loop" /\ UNCHANGED panicked
  /\ UNCHANGED <<conn, open, broken, status, cancelled, starting, tries, heart, failures, stopper, reachable, closing>>

\* readMessage wraps the network's error, so that the loop cannot tell a
\* timeout from a broken connection: any error leads to a reconnection.
ReadTimesOut ==
  /\ Running
  /\ pc = "read"
  /\ conn # Nil /\ Alive(conn)
  /\ pc' = "reconnect"
  /\ UNCHANGED <<conn, open, broken, status, cancelled, starting, tries, heart, failures, stopper, reachable, panicked, closing>>

\* The connection is gone, or c.conn is found nil by readMessage's own look
\* at it, or was closed by Stop.
ReadFails ==
  /\ Running
  /\ pc = "read"
  /\ ~Alive(conn)
  /\ pc' = "reconnect"
  /\ UNCHANGED <<conn, open, broken, status, cancelled, starting, tries, heart, failures, stopper, reachable, panicked, closing>>

(***************************************************************************)
(* close: find c.conn set, close it, clear it.  The read loop calls it     *)
(* before it reconnects and when it exits, Stop calls it once.             *)
(***************************************************************************)
MayClose(p) ==
  IF p = "reader" THEN pc \in {"reconnect", "exit"} ELSE stopper = "close"

CloseDone(p) ==
  IF p = "reader"
  THEN /\ pc' = IF pc = "exit" THEN "ended" ELSE IF MaxRetries > 0 THEN "backoff" ELSE "exit"
       /\ UNCHANGED stopper
  ELSE stopper' = "done" /\ UNCHANGED pc

FindConn(p) ==
  /\ Running
  /\ MayClose(p)
  /\ closing[p] = "no"
  /\ conn # Nil
  /\ closing' = [closing EXCEPT ![p] = "shut"]
  /\ UNCHANGED <<conn, open, broken, status, cancelled, pc, starting, tries, heart, failures, stopper, reachable, panicked>>

FindNoConn(p) ==
  /\ Running
  /\ MayClose(p)
  /\ closing[p] = "no"
  /\ conn = Nil
  /\ status' = 0
  /\ CloseDone(p)
  /\ UNCHANGED <<conn, open, broken, cancelled, starting, tries, heart, failures, reachable, panicked, closing>>

\* The bug of a close that forgets to close the socket.
ClearOnly(p) ==
  /\ Running
  /\ closing[p] = "shut"
  /\ closing' = [closing EXCEPT ![p] = "clear"]
  /\ UNCHANGED <<conn, open, broken, status, cancelled, pc, starting, tries, heart, failures, stopper, reachable, panicked>>

Shut(p) ==
  /\ Running
  /\ closing[p] = "shut"
  /\ IF conn = Nil
     THEN panicked' = TRUE /\ UNCHANGED <<open, closing>>
     ELSE /\ open' = open \ {conn}
          /\ closing' = [closing EXCEPT ![p] = "clear"]
          /\ UNCHANGED panicked
  /\ UNCHANGED <<conn, broken, status, cancelled, pc, starting, tries, heart, failures, stopper, reachable>>

\* The bug of a close that leaves the status at connected.
ClearKeepingStatus(p) ==
  /\ Running
  /\ closing[p] = "clear"
  /\ conn' = Nil
  /\ closing' = [closing EXCEPT ![p] = "no"]
  /\ CloseDone(p)
  /\ UNCHANGED <<open, broken, status, cancelled, starting, tries, heart, failures, reachable, panicked>>

Clear(p) ==
  /\ Running
  /\ closing[p] = "clear"
  /\ conn' = Nil
  /\ status' = 0
  /\ closing' = [closing EXCEPT ![p] = "no"]
  /\ CloseDone(p)
  /\ UNCHANGED <<open, broken, cancelled, starting, tries, heart, failures, reachable, panicked>>

(***************************************************************************)
(* reconnect, after its close: wait, for longer each time, and connect     *)
(***************************************************************************)
BackoffEnds ==
  /\ Running
  /\ pc = "backoff"
  /\ pc' = "connect"
  /\ UNCHANGED <<conn, open, broken, status, cancelled, starting, tries, heart, failures, stopper, reachable, panicked, closing>>

BackoffCancelled ==
  /\ Running
  /\ pc = "backoff"
  /\ cancelled
  /\ pc' = "exit"
  /\ UNCHANGED <<conn, open, broken, status, cancelled, starting, tries, heart, failures, stopper, reachable, panicked, closing>>

(***************************************************************************)
(* The heartbeat goroutine: it too looks at c.conn before it uses it.      *)
(***************************************************************************)
HeartbeatFails ==
  /\ failures' = failures + 1
  /\ heart' = IF failures + 1 >= HeartbeatLimit THEN "ended" ELSE "idle"

Beat ==
  /\ Running
  /\ heart = "idle"
  /\ IF conn = Nil
     THEN HeartbeatFails
     ELSE heart' = "write" /\ UNCHANGED failures
  /\ UNCHANGED <<conn, open, broken, status, cancelled, pc, starting, tries, stopper, reachable, panicked, closing>>

\* A write on a broken connection may fail or may go unnoticed.
WriteBeat ==
  /\ Running
  /\ heart = "write"
  /\ IF conn = Nil
     THEN panicked' = TRUE /\ UNCHANGED <<heart, failures>>
     ELSE /\ \/ conn \in open /\ heart' = "idle" /\ UNCHANGED failures
             \/ ~Alive(conn) /\ HeartbeatFails
          /\ UNCHANGED panicked
  /\ UNCHANGED <<conn, open, broken, status, cancelled, pc, starting, tries, stopper, reachable, closing>>

HeartbeatEnds ==
  /\ Running
  /\ heart = "idle"
  /\ cancelled
  /\ heart' = "ended"
  /\ UNCHANGED <<conn, open, broken, status, cancelled, pc, starting, tries, failures, stopper, reachable, panicked, closing>>

(***************************************************************************)
(* Stop, and the network                                                   *)
(***************************************************************************)
StopCancels ==
  /\ Running
  /\ stopper = "no"
  /\ ~starting \/ pc = "failed"
  /\ stopper' = "close"
  /\ cancelled' = TRUE
  /\ UNCHANGED <<conn, open, broken, status, pc, starting, tries, heart, failures, reachable, panicked, closing>>

Break(s) ==
  /\ Running
  /\ Alive(s)
  /\ broken' = broken \cup {s}
  /\ UNCHANGED <<conn, open, status, cancelled, pc, starting, tries, heart, failures, stopper, reachable, panicked, closing>>

ChangeReachable ==
  /\ Running
  /\ reachable' = ~reachable
  /\ UNCHANGED <<conn, open, broken, status, cancelled, pc, starting, tries, heart, failures, stopper, panicked, closing>>

-----------------------------------------------------------------------------
Reader ==
  \/ BeginConnect \/ Dial \/ DialFails
  \/ BindAnswered \/ SetConnected \/ BindFails
  \/ LoopTop \/ ReadPanics \/ ReadMessage \/ Answer \/ WriteAnswer \/ ReadTimesOut \/ ReadFails
  \/ BackoffEnds \/ BackoffCancelled

CloseSteps(p) == FindConn(p) \/ FindNoConn(p) \/ Shut(p) \/ Clear(p)

Heartbeat == Beat \/ WriteBeat \/ HeartbeatEnds

Next ==
  \/ Reader
  \/ \E p \in Closers : CloseSteps(p)
  \/ Heartbeat
  \/ StopCancels
  \/ ChangeReachable
  \/ \E s \in Sockets : Break(s)

Spec == Init /\ [][Next]_vars

\* Goroutines go on: reads and waits have deadlines.  The network, the
\* heartbeat's ticks and Stop owe nothing.
LiveSpec ==
  Spec /\ WF_vars(Reader) /\ \A p \in Closers : WF_vars(CloseSteps(p))

-----------------------------------------------------------------------------
TypeOK ==
  /\ conn \in Sockets \cup {Nil}
  /\ open \subseteq Sockets
  /\ broken \subseteq Sockets
  /\ status \in 0..2
  /\ cancelled \in BOOLEAN /\ starting \in BOOLEAN
  /\ reachable \in BOOLEAN /\ panicked \in BOOLEAN
  /\ pc \in {"connect", "dial", "bind", "bound", "loop", "read", "answer", "write",
             "reconnect", "backoff", "exit", "ended", "failed"}
  /\ tries \in 0..MaxRetries
  /\ heart \in {"off", "idle", "write", "ended"}
  /\ failures \in 0..HeartbeatLimit
  /\ stopper \in {"no", "close", "done"}
  /\ closing \in [Closers -> {"no", "shut", "clear"}]

\* Until Stop is called the process holds no socket but the current one, in
\* however many reconnections: none is leaked by a bind that failed or by a
\* connection that broke.
NoLeak == ~cancelled => open \subseteq {conn}

\* "Connected" is reported only of a connection that was bound and that this
\* process has not closed, though status and connection are set separately.
ConnectedIsOpen ==
  (status = 2 /\ ~cancelled /\ closing["reader"] = "no") => conn \in open

\* The client implements Link: whatever breaks while it connects, reads, waits
\* and closes, until Stop is called it has one socket open at most, has closed
\* it before it tries again, tries no more than MaxRetries times for each
\* connection it lost, and then, or stopped, ends.
\* (connect 124-182, readLoop 298-388, reconnect 390-411, close 417-425.)
Phase ==
  CASE starting                                   -> IF pc = "failed" THEN "over" ELSE "starting"
    [] pc \in {"loop", "read", "answer", "write"} -> "up"
    [] pc \in {"exit", "ended"}                   -> "over"
    [] OTHER                                      -> "down"

Promised == INSTANCE Link
              WITH Socket <- Sockets, phase <- Phase, attempts <- tries, held <- open,
                   says <- (status = 2), stopped <- cancelled

ImplementsLink == Promised!Spec

\* With the SMSC reachable from some point on, the client is connected again
\* and again, whatever connections broke, unless its goroutine ended: retries
\* were used up, Stop was called or the process panicked.
Reconnects ==
  (<>[]reachable) => []<>(status = 2 \/ pc \in {"ended", "failed"} \/ panicked)

\* Stop ends the read loop.
StopEnds == (stopper = "close") ~> (pc \in {"ended", "failed"} \/ panicked)

\* "A timeout is normal, go on with the next turn of the loop": a connection
\* that works is not given up because nothing arrived on it.
TimeoutKeepsConnection ==
  [][pc = "read" /\ conn \in open \ broken /\ ~cancelled /\ pc' # pc
       => pc' # "reconnect"]_vars

\* "Regular heartbeats keep the connection": while the client is connected and
\* not stopped, its heartbeat goroutine has not ended.
HeartbeatWhileConnected == (status = 2 /\ ~cancelled) => heart # "ended"

\* A missing connection is an error, "not connected", never a panic.
NoNilUse == ~panicked
=============================================================================
