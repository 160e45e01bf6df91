----------------------------- MODULE SMMCServer -----------------------------
(***************************************************************************)
(* The SMPP server that external network elements bind to: the accept      *)
(* loop, one handler goroutine for each connection, the heartbeat loop,    *)
(* the session cleaner, CloseSession as the web API calls it, delivery of  *)
(* a message to every session, and Stop.                                   *)
(*                                                                         *)
(* A connection and its session have the same name: NewSession is called   *)
(* once for every accepted connection.  Payloads, addresses and sequence   *)
(* numbers are left out; the authenticator's verdict is any.               *)
(***************************************************************************)
EXTENDS Naturals, FiniteSets

CONSTANTS
  Conns,            \* the connections peers may open
  NoConn,
  MaxConnections,   \* config.MaxConnections, 0 for no limit
  MissThreshold,    \* config.HeartbeatMissThreshold
  Faults,           \* what may happen to the far end
  MaxIdle,          \* how idle a session may get: 0, 1 or 2 (see idle)
  MaxDeliveries     \* bound on the calls of HandleMessage

ASSUME ServerAssumption ==
  /\ NoConn \notin Conns
  /\ MaxConnections \in Nat
  /\ MissThreshold \in Nat \ {0}
  /\ Faults \subseteq {"silent", "deaf", "broken"}
  /\ MaxIdle \in 0..2
  /\ MaxDeliveries \in Nat

\* Who closes sessions one by one: CloseSession's callers, and CloseAll.
Closers == {"api", "heartbeat", "stop"}

VARIABLES
  peer,        \* the far end: away, dialled, up, silent (sends nothing more),
               \* deaf (writes to it fail, but it may send), broken (reads fail too)
  closed,      \* connections this process has closed
  pc,          \* where the handler goroutine of a connection is
  status,      \* session.Status
  registered,  \* the keys of SessionManager.sessions
  idle,        \* 0: active, 1: idle beyond the heartbeat interval, 2: beyond 24h
  misses,      \* session.HeartbeatMisses, saturated at the threshold
  active,      \* stats.activeConnections
  acceptor,    \* where the accept loop is
  closer,      \* the CloseSession call each closer is in
  cleaning,    \* the session the cleaner has closed and not yet deleted
  stop,        \* where Stop is
  toClose,     \* what CloseAll's Range has still to visit
  todo,        \* HandleMessage: the sessions it has still to visit
  writing,     \* HandleMessage: the session it has found connected and writes to
  written,     \* HandleMessage: the sessions it wrote the message to
  steady,      \* sessions that have been able to receive since the call began
  call         \* HandleMessage: "idle", "running", "ok" or "error", and how often

vars == <<peer, closed, pc, status, registered, idle, misses, active, acceptor,
          closer, cleaning, stop, toClose, todo, writing, written, steady, call>>

deliveryVars == <<todo, writing, written, steady, call>>
sessionVars == <<status, registered, idle, misses>>
closingVars == <<closer, cleaning, stop, toClose>>

NoCall == [at |-> "none", conn |-> NoConn]

Init ==
  /\ peer = [c \in Conns |-> "away"]
  /\ closed = {}
  /\ pc = [c \in Conns |-> "none"]
  /\ status = [c \in Conns |-> "start"]
  /\ registered = {}
  /\ idle = [c \in Conns |-> 0]
  /\ misses = [c \in Conns |-> 0]
  /\ active = 0
  /\ acceptor = "check"
  /\ closer = [k \in Closers |-> NoCall]
  /\ cleaning = NoConn
  /\ stop = "no"
  /\ toClose = {}
  /\ todo = {}
  /\ writing = NoConn
  /\ written = {}
  /\ steady = {}
  /\ call = [at |-> "idle", made |-> 0]

Cancelled == stop # "no"
ListenerClosed == stop \notin {"no", "cancelled"}

Readable(c) == c \notin closed /\ peer[c] # "broken"
Sends(c) == c \notin closed /\ peer[c] \in {"up", "deaf"}
Writable(c) == c \notin closed /\ peer[c] \in {"up", "silent"}

(***************************************************************************)
(* The far end: it dials, and it may stop sending, stop receiving or go.   *)
(***************************************************************************)
Dial(c) ==
  /\ peer[c] = "away"
  /\ ~ListenerClosed
  /\ peer' = [peer EXCEPT ![c] = "dialled"]
  /\ UNCHANGED <<closed, pc, active, acceptor, sessionVars, closingVars, deliveryVars>>

Degrade(c) ==
  /\ peer[c] \in {"up", "silent", "deaf"}
  /\ \E how \in Faults \ {peer[c]} :
       /\ peer[c] = "deaf" => how = "broken"
       /\ peer' = [peer EXCEPT ![c] = how]
       /\ steady' = IF how = "silent" THEN steady ELSE steady \ {c}
  /\ UNCHANGED <<closed, pc, active, acceptor, sessionVars, closingVars, todo, writing, written, call>>

(***************************************************************************)
(* acceptLoop                                                              *)
(***************************************************************************)
\* The bug of comparing with > where the code compares with >=.
CheckLimitTooLate ==
  /\ acceptor = "check"
  /\ IF Cancelled
     THEN acceptor' = "exited"
     ELSE /\ MaxConnections > 0 => active <= MaxConnections
          /\ acceptor' = "accept"
  /\ UNCHANGED <<peer, closed, pc, active, sessionVars, closingVars, deliveryVars>>

CheckLimit ==
  /\ acceptor = "check"
  /\ IF Cancelled
     THEN acceptor' = "exited"
     ELSE /\ MaxConnections > 0 => active < MaxConnections
          /\ acceptor' = "accept"
  /\ UNCHANGED <<peer, closed, pc, active, sessionVars, closingVars, deliveryVars>>

Accept(c) ==
  /\ acceptor = "accept"
  /\ ~ListenerClosed
  /\ peer[c] = "dialled"
  /\ peer' = [peer EXCEPT ![c] = "up"]
  /\ pc' = [pc EXCEPT ![c] = "bind"]
  /\ active' = active + 1
  /\ acceptor' = "check"
  /\ UNCHANGED <<closed, sessionVars, closingVars, deliveryVars>>

\* Accept fails: it is retried after a temporary error, and any other, a
\* closed listener among them, ends the loop for good.
AcceptFails ==
  /\ acceptor = "accept"
  /\ acceptor' \in IF ListenerClosed THEN {"exited"} ELSE {"check", "exited"}
  /\ UNCHANGED <<peer, closed, pc, active, sessionVars, closingVars, deliveryVars>>

(***************************************************************************)
(* handleConnection                                                        *)
(***************************************************************************)
\* The bind request is not read in time, is malformed or is refused.
BindFails(c) ==
  /\ pc[c] = "bind"
  /\ pc' = [pc EXCEPT ![c] = "close"]
  /\ UNCHANGED <<peer, closed, active, acceptor, sessionVars, closingVars, deliveryVars>>

BindAccepted(c) ==
  /\ pc[c] = "bind"
  /\ peer[c] = "up"
  /\ c \notin closed
  /\ pc' = [pc EXCEPT ![c] = "register"]
  /\ UNCHANGED <<peer, closed, active, acceptor, sessionVars, closingVars, deliveryVars>>

\* Nobody else can see the session before it is added.
Register(c) ==
  /\ pc[c] = "register"
  /\ pc' = [pc EXCEPT ![c] = "loop"]
  /\ status' = [status EXCEPT ![c] = "connected"]
  /\ registered' = registered \cup {c}
  /\ UNCHANGED <<peer, closed, idle, misses, active, acceptor, closingVars, deliveryVars>>

\* The bug of a session loop that never looks at the context.
LoopTopIgnoringContext(c) ==
  /\ pc[c] = "loop"
  /\ pc' = [pc EXCEPT ![c] = IF c \in closed THEN "leave" ELSE "read"]
  /\ UNCHANGED <<peer, closed, active, acceptor, sessionVars, closingVars, deliveryVars>>

\* handleSession, the top of its loop: the read deadline, then the context.
LoopTop(c) ==
  /\ pc[c] = "loop"
  /\ pc' = [pc EXCEPT ![c] = IF c \in closed \/ Cancelled THEN "leave" ELSE "read"]
  /\ UNCHANGED <<peer, closed, active, acceptor, sessionVars, closingVars, deliveryVars>>

\* A message other than UNBIND arrives and is answered.
ReadMessage(c) ==
  /\ pc[c] = "read"
  /\ Sends(c)
  /\ pc' = [pc EXCEPT ![c] = "loop"]
  /\ idle' = [idle EXCEPT ![c] = 0]
  /\ UNCHANGED <<peer, closed, status, registered, misses, active, acceptor, closingVars, deliveryVars>>

ReadUnbind(c) ==
  /\ pc[c] = "read"
  /\ Sends(c)
  /\ pc' = [pc EXCEPT ![c] = "leave"]
  /\ idle' = [idle EXCEPT ![c] = 0]
  /\ UNCHANGED <<peer, closed, status, registered, misses, active, acceptor, closingVars, deliveryVars>>

ReadTimesOut(c) ==
  /\ pc[c] = "read"
  /\ Readable(c)
  /\ pc' = [pc EXCEPT ![c] = "loop"]
  /\ UNCHANGED <<peer, closed, active, acceptor, sessionVars, closingVars, deliveryVars>>

ReadFails(c) ==
  /\ pc[c] = "read"
  /\ ~Readable(c) \/ Sends(c)     \* the header or the body may be malformed
  /\ pc' = [pc EXCEPT ![c] = "leave"]
  /\ UNCHANGED <<peer, closed, active, acceptor, sessionVars, closingVars, deliveryVars>>

\* The deferred function of handleSession.
SetClosed(c) ==
  /\ pc[c] = "leave"
  /\ pc' = [pc EXCEPT ![c] = "remove"]
  /\ status' = [status EXCEPT ![c] = "closed"]
  /\ steady' = steady \ {c}
  /\ UNCHANGED <<peer, closed, registered, idle, misses, active, acceptor, closingVars, todo, writing, written, call>>

\* The bug of a deferred function that forgets the session map.
RemoveForgotten(c) ==
  /\ pc[c] = "remove"
  /\ pc' = [pc EXCEPT ![c] = "close"]
  /\ UNCHANGED <<peer, closed, active, acceptor, sessionVars, closingVars, deliveryVars>>

RemoveSession(c) ==
  /\ pc[c] = "remove"
  /\ pc' = [pc EXCEPT ![c] = "close"]
  /\ registered' = registered \ {c}
  /\ UNCHANGED <<peer, closed, status, idle, misses, active, acceptor, closingVars, deliveryVars>>

\* The deferred function of handleConnection.
HandlerEnds(c) ==
  /\ pc[c] = "close"
  /\ pc' = [pc EXCEPT ![c] = "end"]
  /\ closed' = closed \cup {c}
  /\ active' = active - 1
  /\ UNCHANGED <<peer, acceptor, sessionVars, closingVars, deliveryVars>>

(***************************************************************************)
(* heartbeatLoop: one session of checkSessionHeartbeats at a time.         *)
(***************************************************************************)
Probe(c) ==
  /\ closer["heartbeat"].at = "none"
  /\ c \in registered
  /\ status[c] = "connected"
  /\ idle[c] > 0

ProbeSent(c) ==
  /\ Probe(c)
  /\ Writable(c)
  /\ closer' = [closer EXCEPT !["heartbeat"] = [at |-> "sent", conn |-> c]]
  /\ UNCHANGED <<peer, closed, pc, active, acceptor, sessionVars, cleaning, stop, toClose, deliveryVars>>

ResetMisses ==
  /\ closer["heartbeat"].at = "sent"
  /\ misses' = [misses EXCEPT ![closer["heartbeat"].conn] = 0]
  /\ closer' = [closer EXCEPT !["heartbeat"] = NoCall]
  /\ UNCHANGED <<peer, closed, pc, status, registered, idle, active, acceptor, cleaning, stop, toClose, deliveryVars>>

\* The bug of a failed heartbeat that is logged and not counted.
ProbeFailsUncounted(c) ==
  /\ Probe(c)
  /\ ~Writable(c)
  /\ UNCHANGED vars

ProbeFails(c) ==
  /\ Probe(c)
  /\ ~Writable(c)
  /\ LET missed == IF misses[c] < MissThreshold THEN misses[c] + 1 ELSE MissThreshold
     IN /\ misses' = [misses EXCEPT ![c] = missed]
        /\ closer' = IF missed >= MissThreshold
                     THEN [closer EXCEPT !["heartbeat"] = [at |-> "asked", conn |-> c]]
                     ELSE closer
  /\ UNCHANGED <<peer, closed, pc, status, registered, idle, active, acceptor, cleaning, stop, toClose, deliveryVars>>

HeartbeatExits ==
  /\ closer["heartbeat"].at = "none"
  /\ Cancelled
  /\ closer' = [closer EXCEPT !["heartbeat"] = [at |-> "exited", conn |-> NoConn]]
  /\ UNCHANGED <<peer, closed, pc, active, acceptor, sessionVars, cleaning, stop, toClose, deliveryVars>>

(***************************************************************************)
(* CloseSession, called by the web API or by the heartbeat loop: load the  *)
(* session, close its connection, then mark and delete it.                 *)
(***************************************************************************)
AskClose(c) ==
  /\ closer["api"].at = "none"
  /\ c \in registered
  /\ closer' = [closer EXCEPT !["api"] = [at |-> "loaded", conn |-> c]]
  /\ UNCHANGED <<peer, closed, pc, active, acceptor, sessionVars, cleaning, stop, toClose, deliveryVars>>

\* The heartbeat loop asks after a failed write that may have taken its time.
LoadSession ==
  /\ closer["heartbeat"].at = "asked"
  /\ closer' = [closer EXCEPT !["heartbeat"] =
       IF @.conn \in registered THEN [@ EXCEPT !.at = "loaded"] ELSE NoCall]
  /\ UNCHANGED <<peer, closed, pc, active, acceptor, sessionVars, cleaning, stop, toClose, deliveryVars>>

\* Closing a closed connection is an error, and CloseSession returns it.
CloseConn(k) ==
  /\ closer[k].at = "loaded"
  /\ LET c == closer[k].conn
     IN /\ closer' = [closer EXCEPT ![k] =
             IF c \in closed THEN NoCall ELSE [@ EXCEPT !.at = "marking"]]
        /\ closed' = closed \cup {c}
        /\ steady' = steady \ {c}
  /\ UNCHANGED <<peer, pc, active, acceptor, sessionVars, cleaning, stop, toClose, todo, writing, written, call>>

MarkClosed(k) ==
  /\ closer[k].at = "marking"
  /\ LET c == closer[k].conn
     IN /\ status' = [status EXCEPT ![c] = "closed"]
        /\ registered' = registered \ {c}
  /\ closer' = [closer EXCEPT ![k] = NoCall]
  /\ UNCHANGED <<peer, closed, pc, idle, misses, active, acceptor, cleaning, stop, toClose, deliveryVars>>

(***************************************************************************)
(* cleanupSessions, and the passing of time it goes by.                    *)
(***************************************************************************)
GrowIdle(c) ==
  /\ pc[c] \notin {"none", "end"}
  /\ idle[c] < MaxIdle
  /\ idle' = [idle EXCEPT ![c] = @ + 1]
  /\ UNCHANGED <<peer, closed, pc, status, registered, misses, active, acceptor, closingVars, deliveryVars>>

CleanPick(c) ==
  /\ cleaning = NoConn
  /\ c \in registered
  /\ status[c] = "closed" \/ idle[c] = 2
  /\ closed' = closed \cup {c}
  /\ steady' = steady \ {c}
  /\ cleaning' = c
  /\ UNCHANGED <<peer, pc, active, acceptor, sessionVars, closer, stop, toClose, todo, writing, written, call>>

CleanDelete ==
  /\ cleaning # NoConn
  /\ registered' = registered \ {cleaning}
  /\ cleaning' = NoConn
  /\ UNCHANGED <<peer, closed, pc, status, idle, misses, active, acceptor, closer, stop, toClose, deliveryVars>>

(***************************************************************************)
(* Stop: cancel, close the listener, CloseAll, wait for the goroutines.    *)
(***************************************************************************)
StopCancels ==
  /\ stop = "no"
  /\ stop' = "cancelled"
  /\ UNCHANGED <<peer, closed, pc, active, acceptor, sessionVars, closer, cleaning, toClose, deliveryVars>>

StopCloses ==
  /\ stop = "cancelled"
  /\ stop' = "closing"
  /\ toClose' = registered
  /\ UNCHANGED <<peer, closed, pc, active, acceptor, sessionVars, closer, cleaning, deliveryVars>>

\* Range may also visit a session stored after it began.
CloseAllVisits(c) ==
  /\ stop = "closing"
  /\ closer["stop"].at = "none"
  /\ c \in registered
  /\ closed' = closed \cup {c}
  /\ steady' = steady \ {c}
  /\ closer' = [closer EXCEPT !["stop"] = [at |-> "marking", conn |-> c]]
  /\ toClose' = toClose \ {c}
  /\ UNCHANGED <<peer, pc, active, acceptor, sessionVars, cleaning, stop, todo, writing, written, call>>

CloseAllEnds ==
  /\ stop = "closing"
  /\ closer["stop"].at = "none"
  /\ toClose \cap registered = {}
  /\ stop' = "waiting"
  /\ UNCHANGED <<peer, closed, pc, active, acceptor, sessionVars, closer, cleaning, toClose, deliveryVars>>

HandlersEnded == \A c \in Conns : pc[c] \in {"none", "end"}

\* The bug of a Stop that does not wait.
StopWithoutWait ==
  /\ stop = "waiting"
  /\ stop' = "stopped"
  /\ UNCHANGED <<peer, closed, pc, active, acceptor, sessionVars, closer, cleaning, toClose, deliveryVars>>

StopReturns ==
  /\ stop = "waiting"
  /\ acceptor = "exited"
  /\ closer["heartbeat"].at = "exited"
  /\ HandlersEnded
  /\ stop' = "stopped"
  /\ UNCHANGED <<peer, closed, pc, active, acceptor, sessionVars, closer, cleaning, toClose, deliveryVars>>

(***************************************************************************)
(* HandleMessage for a DELIVER_SM.                                         *)
(***************************************************************************)
CallHandleMessage ==
  /\ call.at # "running"
  /\ call.made < MaxDeliveries
  /\ written' = {}
  /\ todo' = registered
  /\ steady' = {c \in registered : status[c] = "connected" /\ Writable(c)}
  /\ call' = [at |-> IF registered = {} THEN "error" ELSE "running", made |-> call.made + 1]
  /\ UNCHANGED <<peer, closed, pc, active, acceptor, sessionVars, closingVars, writing>>

\* The bug of sending whatever the status is.
SendToRegardless(c) ==
  /\ call.at = "running" /\ writing = NoConn
  /\ c \in todo
  /\ todo' = todo \ {c}
  /\ writing' = c
  /\ UNCHANGED <<peer, closed, pc, active, acceptor, sessionVars, closingVars, written, steady, call>>

\* The status is looked at, and SendMessage called if it is connected.
SendTo(c) ==
  /\ call.at = "running" /\ writing = NoConn
  /\ c \in todo
  /\ todo' = todo \ {c}
  /\ writing' = IF status[c] = "connected" THEN c ELSE NoConn
  /\ UNCHANGED <<peer, closed, pc, active, acceptor, sessionVars, closingVars, written, steady, call>>

\* The bug of giving up at the first write that fails.
WriteOrGiveUp ==
  /\ writing # NoConn
  /\ writing' = NoConn
  /\ IF Writable(writing)
     THEN written' = written \cup {writing} /\ UNCHANGED todo
     ELSE todo' = {} /\ UNCHANGED written
  /\ UNCHANGED <<peer, closed, pc, active, acceptor, sessionVars, closingVars, steady, call>>

\* A write that fails is logged, and the next session follows.
Write ==
  /\ writing # NoConn
  /\ writing' = NoConn
  /\ written' = IF Writable(writing) THEN written \cup {writing} ELSE written
  /\ UNCHANGED <<peer, closed, pc, active, acceptor, sessionVars, closingVars, todo, steady, call>>

HandleMessageReturns ==
  /\ call.at = "running"
  /\ todo = {} /\ writing = NoConn
  /\ call' = [call EXCEPT !.at = "ok"]
  /\ UNCHANGED <<peer, closed, pc, active, acceptor, sessionVars, closingVars, todo, writing,
                 written, steady>>

-----------------------------------------------------------------------------
Handler(c) ==
  \/ BindFails(c) \/ BindAccepted(c) \/ Register(c)
  \/ LoopTop(c) \/ ReadMessage(c) \/ ReadUnbind(c) \/ ReadTimesOut(c) \/ ReadFails(c)
  \/ SetClosed(c) \/ RemoveSession(c) \/ HandlerEnds(c)

AcceptLoop == CheckLimit \/ AcceptFails \/ \E c \in Conns : Accept(c)

CloseSession(k) == CloseConn(k) \/ MarkClosed(k)

StopSteps ==
  StopCloses \/ CloseAllEnds \/ StopReturns \/ \E c \in Conns : CloseAllVisits(c)

Next ==
  \/ \E c \in Conns : Dial(c) \/ Degrade(c) \/ Handler(c) \/ GrowIdle(c) \/ AskClose(c)
  \/ \E c \in Conns : ProbeSent(c) \/ ProbeFails(c) \/ CleanPick(c) \/ SendTo(c)
  \/ AcceptLoop
  \/ ResetMisses \/ HeartbeatExits
  \/ LoadSession \/ \E k \in Closers : CloseSession(k)
  \/ CleanDelete
  \/ StopCancels \/ StopSteps
  \/ CallHandleMessage \/ Write \/ HandleMessageReturns

Spec == Init /\ [][Next]_vars

\* Goroutines that can run do; reads, writes and waits have deadlines or
\* tickers.  Nobody has to dial, to stop the server, to close a session or to
\* be idle.
Fairness ==
  /\ WF_vars(AcceptLoop)
  /\ \A c \in Conns :
       /\ WF_vars(Handler(c))
       /\ WF_vars(ProbeFails(c))
       /\ WF_vars(CleanPick(c))
  /\ WF_vars(LoadSession) /\ WF_vars(ResetMisses) /\ WF_vars(HeartbeatExits) /\ WF_vars(CleanDelete)
  /\ \A k \in Closers : WF_vars(CloseSession(k))
  /\ WF_vars(StopSteps)

LiveSpec == Spec /\ Fairness

-----------------------------------------------------------------------------
TypeOK ==
  /\ peer \in [Conns -> {"away", "dialled", "up", "silent", "deaf", "broken"}]
  /\ closed \subseteq Conns
  /\ pc \in [Conns -> {"none", "bind", "register", "loop", "read",
                       "leave", "remove", "close", "end"}]
  /\ status \in [Conns -> {"start", "connected", "closed"}]
  /\ registered \subseteq Conns
  /\ idle \in [Conns -> 0..MaxIdle]
  /\ misses \in [Conns -> 0..MissThreshold]
  /\ active \in Nat
  /\ acceptor \in {"check", "accept", "exited"}
  /\ closer \in [Closers -> [at : {"none", "sent", "asked", "loaded", "marking", "exited"},
                             conn : Conns \cup {NoConn}]]
  /\ cleaning \in Conns \cup {NoConn}
  /\ stop \in {"no", "cancelled", "closing", "waiting", "stopped"}
  /\ toClose \subseteq Conns
  /\ todo \subseteq Conns
  /\ writing \in Conns \cup {NoConn}
  /\ written \subseteq Conns
  /\ steady \subseteq Conns
  /\ call \in [at : {"idle", "running", "ok", "error"}, made : 0..MaxDeliveries]

\* Connections with a live handler never exceed MaxConnections, though the
\* limit is read in one step and the counter raised in a later one.
ConnectionLimit ==
  MaxConnections > 0 =>
    Cardinality({c \in Conns : pc[c] \notin {"none", "end"}}) <= MaxConnections

\* A session in the map has a handler still serving it or leaving it: none of
\* the five places that add or delete sessions leaves a dead one behind.
RegisteredIsServed ==
  \A c \in registered : pc[c] \in {"loop", "read", "leave", "remove"}

\* Once Stop has returned the accept loop and all handlers have ended and no
\* session or open connection is left: also for a peer that was binding while
\* CloseAll went over the sessions.  (The session manager's cleaner is not
\* waited for and may go on; it finds nothing.)
StopLeavesNothing ==
  stop = "stopped" =>
    /\ registered = {}
    /\ active = 0
    /\ HandlersEnded
    /\ acceptor = "exited"
    /\ \A c \in Conns : peer[c] \in {"away", "dialled"} \/ c \in closed

\* A session somebody has closed is not given messages again: its status never
\* goes back, whatever the heartbeat loop, the API and the handler do at once.
ClosedForGood ==
  [][\A c \in Conns : status[c] = "closed" => status'[c] = "closed"]_vars

\* A session that could receive from the call of HandleMessage to its return
\* was written to, whatever happened to the other sessions meanwhile.
SteadyIsWritten == call.at = "ok" => steady \subseteq written

\* The server implements Membership: however the accept loop, handlers, heartbeat
\* loop, cleaner, web API and Stop interleave, each connection goes its way in
\* one direction and within the limit, and a message is written only to sessions
\* that were in the map when their turn came, though the list was taken earlier.
\* A write to a connection that has been closed is as good as none.
\* (acceptLoop 141-178, handleConnection 229-307, HandleMessage 718-764.)
PlaceOf(c) ==
  CASE pc[c] = "none"                 -> "outside"
    [] pc[c] = "end"                  -> "gone"
    [] pc[c] \in {"bind", "register"} -> "admitted"
    [] OTHER                          -> IF c \in registered THEN "member" ELSE "left"

Place == [c \in Conns |-> PlaceOf(c)]

Chosen == IF writing \in closed THEN NoConn ELSE writing

Members == INSTANCE Membership
             WITH Peers <- Conns, Limit <- MaxConnections, place <- Place,
                  Nobody <- NoConn, audience <- todo, reached <- written,
                  chosen <- Chosen, shut <- (stop = "stopped")

ImplementsMembership == Members!Spec

Gone(c) == c \notin registered

\* Each way in which a session stops being served ends it by its own means:
\* one that cannot be written to is closed by the heartbeats it is due for,
\* without waiting for the cleaner's day, unless it is heard from (heartbeats
\* go to idle sessions only); one that has been idle for a day is
\* closed by the cleaner, unless it is heard from; one whose connection broke
\* is removed and its handler ends.
\* (checkSessionHeartbeats 193-226, cleanupSessions 47-66, handleSession 310-345.)
UnservedIsDropped ==
  \A c \in Conns :
    /\ (c \in registered /\ peer[c] = "deaf" /\ idle[c] > 0) ~> (Gone(c) \/ idle[c] = 0)
    /\ (c \in registered /\ idle[c] = 2) ~> (Gone(c) \/ idle[c] # 2)
    /\ (pc[c] # "none" /\ peer[c] = "broken") ~> (Gone(c) /\ pc[c] = "end")

\* Stop returns, whatever the handlers were doing when it was called.
StopTerminates == (stop = "cancelled") ~> (stop = "stopped")
=============================================================================
