-------------------------- MODULE SMMCServerProofs --------------------------
(***************************************************************************)
(* Proofs about SMMCServer for any number of connections, any limit and    *)
(* any threshold: its safety invariants and ClosedForGood, from one        *)
(* inductive invariant.                                                    *)
(***************************************************************************)
EXTENDS SMMCServer, FiniteSetTheorems, TLAPS

(***************************************************************************)
(* The inductive invariant, in four parts besides the types.               *)
(*                                                                         *)
(* Sessions: how far a handler is tells what can be known of its           *)
(* connection and session; a CloseSession call never holds a session that  *)
(* is not registered yet, and marks only what it has closed.               *)
(***************************************************************************)
Served(c) == pc[c] \notin {"none", "bind", "register"}

AcceptedHasHandler ==
  \A c \in Conns : peer[c] \in {"away", "dialled"} <=> pc[c] = "none"

EndedIsClosed == \A c \in Conns : pc[c] = "end" => c \in closed

UnservedIsFresh == \A c \in Conns : ~Served(c) => status[c] = "start"

LeavingIsNotConnected ==
  \A c \in Conns : pc[c] \in {"remove", "close", "end"} => status[c] # "connected"

ClosersHoldSessions ==
  \A k \in Closers :
    /\ closer[k].at \in {"sent", "asked", "loaded", "marking"} =>
         closer[k].conn \in Conns /\ Served(closer[k].conn)
    /\ closer[k].at = "marking" => closer[k].conn \in closed

Sessions ==
  /\ AcceptedHasHandler
  /\ EndedIsClosed
  /\ UnservedIsFresh
  /\ RegisteredIsServed
  /\ LeavingIsNotConnected
  /\ ClosersHoldSessions

(***************************************************************************)
(* Counting: the counter is the number of live handlers, and between the   *)
(* check of the limit and the accept nobody but the accept loop raises it. *)
(***************************************************************************)
Live == {c \in Conns : pc[c] \notin {"none", "end"}}

Counting ==
  /\ IsFiniteSet(Live) /\ active = Cardinality(Live)
  /\ MaxConnections > 0 =>
       active <= MaxConnections /\ (acceptor = "accept" => active < MaxConnections)

(***************************************************************************)
(* Delivery: a session that has been able to receive since HandleMessage   *)
(* was called has not been passed over.                                    *)
(***************************************************************************)
Delivery ==
  /\ \A c \in steady : status[c] = "connected" /\ Writable(c)
  /\ call.at = "running" => steady \subseteq todo \cup {writing} \cup written
  /\ SteadyIsWritten

IInv ==
  /\ TypeOK
  /\ Sessions
  /\ Counting
  /\ Delivery
  /\ StopLeavesNothing

LEMMA InitIInv == Init => IInv
<1> SUFFICES ASSUME Init PROVE IInv
  OBVIOUS
<1> USE ServerAssumption DEF Init, ServerAssumption
<1>1. TypeOK
  BY DEF TypeOK, NoCall, Closers
<1>2. Sessions
  BY DEF Sessions, AcceptedHasHandler, EndedIsClosed, UnservedIsFresh, RegisteredIsServed,
         LeavingIsNotConnected, ClosersHoldSessions, Served, NoCall, Closers
<1>3. Counting
  <2>1. Live = {}
    BY DEF Live
  <2>2. QED
    BY <2>1, FS_EmptySet DEF Counting
<1>4. Delivery /\ StopLeavesNothing
  BY DEF Delivery, SteadyIsWritten, StopLeavesNothing
<1>5. QED
  BY <1>1, <1>2, <1>3, <1>4 DEF IInv

(***************************************************************************)
(* What a step leaves alone keeps the parts that depend on nothing else.   *)
(***************************************************************************)
LEMMA SessionsKept ==
  ASSUME Sessions, UNCHANGED <<peer, closed, pc, status, registered, closer>>
  PROVE  Sessions'
BY DEF Sessions, AcceptedHasHandler, EndedIsClosed, UnservedIsFresh, RegisteredIsServed,
       LeavingIsNotConnected, ClosersHoldSessions, Served

LEMMA CountingKept ==
  ASSUME Counting, Live' = Live, UNCHANGED <<active, acceptor>>
  PROVE  Counting'
BY DEF Counting

LEMMA LiveKept ==
  ASSUME UNCHANGED pc
  PROVE  Live' = Live
BY DEF Live

LEMMA DeliveryKept ==
  ASSUME Delivery, UNCHANGED <<peer, closed, status, todo, writing, written, steady, call>>
  PROVE  Delivery'
BY DEF Delivery, SteadyIsWritten, Writable

LEMMA StopKept ==
  ASSUME StopLeavesNothing, UNCHANGED <<stop, registered, active, pc, acceptor, peer, closed>>
  PROVE  StopLeavesNothing'
BY DEF StopLeavesNothing, HandlersEnded

(***************************************************************************)
(* The far end dials, or stops sending, receiving or existing.             *)
(***************************************************************************)
LEMMA NetworkKeeps ==
  ASSUME IInv, NEW c \in Conns,
         \/ Dial(c) \/ Degrade(c)
  PROVE  IInv'
<1> USE ServerAssumption DEF IInv, ServerAssumption, TypeOK, sessionVars, closingVars,
        deliveryVars, Dial, Degrade
<1>1. TypeOK'
  BY DEF NoCall, Closers
<1>2. Sessions'
  BY DEF Sessions, AcceptedHasHandler, EndedIsClosed, UnservedIsFresh,
         RegisteredIsServed, LeavingIsNotConnected, ClosersHoldSessions, Served, Closers, NoCall
<1>3. Counting'
  BY LiveKept, CountingKept
<1>4. Delivery'
  BY DEF Delivery, SteadyIsWritten, Writable, Sessions, LeavingIsNotConnected,
         UnservedIsFresh, ClosersHoldSessions, Served
<1>5. StopLeavesNothing'
  BY DEF StopLeavesNothing, HandlersEnded, ListenerClosed, Sessions, RegisteredIsServed, Served
<1>6. QED
  BY <1>1, <1>2, <1>3, <1>4, <1>5

(***************************************************************************)
(* The accept loop checks the limit, or its Accept fails.                  *)
(***************************************************************************)
LEMMA AcceptorKeeps ==
  ASSUME IInv,
         \/ CheckLimit \/ AcceptFails
  PROVE  IInv'
<1> USE ServerAssumption DEF IInv, ServerAssumption, TypeOK, sessionVars, closingVars,
        deliveryVars, CheckLimit, AcceptFails
<1>1. TypeOK'
  BY DEF NoCall, Closers
<1>2. Sessions'
  BY SessionsKept
<1>3. Counting'
  BY DEF Counting, Live
<1>4. Delivery'
  BY DeliveryKept
<1>5. StopLeavesNothing'
  BY DEF StopLeavesNothing, HandlersEnded, ListenerClosed, Sessions, RegisteredIsServed, Served
<1>6. QED
  BY <1>1, <1>2, <1>3, <1>4, <1>5

(***************************************************************************)
(* A connection is accepted: one more handler, for which there was room.   *)
(***************************************************************************)
LEMMA AcceptKeeps ==
  ASSUME IInv, NEW c \in Conns, Accept(c)
  PROVE  IInv'
<1> USE ServerAssumption DEF IInv, ServerAssumption, TypeOK, sessionVars, closingVars,
        deliveryVars, Accept
<1>1. TypeOK'
  BY DEF NoCall, Closers
<1>2. Sessions'
  BY DEF Sessions, AcceptedHasHandler, EndedIsClosed, UnservedIsFresh,
         RegisteredIsServed, LeavingIsNotConnected, ClosersHoldSessions, Served, Closers, NoCall
<1>3. Counting'
  <2>1. Live' = Live \cup {c} /\ c \notin Live
    BY DEF Live, Sessions, AcceptedHasHandler
  <2>2. Cardinality(Live \cup {c}) = Cardinality(Live) + 1 /\ IsFiniteSet(Live')
    BY <2>1, FS_AddElement DEF Counting
  <2>3. QED
    BY <2>1, <2>2 DEF Counting
<1>4. Delivery'
  BY DEF Delivery, SteadyIsWritten, Writable, Sessions, LeavingIsNotConnected,
         UnservedIsFresh, ClosersHoldSessions, Served
<1>5. StopLeavesNothing'
  BY DEF StopLeavesNothing, HandlersEnded, ListenerClosed, Sessions, RegisteredIsServed, Served
<1>6. QED
  BY <1>1, <1>2, <1>3, <1>4, <1>5

(***************************************************************************)
(* Steps of a handler that change its own place only, or are a sign of life. *)
(***************************************************************************)
LEMMA HandlerMoves ==
  ASSUME IInv, NEW c \in Conns,
         \/ BindFails(c) \/ BindAccepted(c) \/ LoopTop(c)
         \/ ReadMessage(c) \/ ReadUnbind(c) \/ ReadTimesOut(c)
         \/ ReadFails(c)
  PROVE  IInv'
<1> USE ServerAssumption DEF IInv, ServerAssumption, TypeOK, sessionVars, closingVars,
        deliveryVars, BindFails, BindAccepted, LoopTop, ReadMessage, ReadUnbind,
        ReadTimesOut, ReadFails
<1>1. TypeOK'
  BY DEF NoCall, Closers
<1>2. Sessions'
  BY DEF Sessions, AcceptedHasHandler, EndedIsClosed, UnservedIsFresh,
         RegisteredIsServed, LeavingIsNotConnected, ClosersHoldSessions, Served, Closers, NoCall
<1>3. Counting'
  <2>1. Live' = Live
    BY DEF Live
  <2>2. QED
    BY <2>1, CountingKept
<1>4. Delivery'
  BY DeliveryKept
<1>5. StopLeavesNothing'
  BY DEF StopLeavesNothing, HandlersEnded, ListenerClosed, Sessions, RegisteredIsServed, Served
<1>6. QED
  BY <1>1, <1>2, <1>3, <1>4, <1>5

(***************************************************************************)
(* A session is registered, by its own handler.                            *)
(***************************************************************************)
LEMMA RegisterKeeps ==
  ASSUME IInv, NEW c \in Conns, Register(c)
  PROVE  IInv'
<1> USE ServerAssumption DEF IInv, ServerAssumption, TypeOK, sessionVars, closingVars,
        deliveryVars, Register
<1>1. TypeOK'
  BY DEF NoCall, Closers
<1>2. Sessions'
  BY DEF Sessions, AcceptedHasHandler, EndedIsClosed, UnservedIsFresh,
         RegisteredIsServed, LeavingIsNotConnected, ClosersHoldSessions, Served, Closers, NoCall
<1>3. Counting'
  <2>1. Live' = Live
    BY DEF Live
  <2>2. QED
    BY <2>1, CountingKept
<1>4. Delivery'
  BY DEF Delivery, SteadyIsWritten, Writable, Sessions, LeavingIsNotConnected,
         UnservedIsFresh, ClosersHoldSessions, Served
<1>5. StopLeavesNothing'
  BY DEF StopLeavesNothing, HandlersEnded, ListenerClosed, Sessions, RegisteredIsServed, Served
<1>6. QED
  BY <1>1, <1>2, <1>3, <1>4, <1>5

(***************************************************************************)
(* A handler marks its session closed, then removes it.                    *)
(***************************************************************************)
LEMMA LeaveKeeps ==
  ASSUME IInv, NEW c \in Conns,
         \/ SetClosed(c) \/ RemoveSession(c)
  PROVE  IInv'
<1> USE ServerAssumption DEF IInv, ServerAssumption, TypeOK, sessionVars, closingVars,
        deliveryVars, SetClosed, RemoveSession
<1>1. TypeOK'
  BY DEF NoCall, Closers
<1>2. Sessions'
  BY DEF Sessions, AcceptedHasHandler, EndedIsClosed, UnservedIsFresh,
         RegisteredIsServed, LeavingIsNotConnected, ClosersHoldSessions, Served, Closers, NoCall
<1>3. Counting'
  <2>1. Live' = Live
    BY DEF Live
  <2>2. QED
    BY <2>1, CountingKept
<1>4. Delivery'
  BY DEF Delivery, SteadyIsWritten, Writable, Sessions, LeavingIsNotConnected,
         UnservedIsFresh, ClosersHoldSessions, Served
<1>5. StopLeavesNothing'
  BY DEF StopLeavesNothing, HandlersEnded, ListenerClosed, Sessions, RegisteredIsServed, Served
<1>6. QED
  BY <1>1, <1>2, <1>3, <1>4, <1>5

(***************************************************************************)
(* A handler ends: one fewer.                                              *)
(***************************************************************************)
LEMMA HandlerEndsKeeps ==
  ASSUME IInv, NEW c \in Conns, HandlerEnds(c)
  PROVE  IInv'
<1> USE ServerAssumption DEF IInv, ServerAssumption, TypeOK, sessionVars, closingVars,
        deliveryVars, HandlerEnds
<1>3. Counting'
  <2>1. Live' = Live \ {c} /\ c \in Live
    BY DEF Live
  <2>2. Cardinality(Live \ {c}) = Cardinality(Live) - 1 /\ IsFiniteSet(Live')
    BY <2>1, FS_RemoveElement DEF Counting
  <2>3. QED
    BY <2>1, <2>2 DEF Counting
<1>1. TypeOK'
  <2>1. active' \in Nat
    BY <1>3, FS_CardinalityType DEF Counting
  <2>2. QED
    BY <2>1
<1>2. Sessions'
  BY DEF Sessions, AcceptedHasHandler, EndedIsClosed, UnservedIsFresh,
         RegisteredIsServed, LeavingIsNotConnected, ClosersHoldSessions, Served, Closers, NoCall
<1>4. Delivery'
  BY DEF Delivery, SteadyIsWritten, Writable, Sessions, LeavingIsNotConnected,
         UnservedIsFresh, ClosersHoldSessions, Served
<1>5. StopLeavesNothing'
  BY DEF StopLeavesNothing, HandlersEnded, ListenerClosed, Sessions, RegisteredIsServed, Served
<1>6. QED
  BY <1>1, <1>2, <1>3, <1>4, <1>5

(***************************************************************************)
(* A heartbeat is written or fails; the API finds a session to close.      *)
(***************************************************************************)
LEMMA HeartbeatKeeps ==
  ASSUME IInv, NEW c \in Conns,
         \/ ProbeSent(c) \/ ProbeFails(c) \/ AskClose(c)
  PROVE  IInv'
<1> USE ServerAssumption DEF IInv, ServerAssumption, TypeOK, sessionVars, closingVars,
        deliveryVars, ProbeSent, ProbeFails, AskClose, Probe
<1>1. TypeOK'
  BY DEF NoCall, Closers
<1>2. Sessions'
  BY DEF Sessions, AcceptedHasHandler, EndedIsClosed, UnservedIsFresh,
         RegisteredIsServed, LeavingIsNotConnected, ClosersHoldSessions, Served, Closers, NoCall
<1>3. Counting'
  BY LiveKept, CountingKept
<1>4. Delivery'
  BY DeliveryKept
<1>5. StopLeavesNothing'
  BY StopKept
<1>6. QED
  BY <1>1, <1>2, <1>3, <1>4, <1>5

(***************************************************************************)
(* The heartbeat loop goes on with the session it has, or exits.           *)
(***************************************************************************)
LEMMA HeartbeatGoesOn ==
  ASSUME IInv,
         \/ ResetMisses \/ HeartbeatExits \/ LoadSession
  PROVE  IInv'
<1> USE ServerAssumption DEF IInv, ServerAssumption, TypeOK, sessionVars, closingVars,
        deliveryVars, ResetMisses, HeartbeatExits, LoadSession
<1>1. TypeOK'
  BY DEF NoCall, Closers, Sessions, ClosersHoldSessions
<1>2. Sessions'
  BY DEF Sessions, AcceptedHasHandler, EndedIsClosed, UnservedIsFresh,
         RegisteredIsServed, LeavingIsNotConnected, ClosersHoldSessions, Served, Closers, NoCall
<1>3. Counting'
  BY LiveKept, CountingKept
<1>4. Delivery'
  BY DeliveryKept
<1>5. StopLeavesNothing'
  BY StopKept
<1>6. QED
  BY <1>1, <1>2, <1>3, <1>4, <1>5

(***************************************************************************)
(* A connection is closed by a caller of CloseSession.                     *)
(***************************************************************************)
LEMMA CloseConnKeeps ==
  ASSUME IInv, NEW k \in Closers, CloseConn(k)
  PROVE  IInv'
<1> USE ServerAssumption DEF IInv, ServerAssumption, TypeOK, sessionVars, closingVars,
        deliveryVars, CloseConn
<1>1. TypeOK'
  BY DEF NoCall, Closers, Sessions, ClosersHoldSessions
<1>2. Sessions'
  BY DEF Sessions, AcceptedHasHandler, EndedIsClosed, UnservedIsFresh,
         RegisteredIsServed, LeavingIsNotConnected, ClosersHoldSessions, Served, Closers, NoCall
<1>3. Counting'
  BY LiveKept, CountingKept
<1>4. Delivery'
  BY DEF Delivery, SteadyIsWritten, Writable, Sessions, LeavingIsNotConnected,
         UnservedIsFresh, ClosersHoldSessions, Served
<1>5. StopLeavesNothing'
  BY DEF StopLeavesNothing, HandlersEnded, ListenerClosed, Sessions, RegisteredIsServed, Served
<1>6. QED
  BY <1>1, <1>2, <1>3, <1>4, <1>5

(***************************************************************************)
(* A connection is closed by the cleaner or by CloseAll.                   *)
(***************************************************************************)
LEMMA CloseKeeps ==
  ASSUME IInv, NEW c \in Conns,
         \/ CleanPick(c) \/ CloseAllVisits(c)
  PROVE  IInv'
<1> USE ServerAssumption DEF IInv, ServerAssumption, TypeOK, sessionVars, closingVars,
        deliveryVars, CleanPick, CloseAllVisits
<1>1. TypeOK'
  BY DEF NoCall, Closers
<1>2. Sessions'
  BY DEF Sessions, AcceptedHasHandler, EndedIsClosed, UnservedIsFresh,
         RegisteredIsServed, LeavingIsNotConnected, ClosersHoldSessions, Served, Closers, NoCall
<1>3. Counting'
  BY LiveKept, CountingKept
<1>4. Delivery'
  BY DEF Delivery, SteadyIsWritten, Writable, Sessions, LeavingIsNotConnected,
         UnservedIsFresh, ClosersHoldSessions, Served
<1>5. StopLeavesNothing'
  BY DEF StopLeavesNothing, HandlersEnded, ListenerClosed, Sessions, RegisteredIsServed, Served
<1>6. QED
  BY <1>1, <1>2, <1>3, <1>4, <1>5

(***************************************************************************)
(* A closed session is marked and deleted.                                 *)
(***************************************************************************)
LEMMA MarkClosedKeeps ==
  ASSUME IInv, NEW k \in Closers, MarkClosed(k)
  PROVE  IInv'
<1> USE ServerAssumption DEF IInv, ServerAssumption, TypeOK, sessionVars, closingVars,
        deliveryVars, MarkClosed
<1>1. TypeOK'
  BY DEF NoCall, Closers
<1>2. Sessions'
  BY DEF Sessions, AcceptedHasHandler, EndedIsClosed, UnservedIsFresh,
         RegisteredIsServed, LeavingIsNotConnected, ClosersHoldSessions, Served, Closers, NoCall
<1>3. Counting'
  BY LiveKept, CountingKept
<1>4. Delivery'
  BY DEF Delivery, SteadyIsWritten, Writable, Sessions, LeavingIsNotConnected,
         UnservedIsFresh, ClosersHoldSessions, Served
<1>5. StopLeavesNothing'
  BY DEF StopLeavesNothing, HandlersEnded, ListenerClosed, Sessions, RegisteredIsServed, Served
<1>6. QED
  BY <1>1, <1>2, <1>3, <1>4, <1>5

(***************************************************************************)
(* Time passes.                                                            *)
(***************************************************************************)
LEMMA GrowIdleKeeps ==
  ASSUME IInv, NEW c \in Conns, GrowIdle(c)
  PROVE  IInv'
<1> USE ServerAssumption DEF IInv, ServerAssumption, TypeOK, sessionVars, closingVars,
        deliveryVars, GrowIdle
<1>1. TypeOK'
  BY DEF NoCall, Closers
<1>2. Sessions'
  BY SessionsKept
<1>3. Counting'
  BY LiveKept, CountingKept
<1>4. Delivery'
  BY DeliveryKept
<1>5. StopLeavesNothing'
  BY StopKept
<1>6. QED
  BY <1>1, <1>2, <1>3, <1>4, <1>5

(***************************************************************************)
(* The cleaner deletes the session it closed, or Stop goes on.             *)
(***************************************************************************)
LEMMA StopGoesOnKeeps ==
  ASSUME IInv,
         \/ CleanDelete \/ StopCancels \/ StopCloses
         \/ CloseAllEnds
  PROVE  IInv'
<1> USE ServerAssumption DEF IInv, ServerAssumption, TypeOK, sessionVars, closingVars,
        deliveryVars, CleanDelete, StopCancels, StopCloses, CloseAllEnds
<1>1. TypeOK'
  BY DEF NoCall, Closers
<1>2. Sessions'
  BY DEF Sessions, AcceptedHasHandler, EndedIsClosed, UnservedIsFresh,
         RegisteredIsServed, LeavingIsNotConnected, ClosersHoldSessions, Served, Closers, NoCall
<1>3. Counting'
  BY LiveKept, CountingKept
<1>4. Delivery'
  BY DeliveryKept
<1>5. StopLeavesNothing'
  BY DEF StopLeavesNothing, HandlersEnded, ListenerClosed, Sessions, RegisteredIsServed, Served
<1>6. QED
  BY <1>1, <1>2, <1>3, <1>4, <1>5

(***************************************************************************)
(* Stop returns: no handler is left, hence no session and nothing to count. *)
(***************************************************************************)
LEMMA StopReturnsKeeps ==
  ASSUME IInv, StopReturns
  PROVE  IInv'
<1> USE ServerAssumption DEF IInv, ServerAssumption, TypeOK, sessionVars, closingVars,
        deliveryVars, StopReturns
<1>1. TypeOK'
  BY DEF NoCall, Closers
<1>2. Sessions'
  BY SessionsKept
<1>3. Counting'
  BY LiveKept, CountingKept
<1>4. Delivery'
  BY DeliveryKept
<1>5. StopLeavesNothing'
  <2>1. registered = {}
    BY DEF HandlersEnded, Sessions, RegisteredIsServed
  <2>2. active = 0
    <3>1. Live = {}
      BY DEF Live, HandlersEnded
    <3>2. QED
      BY <3>1, FS_EmptySet DEF Counting
  <2>3. \A c \in Conns : peer[c] \in {"away", "dialled"} \/ c \in closed
    BY DEF HandlersEnded, Sessions, AcceptedHasHandler, EndedIsClosed
  <2>4. QED
    BY <2>1, <2>2, <2>3 DEF StopLeavesNothing, HandlersEnded
<1>6. QED
  BY <1>1, <1>2, <1>3, <1>4, <1>5

(***************************************************************************)
(* HandleMessage finds a session connected or passes over it, and writes.  *)
(***************************************************************************)
LEMMA SendToKeeps ==
  ASSUME IInv, Write \/ \E c \in Conns : SendTo(c)
  PROVE  IInv'
<1> USE ServerAssumption DEF IInv, ServerAssumption, TypeOK, sessionVars, closingVars,
        deliveryVars, SendTo, Write
<1>1. TypeOK'
  BY DEF NoCall, Closers
<1>2. Sessions'
  BY SessionsKept
<1>3. Counting'
  BY LiveKept, CountingKept
<1>4. Delivery'
  BY DEF Delivery, SteadyIsWritten, Writable, Sessions, LeavingIsNotConnected,
         UnservedIsFresh, ClosersHoldSessions, Served
<1>5. StopLeavesNothing'
  BY StopKept
<1>6. QED
  BY <1>1, <1>2, <1>3, <1>4, <1>5

(***************************************************************************)
(* HandleMessage is called, or returns.                                    *)
(***************************************************************************)
LEMMA DeliveryKeeps ==
  ASSUME IInv,
         \/ CallHandleMessage \/ HandleMessageReturns
  PROVE  IInv'
<1> USE ServerAssumption DEF IInv, ServerAssumption, TypeOK, sessionVars, closingVars,
        deliveryVars, CallHandleMessage, HandleMessageReturns
<1>1. TypeOK'
  BY DEF NoCall, Closers
<1>2. Sessions'
  BY SessionsKept
<1>3. Counting'
  BY LiveKept, CountingKept
<1>4. Delivery'
  BY DEF Delivery, SteadyIsWritten, Writable, Sessions, LeavingIsNotConnected,
         UnservedIsFresh, ClosersHoldSessions, Served
<1>5. StopLeavesNothing'
  BY StopKept
<1>6. QED
  BY <1>1, <1>2, <1>3, <1>4, <1>5

-----------------------------------------------------------------------------
LEMMA NextIInv == IInv /\ [Next]_vars => IInv'
<1> SUFFICES ASSUME IInv, [Next]_vars PROVE IInv'
  OBVIOUS
<1>1. CASE UNCHANGED vars
  <2> USE <1>1 DEF IInv, vars
  <2>1. TypeOK'
    BY DEF TypeOK
  <2>2. QED
    BY <2>1, SessionsKept, LiveKept, CountingKept, DeliveryKept, StopKept
<1>2. CASE Next
  <2>1. CASE \E c \in Conns : Dial(c) \/ Degrade(c)
    BY <2>1, NetworkKeeps
  <2>2. CASE AcceptLoop
    BY <2>2, AcceptorKeeps, AcceptKeeps DEF AcceptLoop
  <2>3. CASE \E c \in Conns : Handler(c)
    BY <2>3, HandlerMoves, RegisterKeeps, LeaveKeeps, HandlerEndsKeeps DEF Handler
  <2>4. CASE \/ \E c \in Conns : ProbeSent(c) \/ ProbeFails(c) \/ AskClose(c)
             \/ ResetMisses \/ HeartbeatExits \/ LoadSession
    <3>1. CASE \E c \in Conns : ProbeSent(c) \/ ProbeFails(c) \/ AskClose(c)
      BY <3>1, HeartbeatKeeps
    <3>2. CASE ResetMisses \/ HeartbeatExits \/ LoadSession
      BY <3>2, HeartbeatGoesOn
    <3>3. QED
      BY <2>4, <3>1, <3>2
  <2>5. CASE \E k \in Closers : CloseSession(k)
    BY <2>5, CloseConnKeeps, MarkClosedKeeps DEF CloseSession
  <2>6. CASE \E c \in Conns : CleanPick(c) \/ CloseAllVisits(c)
    BY <2>6, CloseKeeps
  <2>7. CASE (\E c \in Conns : GrowIdle(c)) \/ CleanDelete \/ StopCancels \/ StopCloses \/ CloseAllEnds
    BY <2>7, GrowIdleKeeps, StopGoesOnKeeps
  <2>8. CASE StopReturns
    BY <2>8, StopReturnsKeeps
  <2>9. CASE CallHandleMessage \/ Write \/ HandleMessageReturns \/ \E c \in Conns : SendTo(c)
    BY <2>9, DeliveryKeeps, SendToKeeps
  <2>10. QED
    BY <1>2, <2>1, <2>2, <2>3, <2>4, <2>5, <2>6, <2>7, <2>8, <2>9 DEF Next, StopSteps
<1>3. QED
  BY <1>1, <1>2

-----------------------------------------------------------------------------
(***************************************************************************)
(* The invariant holds in every state: the handlers, the heartbeat loop,   *)
(* the cleaner, the API, HandleMessage and Stop may interleave as they     *)
(* will.                                                                   *)
(***************************************************************************)
THEOREM Inductive == Spec => []IInv
BY InitIInv, NextIInv, PTL DEF Spec

(***************************************************************************)
(* The state keeps its types; the connection counter never goes below 0.   *)
(***************************************************************************)
THEOREM TypeCorrect == Spec => []TypeOK
<1>1. IInv => TypeOK
  BY DEF IInv
<1>2. QED
  BY <1>1, Inductive, PTL

(***************************************************************************)
(* No interleaving of the accept loop with the handlers lets more than     *)
(* MaxConnections of them live.                                            *)
(***************************************************************************)
THEOREM LimitHolds == Spec => []ConnectionLimit
<1>1. IInv => ConnectionLimit
  BY DEF IInv, Counting, ConnectionLimit, Live
<1>2. QED
  BY <1>1, Inductive, PTL

(***************************************************************************)
(* A session in the map has a handler that is serving it or leaving it.    *)
(***************************************************************************)
THEOREM SessionsServed == Spec => []RegisteredIsServed
<1>1. IInv => RegisteredIsServed
  BY DEF IInv, Sessions
<1>2. QED
  BY <1>1, Inductive, PTL

(***************************************************************************)
(* When Stop has returned no session, handler, counted connection or open  *)
(* socket is left.                                                         *)
(***************************************************************************)
THEOREM NothingLeftAfterStop == Spec => []StopLeavesNothing
<1>1. IInv => StopLeavesNothing
  BY DEF IInv
<1>2. QED
  BY <1>1, Inductive, PTL

(***************************************************************************)
(* A session able to receive throughout a HandleMessage was written to.    *)
(***************************************************************************)
THEOREM NobodyPassedOver == Spec => []SteadyIsWritten
<1>1. IInv => SteadyIsWritten
  BY DEF IInv, Delivery
<1>2. QED
  BY <1>1, Inductive, PTL

(***************************************************************************)
(* Who changes the status of a session.                                    *)
(***************************************************************************)
LEMMA StatusSteps ==
  ASSUME [Next]_vars
  PROVE  \/ status' = status
         \/ \E d \in Conns : Register(d) \/ SetClosed(d)
         \/ \E k \in Closers : MarkClosed(k)
<1>1. CASE UNCHANGED vars
  BY <1>1 DEF vars
<1>2. CASE \E c \in Conns : Handler(c)
  BY <1>2 DEF Handler, sessionVars, BindFails, BindAccepted, LoopTop, ReadMessage, ReadUnbind,
       ReadTimesOut, ReadFails, RemoveSession, HandlerEnds
<1>3. CASE \E c \in Conns : \/ Dial(c) \/ Degrade(c) \/ GrowIdle(c) \/ AskClose(c)
                            \/ ProbeSent(c) \/ ProbeFails(c) \/ CleanPick(c) \/ SendTo(c)
  BY <1>3 DEF sessionVars, Dial, Degrade, GrowIdle, AskClose, ProbeSent, ProbeFails,
       CleanPick, SendTo
<1>4. CASE AcceptLoop
  BY <1>4 DEF AcceptLoop, sessionVars, CheckLimit, AcceptFails, Accept
<1>5. CASE \E k \in Closers : CloseSession(k)
  BY <1>5 DEF CloseSession, sessionVars, CloseConn
<1>6. CASE \/ ResetMisses \/ HeartbeatExits \/ LoadSession \/ CleanDelete
          \/ CallHandleMessage \/ Write \/ HandleMessageReturns
  BY <1>6 DEF sessionVars, ResetMisses, HeartbeatExits, LoadSession, CleanDelete,
       CallHandleMessage, Write, HandleMessageReturns
<1>7. CASE StopCancels \/ StopSteps
  BY <1>7 DEF StopSteps, sessionVars, StopCancels, StopCloses, CloseAllEnds, StopReturns,
       CloseAllVisits
<1>8. QED
  BY <1>1, <1>2, <1>3, <1>4, <1>5, <1>6, <1>7 DEF Next

(***************************************************************************)
(* A closed session stays closed: only Register makes a session connected, *)
(* and it does so before anybody who could close it can see it.            *)
(***************************************************************************)
THEOREM ClosedStays == Spec => ClosedForGood
<1>1. ASSUME IInv, [Next]_vars, NEW c \in Conns, status[c] = "closed"
      PROVE  status'[c] = "closed"
  <2> USE <1>1
  <2>1. CASE status' = status
    BY <2>1
  <2>2. CASE \E d \in Conns : Register(d)
    BY <2>2 DEF Register, IInv, TypeOK, Sessions, UnservedIsFresh, Served
  <2>3. CASE \E d \in Conns : SetClosed(d)
    BY <2>3 DEF SetClosed, IInv, TypeOK
  <2>4. CASE \E k \in Closers : MarkClosed(k)
    BY <2>4 DEF MarkClosed, IInv, TypeOK
  <2>5. QED
    BY <2>1, <2>2, <2>3, <2>4, StatusSteps
<1>2. IInv /\ [Next]_vars =>
        [\A c \in Conns : status[c] = "closed" => status'[c] = "closed"]_vars
  BY <1>1
<1>3. QED
  BY <1>2, Inductive, PTL DEF Spec, ClosedForGood

-----------------------------------------------------------------------------
(***************************************************************************)
(* The server implements Membership.  What that needs besides IInv: a      *)
(* session that looks fit to be written to is in the map, because whoever  *)
(* deletes one has closed or marked it before; and a message is done with  *)
(* before the next one.                                                    *)
(***************************************************************************)
FitIsRegistered ==
  \A c \in Conns : status[c] = "connected" /\ c \notin closed => c \in registered

CleanedIsClosed == cleaning # NoConn => cleaning \in closed

DoneBeforeNext == call.at # "running" => todo = {} /\ writing = NoConn

MInv == IInv /\ FitIsRegistered /\ CleanedIsClosed /\ DoneBeforeNext

LEMMA InitMInv == Init => MInv
BY InitIInv DEF Init, MInv, FitIsRegistered, CleanedIsClosed, DoneBeforeNext

(***************************************************************************)
(* The steps that close, mark, delete or register a session.               *)
(***************************************************************************)
LEMMA FitKept ==
  ASSUME MInv, NEW c \in Conns,
         \/ Register(c) \/ SetClosed(c) \/ RemoveSession(c) \/ HandlerEnds(c)
         \/ CleanPick(c) \/ CleanDelete \/ CloseAllVisits(c)
         \/ \E k \in Closers : CloseConn(k) \/ MarkClosed(k)
  PROVE  FitIsRegistered' /\ CleanedIsClosed' /\ DoneBeforeNext'
<1> USE DEF MInv, IInv, TypeOK, FitIsRegistered, CleanedIsClosed, DoneBeforeNext,
            sessionVars, closingVars, deliveryVars
<1>1. CASE Register(c)
  BY <1>1 DEF Register
<1>2. CASE SetClosed(c)
  BY <1>2 DEF SetClosed
<1>3. CASE RemoveSession(c)
  BY <1>3 DEF RemoveSession, Sessions, LeavingIsNotConnected
<1>4. CASE HandlerEnds(c)
  BY <1>4 DEF HandlerEnds
<1>5. CASE CleanPick(c)
  BY <1>5 DEF CleanPick
<1>6. CASE CleanDelete
  BY <1>6 DEF CleanDelete
<1>7. CASE CloseAllVisits(c)
  BY <1>7 DEF CloseAllVisits
<1>8. ASSUME NEW k \in Closers, CloseConn(k)
      PROVE  FitIsRegistered' /\ CleanedIsClosed' /\ DoneBeforeNext'
  BY <1>8 DEF CloseConn
<1>9. ASSUME NEW k \in Closers, MarkClosed(k)
      PROVE  FitIsRegistered' /\ CleanedIsClosed' /\ DoneBeforeNext'
  BY <1>9 DEF MarkClosed
<1>10. QED
  BY <1>1, <1>2, <1>3, <1>4, <1>5, <1>6, <1>7, <1>8, <1>9

LEMMA SendingKept ==
  ASSUME MInv, CallHandleMessage \/ Write \/ HandleMessageReturns \/ \E c \in Conns : SendTo(c)
  PROVE  FitIsRegistered' /\ CleanedIsClosed' /\ DoneBeforeNext'
<1> USE DEF MInv, IInv, TypeOK, FitIsRegistered, CleanedIsClosed, DoneBeforeNext,
            sessionVars, closingVars, deliveryVars
<1>1. CASE CallHandleMessage
  BY <1>1 DEF CallHandleMessage
<1>2. CASE HandleMessageReturns
  BY <1>2 DEF HandleMessageReturns
<1>3. CASE \E c \in Conns : SendTo(c)
  BY <1>3 DEF SendTo
<1>4. CASE Write
  BY <1>4 DEF Write
<1>5. QED
  BY <1>1, <1>2, <1>3, <1>4

(***************************************************************************)
(* The other steps close and delete nothing and send nothing.  They change *)
(* no place either.                                                        *)
(***************************************************************************)
Quiet(c) ==
  \/ Dial(c) \/ Degrade(c) \/ LoopTop(c) \/ ReadMessage(c) \/ ReadUnbind(c)
  \/ ReadTimesOut(c) \/ ReadFails(c) \/ GrowIdle(c) \/ AskClose(c)
  \/ ProbeSent(c) \/ ProbeFails(c)

QuietLoop ==
  \/ CheckLimit \/ AcceptFails \/ ResetMisses \/ HeartbeatExits \/ LoadSession
  \/ StopCancels \/ StopCloses \/ CloseAllEnds

LEMMA QuietSteps ==
  ASSUME \/ \E c \in Conns : Quiet(c)
         \/ QuietLoop
         \/ UNCHANGED vars
  PROVE  UNCHANGED <<closed, registered, status, cleaning, todo, writing, written, call>>
<1>1. CASE \E c \in Conns : Quiet(c)
  BY <1>1 DEF Quiet, sessionVars, closingVars, deliveryVars, Dial, Degrade, LoopTop, ReadMessage,
       ReadUnbind, ReadTimesOut, ReadFails, GrowIdle, AskClose, ProbeSent, ProbeFails
<1>2. CASE QuietLoop
  BY <1>2 DEF QuietLoop, sessionVars, closingVars, deliveryVars, CheckLimit, AcceptFails,
       ResetMisses, HeartbeatExits, LoadSession, StopCancels, StopCloses, CloseAllEnds
<1>3. CASE UNCHANGED vars
  BY <1>3 DEF vars
<1>4. QED
  BY <1>1, <1>2, <1>3

Binding(c) == Accept(c) \/ BindFails(c) \/ BindAccepted(c)

LEMMA BindingSteps ==
  ASSUME NEW c \in Conns, Binding(c)
  PROVE  UNCHANGED <<closed, registered, status, cleaning, todo, writing, written, call, stop>>
BY DEF Binding, sessionVars, closingVars, deliveryVars, Accept, BindFails, BindAccepted

(***************************************************************************)
(* All steps, sorted that way.                                             *)
(***************************************************************************)
LEMMA StepsSorted ==
  ASSUME [Next]_vars
  PROVE  \/ \E c \in Conns : Quiet(c) \/ Binding(c) \/ SendTo(c)
         \/ QuietLoop \/ UNCHANGED vars
         \/ \E c \in Conns : \/ Register(c) \/ SetClosed(c) \/ RemoveSession(c)
                             \/ HandlerEnds(c) \/ CleanPick(c) \/ CloseAllVisits(c)
         \/ CleanDelete \/ StopReturns
         \/ \E k \in Closers : CloseConn(k) \/ MarkClosed(k)
         \/ CallHandleMessage \/ Write \/ HandleMessageReturns
BY DEF Next, Quiet, QuietLoop, Binding, Handler, AcceptLoop, CloseSession, StopSteps

LEMMA NextMInv == MInv /\ [Next]_vars => MInv'
<1> SUFFICES ASSUME MInv, [Next]_vars PROVE MInv'
  OBVIOUS
<1>1. IInv'
  BY NextIInv DEF MInv
<1>2. FitIsRegistered' /\ CleanedIsClosed' /\ DoneBeforeNext'
  <2>1. CASE UNCHANGED <<closed, registered, status, cleaning, todo, writing, written, call>>
    BY <2>1 DEF MInv, FitIsRegistered, CleanedIsClosed, DoneBeforeNext
  <2>2. CASE StopReturns
    BY <2>2 DEF StopReturns, MInv, FitIsRegistered, CleanedIsClosed, DoneBeforeNext, sessionVars, deliveryVars
  <2>3. CASE CallHandleMessage \/ Write \/ HandleMessageReturns \/ \E c \in Conns : SendTo(c)
    BY <2>3, SendingKept
  <2>4. CASE \E c \in Conns : \/ Register(c) \/ SetClosed(c) \/ RemoveSession(c)
                              \/ HandlerEnds(c) \/ CleanPick(c) \/ CloseAllVisits(c)
    BY <2>4, FitKept
  <2>5. CASE CleanDelete
    BY <2>5 DEF CleanDelete, deliveryVars, MInv, FitIsRegistered, CleanedIsClosed,
                      DoneBeforeNext
  <2>6. ASSUME NEW k \in Closers, CloseConn(k) \/ MarkClosed(k)
        PROVE  FitIsRegistered' /\ CleanedIsClosed' /\ DoneBeforeNext'
    <3>1. closer[k].conn \in Conns
      BY <2>6 DEF MInv, IInv, Sessions, ClosersHoldSessions, CloseConn, MarkClosed
    <3>2. QED
      BY <2>6, <3>1, FitKept
  <2>7. QED
    BY <2>1, <2>2, <2>3, <2>4, <2>5, <2>6, QuietSteps, BindingSteps, StepsSorted
<1>3. QED
  BY <1>1, <1>2 DEF MInv

(***************************************************************************)
(* How a place changes: of one connection, or of none.                     *)
(***************************************************************************)
LEMMA OneMoves ==
  ASSUME NEW c \in Conns, NEW to, PlaceOf(c)' = to,
         \A d \in Conns : d # c => PlaceOf(d)' = PlaceOf(d)
  PROVE  Place' = [Place EXCEPT ![c] = to]
BY DEF Place

LEMMA NoneMoves ==
  ASSUME \A d \in Conns : PlaceOf(d)' = PlaceOf(d)
  PROVE  Place' = Place
BY DEF Place

LEMMA QuietStaysPut ==
  ASSUME MInv,
         \/ \E c \in Conns : Quiet(c)
         \/ QuietLoop
         \/ UNCHANGED vars
  PROVE  UNCHANGED Members!vars
<1> USE DEF MInv, IInv, TypeOK
<1>1. UNCHANGED <<registered, todo, Chosen, written>>
  BY QuietSteps DEF Chosen
<1>2. (stop' = "stopped") <=> (stop = "stopped")
  <2>1. CASE \E c \in Conns : Quiet(c)
    BY <2>1 DEF Quiet, closingVars, Dial, Degrade, LoopTop, ReadMessage,
         ReadUnbind, ReadTimesOut, ReadFails, GrowIdle, AskClose, ProbeSent, ProbeFails
  <2>2. CASE QuietLoop
    BY <2>2 DEF QuietLoop, closingVars, CheckLimit, AcceptFails, ResetMisses, HeartbeatExits,
         LoadSession, StopCancels, StopCloses, CloseAllEnds
  <2>3. CASE UNCHANGED vars
    BY <2>3 DEF vars
  <2>4. QED
    BY <2>1, <2>2, <2>3
<1>3. \A d \in Conns : PlaceOf(d)' = PlaceOf(d)
  <2>1. CASE \E c \in Conns : Quiet(c)
    <3>1. PICK c \in Conns : Quiet(c)
      BY <2>1
    <3>2. \/ UNCHANGED pc
          \/ /\ pc[c] \in {"loop", "read"}
             /\ \E to \in {"loop", "read", "leave"} : pc' = [pc EXCEPT ![c] = to]
      BY <3>1 DEF Quiet, Dial, Degrade, LoopTop, ReadMessage, ReadUnbind, ReadTimesOut,
           ReadFails, GrowIdle, AskClose, ProbeSent, ProbeFails
    <3>3. QED
      BY <1>1, <3>2 DEF PlaceOf
  <2>2. CASE QuietLoop
    BY <1>1, <2>2 DEF PlaceOf, QuietLoop, CheckLimit, AcceptFails, ResetMisses, HeartbeatExits,
         LoadSession, StopCancels, StopCloses, CloseAllEnds
  <2>3. CASE UNCHANGED vars
    BY <2>3 DEF vars, PlaceOf
  <2>4. QED
    BY <2>1, <2>2, <2>3
<1>4. QED
  BY <1>1, <1>2, <1>3, NoneMoves DEF Members!vars

(***************************************************************************)
(* Membership counts as this module does.                                  *)
(***************************************************************************)
LEMMA SameCardinality ==
  ASSUME NEW S
  PROVE  Members!Cardinality(S) = Cardinality(S)
BY DEF Cardinality, Members!Cardinality

(***************************************************************************)
(* A connection is admitted: those inside are the live handlers, which the *)
(* counter counts.                                                         *)
(***************************************************************************)
LEMMA InsideIsLive == MInv => Members!Inside = Live
<1> SUFFICES ASSUME MInv PROVE Members!Inside = Live
  OBVIOUS
<1> USE DEF MInv, IInv, TypeOK
<1>1. \A c \in Conns : Place[c] \in {"admitted", "member", "left"} <=> pc[c] \notin {"none", "end"}
  BY DEF Place, PlaceOf, Sessions, RegisteredIsServed
<1>2. QED
  BY <1>1 DEF Members!Inside, Live

LEMMA BindingMoves ==
  ASSUME MInv, NEW c \in Conns, Binding(c)
  PROVE  [Members!Next]_(Members!vars)
<1> USE DEF MInv, IInv, TypeOK
<1>1. UNCHANGED <<registered, todo, Chosen, written, stop>>
  BY BindingSteps DEF Chosen
<1>2. c \notin registered
  BY DEF Binding, Accept, BindFails, BindAccepted, Sessions, RegisteredIsServed, AcceptedHasHandler
<1>3. CASE Accept(c)
  <2>1. pc[c] = "none" /\ pc' = [pc EXCEPT ![c] = "bind"]
    BY <1>3 DEF Accept, Sessions, AcceptedHasHandler
  <2>2. Place[c] = "outside"
    BY <1>2, <2>1 DEF Place, PlaceOf
  <2>3. Place' = [Place EXCEPT ![c] = "admitted"]
    <3>1. PlaceOf(c)' = "admitted" /\ \A d \in Conns : d # c => PlaceOf(d)' = PlaceOf(d)
      BY <1>1, <1>2, <2>1 DEF PlaceOf
    <3>2. QED
      BY <3>1, OneMoves
  <2>4. stop # "stopped"
    BY <1>3 DEF Accept, ListenerClosed
  <2>5. MaxConnections > 0 => Cardinality(Members!Inside) < MaxConnections
    BY <1>3, InsideIsLive DEF Accept, Counting
  <2>6. Members!Admit(c)
    BY <1>1, <2>2, <2>3, <2>4, <2>5, SameCardinality DEF Members!Admit, Members!Moves
  <2>7. QED
    BY <2>6 DEF Members!Next
<1>4. CASE BindFails(c)
  <2>1. pc[c] = "bind" /\ pc' = [pc EXCEPT ![c] = "close"]
    BY <1>4 DEF BindFails
  <2>2. Place[c] = "admitted"
    BY <1>2, <2>1 DEF Place, PlaceOf
  <2>3. Place' = [Place EXCEPT ![c] = "left"]
    <3>1. PlaceOf(c)' = "left" /\ \A d \in Conns : d # c => PlaceOf(d)' = PlaceOf(d)
      BY <1>1, <1>2, <2>1 DEF PlaceOf
    <3>2. QED
      BY <3>1, OneMoves
  <2>4. Members!Leave(c)
    BY <1>1, <2>2, <2>3 DEF Members!Leave, Members!Moves
  <2>5. QED
    BY <2>4 DEF Members!Next
<1>5. CASE BindAccepted(c)
  <2>1. pc[c] = "bind" /\ pc' = [pc EXCEPT ![c] = "register"]
    BY <1>5 DEF BindAccepted
  <2>2. \A d \in Conns : PlaceOf(d)' = PlaceOf(d)
    BY <1>1, <2>1 DEF PlaceOf
  <2>3. UNCHANGED Members!vars
    BY <1>1, <2>2, NoneMoves DEF Members!vars
  <2>4. QED
    BY <2>3
<1>6. QED
  BY <1>3, <1>4, <1>5 DEF Binding

(***************************************************************************)
(* Whoever takes a connection out of the map makes a member leave; if it   *)
(* was out already, nothing happens.                                       *)
(***************************************************************************)
LEMMA DeletedLeaves ==
  ASSUME MInv, NEW c \in Conns, registered' = registered \ {c},
         \/ UNCHANGED pc
         \/ pc[c] = "remove" /\ pc' = [pc EXCEPT ![c] = "close"],
         UNCHANGED <<closed, todo, writing, written, stop>>
  PROVE  [Members!Next]_(Members!vars)
<1> USE DEF MInv, IInv, TypeOK
<1>0. UNCHANGED Chosen
  BY DEF Chosen
<1>1. CASE c \in registered
  <2>1. pc[c] \in {"loop", "read", "leave", "remove"}
    BY <1>1 DEF Sessions, RegisteredIsServed
  <2>2. Place[c] = "member"
    <3>1. PlaceOf(c) = "member"
      BY <1>1, <2>1 DEF PlaceOf
    <3>2. QED
      BY <3>1 DEF Place
  <2>3. Place' = [Place EXCEPT ![c] = "left"]
    <3>1. PlaceOf(c)' = "left" /\ \A d \in Conns : d # c => PlaceOf(d)' = PlaceOf(d)
      BY <2>1 DEF PlaceOf
    <3>2. QED
      BY <3>1, OneMoves
  <2>4. Members!Leave(c)
    BY <1>0, <2>2, <2>3 DEF Members!Leave, Members!Moves
  <2>5. QED
    BY <2>4 DEF Members!Next
<1>2. CASE c \notin registered
  <2>1. \A d \in Conns : PlaceOf(d)' = PlaceOf(d)
    BY <1>2 DEF PlaceOf
  <2>2. UNCHANGED Members!vars
    BY <1>0, <2>1, NoneMoves DEF Members!vars
  <2>3. QED
    BY <2>2
<1>3. QED
  BY <1>1, <1>2

(***************************************************************************)
(* Closing a connection moves nobody; it may take the turn of the session  *)
(* that a message is about to be written to.                               *)
(***************************************************************************)
LEMMA ClosedMoves ==
  ASSUME MInv, NEW c \in Conns, closed' = closed \cup {c},
         UNCHANGED <<registered, pc, todo, writing, written, stop>>
  PROVE  [Members!Next]_(Members!vars)
<1> USE DEF MInv, IInv, TypeOK
<1>1. Place' = Place
  <2>1. \A d \in Conns : PlaceOf(d)' = PlaceOf(d)
    BY DEF PlaceOf
  <2>2. QED
    BY <2>1, NoneMoves
<1>2. CASE Chosen' = Chosen
  BY <1>1, <1>2 DEF Members!vars
<1>3. CASE Chosen' # Chosen
  <2>1. Chosen # NoConn /\ Chosen' = NoConn
    BY <1>3 DEF Chosen
  <2>2. Members!Give
    BY <1>1, <2>1 DEF Members!Give
  <2>3. QED
    BY <2>2 DEF Members!Next
<1>4. QED
  BY <1>2, <1>3

LEMMA SessionMoves ==
  ASSUME MInv, NEW c \in Conns,
         \/ Register(c) \/ SetClosed(c) \/ RemoveSession(c)
         \/ HandlerEnds(c) \/ CleanPick(c) \/ CloseAllVisits(c)
  PROVE  [Members!Next]_(Members!vars)
<1> USE DEF MInv, IInv, TypeOK
<1>1. UNCHANGED <<todo, writing, written, stop>>
  BY DEF Register, SetClosed, RemoveSession, HandlerEnds, CleanPick, CloseAllVisits,
         closingVars, deliveryVars
<1>2. CASE Register(c)
  <2>1. /\ pc[c] = "register" /\ pc' = [pc EXCEPT ![c] = "loop"]
        /\ registered' = registered \cup {c}
        /\ UNCHANGED Chosen
    BY <1>1, <1>2 DEF Register, Chosen
  <2>2. c \notin registered
    BY <2>1 DEF Sessions, RegisteredIsServed
  <2>3. Place[c] = "admitted"
    BY <2>1, <2>2 DEF Place, PlaceOf
  <2>4. Place' = [Place EXCEPT ![c] = "member"]
    <3>1. PlaceOf(c)' = "member" /\ \A d \in Conns : d # c => PlaceOf(d)' = PlaceOf(d)
      BY <2>1 DEF PlaceOf
    <3>2. QED
      BY <3>1, OneMoves
  <2>5. Members!Join(c)
    BY <1>1, <2>1, <2>3, <2>4 DEF Members!Join, Members!Moves
  <2>6. QED
    BY <2>5 DEF Members!Next
<1>3. CASE SetClosed(c)
  <2>1. /\ UNCHANGED <<registered, Chosen>>
        /\ pc[c] = "leave" /\ pc' = [pc EXCEPT ![c] = "remove"]
    BY <1>1, <1>3 DEF SetClosed, Chosen
  <2>2. \A d \in Conns : PlaceOf(d)' = PlaceOf(d)
    BY <2>1 DEF PlaceOf
  <2>3. UNCHANGED Members!vars
    BY <1>1, <2>1, <2>2, NoneMoves DEF Members!vars
  <2>4. QED
    BY <2>3
<1>4. CASE CleanPick(c) \/ CloseAllVisits(c)
  <2>1. UNCHANGED <<registered, pc>> /\ closed' = closed \cup {c}
    BY <1>4 DEF CleanPick, CloseAllVisits, sessionVars
  <2>2. QED
    BY <1>1, <2>1, ClosedMoves
<1>5. CASE RemoveSession(c)
  BY <1>1, <1>5, DeletedLeaves DEF RemoveSession
<1>6. CASE HandlerEnds(c)
  <2>1. /\ pc[c] = "close" /\ pc' = [pc EXCEPT ![c] = "end"]
        /\ closed' = closed \cup {c} /\ UNCHANGED registered
    BY <1>6 DEF HandlerEnds, sessionVars
  <2>2. c \notin registered
    BY <2>1 DEF Sessions, RegisteredIsServed
  <2>3. Place[c] = "left"
    BY <2>1, <2>2 DEF Place, PlaceOf
  <2>4. Place' = [Place EXCEPT ![c] = "gone"]
    <3>1. PlaceOf(c)' = "gone" /\ \A d \in Conns : d # c => PlaceOf(d)' = PlaceOf(d)
      BY <2>1, <2>2 DEF PlaceOf
    <3>2. QED
      BY <3>1, OneMoves
  <2>5. Chosen' = IF Chosen = c THEN NoConn ELSE Chosen
    BY <1>1, <2>1 DEF Chosen
  <2>6. Members!Go(c)
    BY <1>1, <2>3, <2>4, <2>5 DEF Members!Go, Members!Moves
  <2>7. QED
    BY <2>6 DEF Members!Next
<1>7. QED
  BY <1>2, <1>3, <1>4, <1>5, <1>6

(***************************************************************************)
(* The cleaner and the callers of CloseSession.                            *)
(***************************************************************************)
LEMMA OthersDelete ==
  ASSUME MInv, CleanDelete \/ \E k \in Closers : CloseConn(k) \/ MarkClosed(k)
  PROVE  [Members!Next]_(Members!vars)
<1> USE DEF MInv, IInv, TypeOK
<1>1. UNCHANGED <<pc, todo, writing, written, stop>>
  BY DEF CleanDelete, CloseConn, MarkClosed, deliveryVars
<1>2. CASE CleanDelete
  <2>1. PICK c \in Conns : registered' = registered \ {c}
    BY <1>2 DEF CleanDelete
  <2>2. UNCHANGED closed
    BY <1>2 DEF CleanDelete
  <2>3. QED
    BY <1>1, <2>1, <2>2, DeletedLeaves
<1>3. CASE \E k \in Closers : MarkClosed(k)
  <2>1. PICK c \in Conns : registered' = registered \ {c}
    BY <1>3 DEF MarkClosed, Sessions, ClosersHoldSessions
  <2>2. UNCHANGED closed
    BY <1>3 DEF MarkClosed
  <2>3. QED
    BY <1>1, <2>1, <2>2, DeletedLeaves
<1>4. CASE \E k \in Closers : CloseConn(k)
  <2>1. PICK c \in Conns : closed' = closed \cup {c}
    BY <1>4 DEF CloseConn, Sessions, ClosersHoldSessions
  <2>2. UNCHANGED registered
    BY <1>4 DEF CloseConn, sessionVars
  <2>3. QED
    BY <1>1, <2>1, <2>2, ClosedMoves
<1>5. QED
  BY <1>2, <1>3, <1>4

(***************************************************************************)
(* A message is announced to the sessions in the map, and written to those *)
(* that are still there when their turn comes: one that is out of the map  *)
(* and still says it is connected has been closed.                         *)
(***************************************************************************)
LEMMA MessageMoves ==
  ASSUME MInv, CallHandleMessage \/ Write \/ HandleMessageReturns \/ \E c \in Conns : SendTo(c)
  PROVE  [Members!Next]_(Members!vars)
<1> USE DEF MInv, IInv, TypeOK
<1>1. UNCHANGED <<pc, registered, stop, closed>>
  BY DEF CallHandleMessage, Write, HandleMessageReturns, SendTo, sessionVars, closingVars
<1>2. Place' = Place
  <2>1. \A d \in Conns : PlaceOf(d)' = PlaceOf(d)
    BY <1>1 DEF PlaceOf
  <2>2. QED
    BY <2>1, NoneMoves
<1>3. registered = {c \in Conns : Place[c] = "member"}
  <2>1. \A c \in Conns : Place[c] = "member" <=> c \in registered
    BY DEF Place, PlaceOf, Sessions, RegisteredIsServed
  <2>2. QED
    BY <2>1
<1>4. CASE CallHandleMessage
  <2>1. todo = {} /\ todo' = registered /\ written' = {} /\ writing = NoConn /\ writing' = NoConn
    BY <1>4 DEF CallHandleMessage, DoneBeforeNext
  <2>2. Members!Announce
    BY <1>1, <1>2, <1>3, <2>1 DEF Members!Announce, Chosen
  <2>3. QED
    BY <2>2 DEF Members!Next
<1>5. CASE HandleMessageReturns
  BY <1>1, <1>2, <1>5 DEF HandleMessageReturns, Members!vars, Chosen
<1>6. ASSUME NEW c \in Conns, SendTo(c)
      PROVE  Members!Next
  <2>1. /\ c \in todo /\ todo' = todo \ {c} /\ UNCHANGED written
        /\ Chosen = NoConn
    BY <1>6 DEF SendTo, Chosen
  <2>2. UNCHANGED Chosen \/ (Place[c] = "member" /\ Chosen' = c)
    <3>1. CASE status[c] = "connected" /\ c \notin closed
      BY <1>1, <1>3, <1>6, <3>1 DEF SendTo, Chosen, FitIsRegistered
    <3>2. CASE ~(status[c] = "connected" /\ c \notin closed)
      BY <1>1, <1>6, <3>2 DEF SendTo, Chosen
    <3>3. QED
      BY <3>1, <3>2
  <2>3. Members!Turn(c)
    BY <1>1, <1>2, <2>1, <2>2 DEF Members!Turn
  <2>4. QED
    BY <2>3 DEF Members!Next
<1>7. CASE Write
  <2>1. writing' = NoConn /\ UNCHANGED todo
    BY <1>7 DEF Write
  <2>2. CASE writing \in closed
    <3>1. UNCHANGED <<Chosen, written>>
      BY <1>7, <2>1, <2>2 DEF Write, Writable, Chosen
    <3>2. UNCHANGED Members!vars
      BY <1>1, <1>2, <2>1, <3>1 DEF Members!vars
    <3>3. QED
      BY <3>2
  <2>3. CASE writing \notin closed
    <3>1. Chosen = writing /\ Chosen # NoConn /\ Chosen' = NoConn
      BY <1>7, <2>1, <2>3 DEF Write, Chosen
    <3>2. written' \in {written, written \cup {Chosen}}
      BY <1>7, <3>1 DEF Write
    <3>3. Members!Give
      BY <1>1, <1>2, <2>1, <3>1, <3>2 DEF Members!Give
    <3>4. QED
      BY <3>3 DEF Members!Next
  <2>4. QED
    BY <2>2, <2>3
<1>8. QED
  BY <1>4, <1>5, <1>6, <1>7

LEMMA StopShuts ==
  ASSUME MInv, StopReturns
  PROVE  Members!Next
<1> USE DEF MInv, IInv, TypeOK
<1>1. UNCHANGED <<pc, registered, todo, Chosen, written>> /\ stop = "waiting" /\ stop' = "stopped"
  BY DEF StopReturns, sessionVars, deliveryVars, Chosen
<1>2. Place' = Place
  <2>1. \A d \in Conns : PlaceOf(d)' = PlaceOf(d)
    BY <1>1 DEF PlaceOf
  <2>2. QED
    BY <2>1, NoneMoves
<1>3. Members!Inside = {}
  BY InsideIsLive DEF Live, StopReturns, HandlersEnded
<1>4. Members!Shut
  BY <1>1, <1>2, <1>3 DEF Members!Shut
<1>5. QED
  BY <1>4 DEF Members!Next

LEMMA StepMembership == MInv /\ [Next]_vars => [Members!Next]_(Members!vars)
<1> SUFFICES ASSUME MInv, [Next]_vars PROVE [Members!Next]_(Members!vars)
  OBVIOUS
<1>1. CASE \/ \E c \in Conns : Quiet(c)
           \/ QuietLoop
           \/ UNCHANGED vars
  BY <1>1, QuietStaysPut
<1>2. CASE \E c \in Conns : Binding(c)
  BY <1>2, BindingMoves
<1>3. CASE \E c \in Conns : \/ Register(c) \/ SetClosed(c) \/ RemoveSession(c)
                            \/ HandlerEnds(c) \/ CleanPick(c) \/ CloseAllVisits(c)
  BY <1>3, SessionMoves
<1>4. CASE CleanDelete \/ \E k \in Closers : CloseConn(k) \/ MarkClosed(k)
  BY <1>4, OthersDelete
<1>5. CASE CallHandleMessage \/ Write \/ HandleMessageReturns \/ \E c \in Conns : SendTo(c)
  BY <1>5, MessageMoves
<1>6. CASE StopReturns
  BY <1>6, StopShuts
<1>7. QED
  BY <1>1, <1>2, <1>3, <1>4, <1>5, <1>6, StepsSorted

LEMMA InitMembership == Init => Members!Init
BY DEF Init, Members!Init, Place, PlaceOf, Chosen

(***************************************************************************)
(* A connection is admitted within the limit, registered at most once, and *)
(* once out of the map stays out; a message is written only to sessions in *)
(* the map when their turn comes; after Stop there is nobody.  For any     *)
(* number of connections, whatever closes them at once.                    *)
(***************************************************************************)
THEOREM MembershipRefinement == Spec => ImplementsMembership
BY InitMembership, InitMInv, NextMInv, StepMembership, PTL
   DEF Spec, ImplementsMembership, Members!Spec

-----------------------------------------------------------------------------
(***************************************************************************)
(* How far a handler is from its end once Stop was called. At each place   *)
(* it can go on: reads have a deadline and nothing else is waited for.     *)
(***************************************************************************)
StepsLeft ==
  [at \in {"none", "bind", "register", "loop", "read", "leave", "remove", "close", "end"} |->
     CASE at = "none"     -> 8
       [] at = "bind"     -> 7
       [] at = "register" -> 6
       [] at = "read"     -> 5
       [] at = "loop"     -> 4
       [] at = "leave"    -> 3
       [] at = "remove"   -> 2
       [] at = "close"    -> 1
       [] at = "end"      -> 0]

Nearer(c) == UNCHANGED pc[c] \/ StepsLeft[pc'[c]] < StepsLeft[pc[c]]

LEMMA HandlerWindsDown ==
  ASSUME IInv, Cancelled, NEW d \in Conns, Handler(d), NEW c \in Conns
  PROVE  Nearer(c)
<1>1. /\ pc \in [Conns -> DOMAIN StepsLeft]
      /\ pc[d] # "none"
  BY DEF IInv, TypeOK, StepsLeft, Handler, BindFails, BindAccepted, Register, LoopTop,
         ReadMessage, ReadUnbind, ReadTimesOut, ReadFails, SetClosed, RemoveSession, HandlerEnds
<1>2. PICK at \in DOMAIN StepsLeft : /\ pc' = [pc EXCEPT ![d] = at]
                                     /\ StepsLeft[at] < StepsLeft[pc[d]]
  <2>0. /\ StepsLeft["bind"] = 7 /\ StepsLeft["register"] = 6 /\ StepsLeft["read"] = 5
        /\ StepsLeft["loop"] = 4 /\ StepsLeft["leave"] = 3 /\ StepsLeft["remove"] = 2
        /\ StepsLeft["close"] = 1 /\ StepsLeft["end"] = 0
        /\ DOMAIN StepsLeft = {"none", "bind", "register", "loop", "read", "leave", "remove",
                               "close", "end"}
    BY DEF StepsLeft
  <2>1. CASE BindFails(d) \/ BindAccepted(d) \/ Register(d)
    BY <2>0, <2>1 DEF BindFails, BindAccepted, Register
  <2>2. CASE LoopTop(d)
    BY <2>0, <2>2 DEF LoopTop
  <2>3. CASE ReadMessage(d) \/ ReadUnbind(d) \/ ReadTimesOut(d) \/ ReadFails(d)
    BY <2>0, <2>3 DEF ReadMessage, ReadUnbind, ReadTimesOut, ReadFails
  <2>4. CASE SetClosed(d) \/ RemoveSession(d) \/ HandlerEnds(d)
    BY <2>0, <2>4 DEF SetClosed, RemoveSession, HandlerEnds
  <2>5. QED
    BY <2>1, <2>2, <2>3, <2>4 DEF Handler
<1>3. QED
  BY <1>1, <1>2 DEF Nearer

LEMMA StopWindsDown ==
  ASSUME IInv, [Next]_vars, Cancelled, NEW c \in Conns
  PROVE  Nearer(c) /\ (ListenerClosed /\ pc[c] = "none" => pc'[c] = "none")
<1>1. CASE \E d \in Conns : Handler(d)
  <2>1. PICK d \in Conns : Handler(d)
    BY <1>1
  <2>2. /\ pc \in [Conns -> DOMAIN StepsLeft]
        /\ pc[d] # "none"
        /\ \E at \in DOMAIN StepsLeft : pc' = [pc EXCEPT ![d] = at]
    BY <2>1 DEF IInv, TypeOK, StepsLeft, Handler, BindFails, BindAccepted, Register, LoopTop,
         ReadMessage, ReadUnbind, ReadTimesOut, ReadFails, SetClosed, RemoveSession, HandlerEnds
  <2>3. Nearer(c)
    BY <2>1, HandlerWindsDown
  <2>4. pc[c] = "none" => pc'[c] = "none"
    BY <2>2
  <2>5. QED
    BY <2>3, <2>4
<1>2. CASE \E d \in Conns : Accept(d)
  <2>1. PICK d \in Conns : Accept(d)
    BY <1>2
  <2>2. pc' = [pc EXCEPT ![d] = "bind"] /\ ~ListenerClosed /\ pc[d] = "none"
    BY <2>1 DEF Accept, IInv, Sessions, AcceptedHasHandler
  <2>3. pc \in [Conns -> DOMAIN StepsLeft]
    BY DEF IInv, TypeOK, StepsLeft
  <2>4. QED
    BY <2>2, <2>3 DEF Nearer, StepsLeft
<1>3. CASE UNCHANGED pc
  BY <1>3 DEF Nearer
<1>4. CASE \E d \in Conns : Dial(d) \/ Degrade(d) \/ GrowIdle(d) \/ AskClose(d)
                            \/ ProbeSent(d) \/ ProbeFails(d) \/ CleanPick(d) \/ SendTo(d)
  BY <1>3, <1>4 DEF Dial, Degrade, GrowIdle, AskClose, ProbeSent, ProbeFails, CleanPick, SendTo
<1>5. CASE CheckLimit \/ AcceptFails \/ ResetMisses \/ HeartbeatExits \/ LoadSession \/ CleanDelete
  BY <1>3, <1>5 DEF CheckLimit, AcceptFails, ResetMisses, HeartbeatExits, LoadSession, CleanDelete
<1>6. CASE StopCancels \/ StopSteps \/ \E k \in Closers : CloseSession(k)
  BY <1>3, <1>6 DEF StopCancels, StopSteps, StopCloses, CloseAllEnds, StopReturns, CloseAllVisits,
     CloseSession, CloseConn, MarkClosed
<1>7. CASE CallHandleMessage \/ Write \/ HandleMessageReturns \/ UNCHANGED vars
  BY <1>3, <1>7 DEF CallHandleMessage, Write, HandleMessageReturns, vars
<1>8. QED
  BY <1>1, <1>2, <1>4, <1>5, <1>6, <1>7 DEF Next, AcceptLoop

(***************************************************************************)
(* Once Stop has cancelled the context every move of a handler brings it   *)
(* nearer to its end, whatever its peer does, and once it has closed the   *)
(* listener no handler is added: at most seven moves of each are left to   *)
(* wait for. This is what StopTerminates rests on (smmc_server.go:109-345).*)
(***************************************************************************)
THEOREM StopBoundsHandlers ==
  Spec => [][Cancelled => \A c \in Conns :
               /\ UNCHANGED pc[c] \/ StepsLeft[pc'[c]] < StepsLeft[pc[c]]
               /\ ListenerClosed /\ pc[c] = "none" => pc'[c] = "none"]_vars
<1>1. IInv /\ [Next]_vars =>
        [Cancelled => \A c \in Conns :
               /\ UNCHANGED pc[c] \/ StepsLeft[pc'[c]] < StepsLeft[pc[c]]
               /\ ListenerClosed /\ pc[c] = "none" => pc'[c] = "none"]_vars
  BY StopWindsDown DEF Nearer
<1>2. QED
  BY <1>1, Inductive, PTL DEF Spec
=============================================================================
