-------------------------- MODULE SMSCClientProofs --------------------------
(***************************************************************************)
(* Proofs about SMSCClient for any number of sockets and retries: its      *)
(* types, and that until Stop is called no socket is leaked and            *)
(* "connected" is said only of an open connection.                         *)
(***************************************************************************)
EXTENDS SMSCClient, TLAPS

(***************************************************************************)
(* The inductive invariant, besides the types. Attempts: how far Start and *)
(* the read loop have come bounds the attempts made, and it closes a       *)
(* connection only at two places. Beats: the heartbeat goroutine ends with *)
(* its third failure. SocketsHeld: until Stop is called the read loop      *)
(* alone opens and closes sockets, and holds none while it is about to     *)
(* open one or to forget the current one.                                  *)
(***************************************************************************)
Attempts ==
  /\ starting => /\ pc \in {"connect", "dial", "bind", "bound", "failed"}
                 /\ status # 2 /\ tries = 0 /\ heart = "off"
  /\ pc \in {"loop", "read", "answer", "write", "reconnect"} => tries = 0
  /\ pc \in {"connect", "dial", "bind", "bound", "backoff"} /\ ~starting => tries < MaxRetries
  /\ closing["reader"] # "no" => pc \in {"reconnect", "exit"}

Beats == heart # "ended" => failures < HeartbeatLimit

Unheld == {"connect", "dial", "backoff", "failed"}

SocketsHeld ==
  ~cancelled =>
    /\ stopper = "no" /\ closing["stop"] = "no"
    /\ open \subseteq {conn}
    /\ pc \in Unheld \/ closing["reader"] = "clear" => open = {}
    /\ pc = "bound" => conn \in open
    /\ status = 2 /\ closing["reader"] = "no" => conn \in open

IInv == TypeOK /\ Attempts /\ Beats /\ SocketsHeld

LEMMA InitIInv == Init => IInv
<1> SUFFICES ASSUME Init PROVE IInv
  OBVIOUS
<1> USE ClientAssumption DEF ClientAssumption
<1>1. /\ cancelled \in BOOLEAN /\ starting \in BOOLEAN
      /\ reachable \in BOOLEAN /\ panicked \in BOOLEAN
  BY Zenon DEF Init
<1>2. closing \in [Closers -> {"no", "shut", "clear"}]
  BY DEF Init
<1>3. failures \in 0..HeartbeatLimit /\ tries \in 0..MaxRetries
  BY DEF Init, HeartbeatLimit
<1>4. TypeOK
  BY <1>1, <1>2, <1>3 DEF Init, TypeOK
<1>5. QED
  BY <1>4 DEF Init, IInv, Attempts, Beats, SocketsHeld, Unheld, Closers, HeartbeatLimit

(***************************************************************************)
(* What Start or reconnect does between the first look at the status and   *)
(* the end of the bind.                                                    *)
(***************************************************************************)
LEMMA ConnectingKeeps ==
  ASSUME IInv,
         \/ BeginConnect
         \/ Dial
         \/ DialFails
         \/ BindAnswered
         \/ SetConnected
         \/ BindFails
  PROVE  IInv'
<1> USE ClientAssumption DEF ClientAssumption, IInv, Alive, Running
<1>1. CASE BeginConnect
  <2>1. TypeOK'
    BY <1>1 DEF BeginConnect, TypeOK, Attempts, Beats, SocketsHeld, Unheld, Closers
  <2>2. Attempts'
    BY <1>1 DEF BeginConnect, TypeOK, Attempts, Beats, SocketsHeld, Unheld, Closers
  <2>3. Beats'
    BY <1>1 DEF BeginConnect, TypeOK, Attempts, Beats, SocketsHeld, Unheld, Closers
  <2>4. SocketsHeld'
    BY <1>1 DEF BeginConnect, TypeOK, Attempts, Beats, SocketsHeld, Unheld, Closers
  <2>5. QED
    BY <2>1, <2>2, <2>3, <2>4
<1>2. CASE Dial
  <2>1. TypeOK'
    BY <1>2 DEF Dial, TypeOK, Attempts, Beats, SocketsHeld, Unheld, Closers
  <2>2. Attempts'
    BY <1>2 DEF Dial, TypeOK, Attempts, Beats, SocketsHeld, Unheld, Closers
  <2>3. Beats'
    BY <1>2 DEF Dial, TypeOK, Attempts, Beats, SocketsHeld, Unheld, Closers
  <2>4. SocketsHeld'
    BY <1>2 DEF Dial, TypeOK, Attempts, Beats, SocketsHeld, Unheld, Closers
  <2>5. QED
    BY <2>1, <2>2, <2>3, <2>4
<1>3. CASE DialFails
  <2>1. TypeOK'
    BY <1>3 DEF DialFails, ConnectFailed, TypeOK, Attempts, Beats, SocketsHeld, Unheld, Closers
  <2>2. Attempts'
    BY <1>3 DEF DialFails, ConnectFailed, TypeOK, Attempts, Beats, SocketsHeld, Unheld, Closers
  <2>3. Beats'
    BY <1>3 DEF DialFails, ConnectFailed, TypeOK, Attempts, Beats, SocketsHeld, Unheld, Closers
  <2>4. SocketsHeld'
    BY <1>3 DEF DialFails, ConnectFailed, TypeOK, Attempts, Beats, SocketsHeld, Unheld, Closers
  <2>5. QED
    BY <2>1, <2>2, <2>3, <2>4
<1>4. CASE BindAnswered
  <2>1. TypeOK'
    BY <1>4 DEF BindAnswered, TypeOK, Attempts, Beats, SocketsHeld, Unheld, Closers
  <2>2. Attempts'
    BY <1>4 DEF BindAnswered, TypeOK, Attempts, Beats, SocketsHeld, Unheld, Closers
  <2>3. Beats'
    BY <1>4 DEF BindAnswered, TypeOK, Attempts, Beats, SocketsHeld, Unheld, Closers
  <2>4. SocketsHeld'
    BY <1>4 DEF BindAnswered, TypeOK, Attempts, Beats, SocketsHeld, Unheld, Closers
  <2>5. QED
    BY <2>1, <2>2, <2>3, <2>4
<1>5. CASE SetConnected
  <2>1. TypeOK'
    <3>1. /\ cancelled' \in BOOLEAN /\ starting' \in BOOLEAN
          /\ reachable' \in BOOLEAN /\ panicked' \in BOOLEAN
      BY Zenon, <1>5 DEF SetConnected, TypeOK
    <3>2. tries' \in 0..MaxRetries
      BY <1>5 DEF SetConnected
    <3>3. heart' \in {"off", "idle", "write", "ended"}
      BY <1>5 DEF SetConnected, TypeOK
    <3>4. QED
      BY <1>5, <3>1, <3>2, <3>3 DEF SetConnected, TypeOK, Closers
  <2>2. Attempts'
    BY <1>5 DEF SetConnected, TypeOK, Attempts, Beats, SocketsHeld, Unheld, Closers
  <2>3. Beats'
    BY <1>5 DEF SetConnected, TypeOK, Attempts, Beats, SocketsHeld, Unheld, Closers
  <2>4. SocketsHeld'
    BY <1>5 DEF SetConnected, TypeOK, Attempts, Beats, SocketsHeld, Unheld, Closers
  <2>5. QED
    BY <2>1, <2>2, <2>3, <2>4
<1>6. CASE BindFails
  <2>1. TypeOK'
    <3>1. /\ cancelled' \in BOOLEAN /\ starting' \in BOOLEAN
          /\ reachable' \in BOOLEAN /\ panicked' \in BOOLEAN
      BY Zenon, <1>6 DEF BindFails, ConnectFailed, TypeOK
    <3>2. tries' \in 0..MaxRetries
      BY <1>6 DEF BindFails, Attempts, TypeOK, ConnectFailed
    <3>3. QED
      BY <1>6, <3>1, <3>2 DEF BindFails, ConnectFailed, TypeOK, Closers
  <2>2. Attempts'
    BY <1>6 DEF BindFails, ConnectFailed, TypeOK, Attempts, Beats, SocketsHeld, Unheld, Closers
  <2>3. Beats'
    BY <1>6 DEF BindFails, ConnectFailed, TypeOK, Attempts, Beats, SocketsHeld, Unheld, Closers
  <2>4. SocketsHeld'
    BY <1>6 DEF BindFails, ConnectFailed, TypeOK, Attempts, Beats, SocketsHeld, Unheld, Closers
  <2>5. QED
    BY <2>1, <2>2, <2>3, <2>4
<1>7. QED
  BY <1>1, <1>2, <1>3, <1>4, <1>5, <1>6

(***************************************************************************)
(* The read loop and its backoff.                                          *)
(***************************************************************************)
LEMMA ReadingKeeps ==
  ASSUME IInv,
         \/ LoopTop
         \/ ReadPanics
         \/ ReadMessage
         \/ Answer
         \/ WriteAnswer
         \/ ReadTimesOut
         \/ ReadFails
         \/ BackoffEnds
         \/ BackoffCancelled
  PROVE  IInv'
<1> USE ClientAssumption DEF ClientAssumption, IInv, Alive, Running
<1>1. CASE LoopTop
  <2>1. TypeOK'
    BY <1>1 DEF LoopTop, TypeOK, Attempts, Beats, SocketsHeld, Unheld, Closers
  <2>2. Attempts'
    BY <1>1 DEF LoopTop, TypeOK, Attempts, Beats, SocketsHeld, Unheld, Closers
  <2>3. Beats'
    BY <1>1 DEF LoopTop, TypeOK, Attempts, Beats, SocketsHeld, Unheld, Closers
  <2>4. SocketsHeld'
    BY <1>1 DEF LoopTop, TypeOK, Attempts, Beats, SocketsHeld, Unheld, Closers
  <2>5. QED
    BY <2>1, <2>2, <2>3, <2>4
<1>2. CASE ReadPanics
  <2>1. TypeOK'
    BY <1>2 DEF ReadPanics, TypeOK, Attempts, Beats, SocketsHeld, Unheld, Closers
  <2>2. Attempts'
    BY <1>2 DEF ReadPanics, TypeOK, Attempts, Beats, SocketsHeld, Unheld, Closers
  <2>3. Beats'
    BY <1>2 DEF ReadPanics, TypeOK, Attempts, Beats, SocketsHeld, Unheld, Closers
  <2>4. SocketsHeld'
    BY <1>2 DEF ReadPanics, TypeOK, Attempts, Beats, SocketsHeld, Unheld, Closers
  <2>5. QED
    BY <2>1, <2>2, <2>3, <2>4
<1>3. CASE ReadMessage
  <2>1. TypeOK'
    BY <1>3 DEF ReadMessage, TypeOK, Attempts, Beats, SocketsHeld, Unheld, Closers,
         HeartbeatLimit
  <2>2. Attempts'
    BY <1>3 DEF ReadMessage, TypeOK, Attempts, Beats, SocketsHeld, Unheld, Closers,
         HeartbeatLimit
  <2>3. Beats'
    BY <1>3 DEF ReadMessage, TypeOK, Attempts, Beats, SocketsHeld, Unheld, Closers,
         HeartbeatLimit
  <2>4. SocketsHeld'
    BY <1>3 DEF ReadMessage, TypeOK, Attempts, Beats, SocketsHeld, Unheld, Closers,
         HeartbeatLimit
  <2>5. QED
    BY <2>1, <2>2, <2>3, <2>4
<1>4. CASE Answer
  <2>1. TypeOK'
    BY <1>4 DEF Answer, TypeOK, Attempts, Beats, SocketsHeld, Unheld, Closers
  <2>2. Attempts'
    BY <1>4 DEF Answer, TypeOK, Attempts, Beats, SocketsHeld, Unheld, Closers
  <2>3. Beats'
    BY <1>4 DEF Answer, TypeOK, Attempts, Beats, SocketsHeld, Unheld, Closers
  <2>4. SocketsHeld'
    BY <1>4 DEF Answer, TypeOK, Attempts, Beats, SocketsHeld, Unheld, Closers
  <2>5. QED
    BY <2>1, <2>2, <2>3, <2>4
<1>5. CASE WriteAnswer
  <2>1. TypeOK'
    BY <1>5 DEF WriteAnswer, TypeOK, Attempts, Beats, SocketsHeld, Unheld, Closers
  <2>2. Attempts'
    BY <1>5 DEF WriteAnswer, TypeOK, Attempts, Beats, SocketsHeld, Unheld, Closers
  <2>3. Beats'
    BY <1>5 DEF WriteAnswer, TypeOK, Attempts, Beats, SocketsHeld, Unheld, Closers
  <2>4. SocketsHeld'
    BY <1>5 DEF WriteAnswer, TypeOK, Attempts, Beats, SocketsHeld, Unheld, Closers
  <2>5. QED
    BY <2>1, <2>2, <2>3, <2>4
<1>6. CASE ReadTimesOut
  <2>1. TypeOK'
    BY <1>6 DEF ReadTimesOut, TypeOK, Attempts, Beats, SocketsHeld, Unheld, Closers
  <2>2. Attempts'
    BY <1>6 DEF ReadTimesOut, TypeOK, Attempts, Beats, SocketsHeld, Unheld, Closers
  <2>3. Beats'
    BY <1>6 DEF ReadTimesOut, TypeOK, Attempts, Beats, SocketsHeld, Unheld, Closers
  <2>4. SocketsHeld'
    BY <1>6 DEF ReadTimesOut, TypeOK, Attempts, Beats, SocketsHeld, Unheld, Closers
  <2>5. QED
    BY <2>1, <2>2, <2>3, <2>4
<1>7. CASE ReadFails
  <2>1. TypeOK'
    BY <1>7 DEF ReadFails, TypeOK, Attempts, Beats, SocketsHeld, Unheld, Closers
  <2>2. Attempts'
    BY <1>7 DEF ReadFails, TypeOK, Attempts, Beats, SocketsHeld, Unheld, Closers
  <2>3. Beats'
    BY <1>7 DEF ReadFails, TypeOK, Attempts, Beats, SocketsHeld, Unheld, Closers
  <2>4. SocketsHeld'
    BY <1>7 DEF ReadFails, TypeOK, Attempts, Beats, SocketsHeld, Unheld, Closers
  <2>5. QED
    BY <2>1, <2>2, <2>3, <2>4
<1>8. CASE BackoffEnds
  <2>1. TypeOK'
    BY <1>8 DEF BackoffEnds, TypeOK, Attempts, Beats, SocketsHeld, Unheld, Closers
  <2>2. Attempts'
    BY <1>8 DEF BackoffEnds, TypeOK, Attempts, Beats, SocketsHeld, Unheld, Closers
  <2>3. Beats'
    BY <1>8 DEF BackoffEnds, TypeOK, Attempts, Beats, SocketsHeld, Unheld, Closers
  <2>4. SocketsHeld'
    BY <1>8 DEF BackoffEnds, TypeOK, Attempts, Beats, SocketsHeld, Unheld, Closers
  <2>5. QED
    BY <2>1, <2>2, <2>3, <2>4
<1>9. CASE BackoffCancelled
  <2>1. TypeOK'
    BY <1>9 DEF BackoffCancelled, TypeOK, Attempts, Beats, SocketsHeld, Unheld, Closers
  <2>2. Attempts'
    BY <1>9 DEF BackoffCancelled, TypeOK, Attempts, Beats, SocketsHeld, Unheld, Closers
  <2>3. Beats'
    BY <1>9 DEF BackoffCancelled, TypeOK, Attempts, Beats, SocketsHeld, Unheld, Closers
  <2>4. SocketsHeld'
    BY <1>9 DEF BackoffCancelled, TypeOK, Attempts, Beats, SocketsHeld, Unheld, Closers
  <2>5. QED
    BY <2>1, <2>2, <2>3, <2>4
<1>10. QED
  BY <1>1, <1>2, <1>3, <1>4, <1>5, <1>6, <1>7, <1>8, <1>9

(***************************************************************************)
(* The heartbeat goroutine, the first step of Stop, and the network.       *)
(***************************************************************************)
LEMMA BeatingKeeps ==
  ASSUME IInv,
         \/ Beat
         \/ WriteBeat
         \/ HeartbeatEnds
         \/ StopCancels
         \/ ChangeReachable
         \/ \E s \in Sockets : Break(s)
  PROVE  IInv'
<1> USE ClientAssumption DEF ClientAssumption, IInv, Alive, Running
<1>1. CASE Beat
  <2>1. TypeOK'
    BY <1>1 DEF Beat, HeartbeatFails, TypeOK, Attempts, Beats, SocketsHeld, Unheld, Closers,
         HeartbeatLimit
  <2>2. Attempts'
    BY <1>1 DEF Beat, HeartbeatFails, TypeOK, Attempts, Beats, SocketsHeld, Unheld, Closers,
         HeartbeatLimit
  <2>3. Beats'
    BY <1>1 DEF Beat, HeartbeatFails, TypeOK, Attempts, Beats, SocketsHeld, Unheld, Closers,
         HeartbeatLimit
  <2>4. SocketsHeld'
    BY <1>1 DEF Beat, HeartbeatFails, TypeOK, Attempts, Beats, SocketsHeld, Unheld, Closers,
         HeartbeatLimit
  <2>5. QED
    BY <2>1, <2>2, <2>3, <2>4
<1>2. CASE WriteBeat
  <2>1. TypeOK'
    <3>1. /\ cancelled' \in BOOLEAN /\ starting' \in BOOLEAN
          /\ reachable' \in BOOLEAN /\ panicked' \in BOOLEAN
      BY Zenon, <1>2 DEF WriteBeat, HeartbeatFails, TypeOK
    <3>2. failures' \in 0..HeartbeatLimit
      BY <1>2 DEF WriteBeat, Beats, TypeOK, HeartbeatFails, HeartbeatLimit
    <3>3. QED
      BY <1>2, <3>1, <3>2 DEF WriteBeat, HeartbeatFails, TypeOK, Closers
  <2>2. Attempts'
    BY <1>2 DEF WriteBeat, HeartbeatFails, TypeOK, Attempts, Beats, SocketsHeld, Unheld,
         Closers, HeartbeatLimit
  <2>3. Beats'
    BY <1>2 DEF WriteBeat, HeartbeatFails, TypeOK, Attempts, Beats, SocketsHeld, Unheld,
         Closers, HeartbeatLimit
  <2>4. SocketsHeld'
    BY <1>2 DEF WriteBeat, HeartbeatFails, TypeOK, Attempts, Beats, SocketsHeld, Unheld,
         Closers, HeartbeatLimit
  <2>5. QED
    BY <2>1, <2>2, <2>3, <2>4
<1>3. CASE HeartbeatEnds
  <2>1. TypeOK'
    BY <1>3 DEF HeartbeatEnds, TypeOK, Attempts, Beats, SocketsHeld, Unheld, Closers
  <2>2. Attempts'
    BY <1>3 DEF HeartbeatEnds, TypeOK, Attempts, Beats, SocketsHeld, Unheld, Closers
  <2>3. Beats'
    BY <1>3 DEF HeartbeatEnds, TypeOK, Attempts, Beats, SocketsHeld, Unheld, Closers
  <2>4. SocketsHeld'
    BY <1>3 DEF HeartbeatEnds, TypeOK, Attempts, Beats, SocketsHeld, Unheld, Closers
  <2>5. QED
    BY <2>1, <2>2, <2>3, <2>4
<1>4. CASE StopCancels
  <2>1. TypeOK'
    BY <1>4 DEF StopCancels, TypeOK, Attempts, Beats, SocketsHeld, Unheld, Closers
  <2>2. Attempts'
    BY <1>4 DEF StopCancels, TypeOK, Attempts, Beats, SocketsHeld, Unheld, Closers
  <2>3. Beats'
    BY <1>4 DEF StopCancels, TypeOK, Attempts, Beats, SocketsHeld, Unheld, Closers
  <2>4. SocketsHeld'
    BY <1>4 DEF StopCancels, TypeOK, Attempts, Beats, SocketsHeld, Unheld, Closers
  <2>5. QED
    BY <2>1, <2>2, <2>3, <2>4
<1>5. CASE ChangeReachable
  <2>1. TypeOK'
    BY <1>5 DEF ChangeReachable, TypeOK, Attempts, Beats, SocketsHeld, Unheld, Closers
  <2>2. Attempts'
    BY <1>5 DEF ChangeReachable, TypeOK, Attempts, Beats, SocketsHeld, Unheld, Closers
  <2>3. Beats'
    BY <1>5 DEF ChangeReachable, TypeOK, Attempts, Beats, SocketsHeld, Unheld, Closers
  <2>4. SocketsHeld'
    BY <1>5 DEF ChangeReachable, TypeOK, Attempts, Beats, SocketsHeld, Unheld, Closers
  <2>5. QED
    BY <2>1, <2>2, <2>3, <2>4
<1>6. CASE \E s \in Sockets : Break(s)
  <2>1. TypeOK'
    BY <1>6 DEF Break, TypeOK, Attempts, Beats, SocketsHeld, Unheld, Closers
  <2>2. Attempts'
    BY <1>6 DEF Break, TypeOK, Attempts, Beats, SocketsHeld, Unheld, Closers
  <2>3. Beats'
    BY <1>6 DEF Break, TypeOK, Attempts, Beats, SocketsHeld, Unheld, Closers
  <2>4. SocketsHeld'
    BY <1>6 DEF Break, TypeOK, Attempts, Beats, SocketsHeld, Unheld, Closers
  <2>5. QED
    BY <2>1, <2>2, <2>3, <2>4
<1>7. QED
  BY <1>1, <1>2, <1>3, <1>4, <1>5, <1>6

(***************************************************************************)
(* A step of close, by the read loop or by Stop.                           *)
(***************************************************************************)
LEMMA ClosingKeeps ==
  ASSUME IInv, NEW p \in Closers, CloseSteps(p)
  PROVE  IInv'
<1> USE ClientAssumption DEF ClientAssumption, IInv, Running, MayClose
<1>1. CASE FindConn(p)
  <2>1. TypeOK'
    BY <1>1 DEF FindConn, TypeOK, Attempts, Beats, SocketsHeld, Unheld, Closers
  <2>2. Attempts'
    BY <1>1 DEF FindConn, TypeOK, Attempts, Beats, SocketsHeld, Unheld, Closers
  <2>3. Beats'
    BY <1>1 DEF FindConn, TypeOK, Attempts, Beats, SocketsHeld, Unheld, Closers
  <2>4. SocketsHeld'
    BY <1>1 DEF FindConn, TypeOK, Attempts, Beats, SocketsHeld, Unheld, Closers
  <2>5. QED
    BY <2>1, <2>2, <2>3, <2>4
<1>2. CASE FindNoConn(p)
  <2>1. TypeOK'
    BY <1>2 DEF FindNoConn, CloseDone, TypeOK, Attempts, Beats, SocketsHeld, Unheld, Closers
  <2>2. Attempts'
    BY <1>2 DEF FindNoConn, CloseDone, TypeOK, Attempts, Beats, SocketsHeld, Unheld, Closers
  <2>3. Beats'
    BY <1>2 DEF FindNoConn, CloseDone, TypeOK, Attempts, Beats, SocketsHeld, Unheld, Closers
  <2>4. SocketsHeld'
    BY <1>2 DEF FindNoConn, CloseDone, TypeOK, Attempts, Beats, SocketsHeld, Unheld, Closers
  <2>5. QED
    BY <2>1, <2>2, <2>3, <2>4
<1>3. CASE Shut(p)
  <2>1. TypeOK'
    BY <1>3 DEF Shut, TypeOK, Attempts, Beats, SocketsHeld, Unheld, Closers
  <2>2. Attempts'
    BY <1>3 DEF Shut, TypeOK, Attempts, Beats, SocketsHeld, Unheld, Closers
  <2>3. Beats'
    BY <1>3 DEF Shut, TypeOK, Attempts, Beats, SocketsHeld, Unheld, Closers
  <2>4. SocketsHeld'
    BY <1>3 DEF Shut, TypeOK, Attempts, Beats, SocketsHeld, Unheld, Closers
  <2>5. QED
    BY <2>1, <2>2, <2>3, <2>4
<1>4. CASE Clear(p)
  <2>1. TypeOK'
    <3>1. /\ cancelled' \in BOOLEAN /\ starting' \in BOOLEAN
          /\ reachable' \in BOOLEAN /\ panicked' \in BOOLEAN
      BY Zenon, <1>4 DEF Clear, CloseDone, TypeOK
    <3>2. QED
      BY <1>4, <3>1 DEF Clear, CloseDone, TypeOK, Closers
  <2>2. Attempts'
    BY <1>4 DEF Clear, CloseDone, TypeOK, Attempts, Beats, SocketsHeld, Unheld, Closers
  <2>3. Beats'
    BY <1>4 DEF Clear, CloseDone, TypeOK, Attempts, Beats, SocketsHeld, Unheld, Closers
  <2>4. SocketsHeld'
    BY <1>4 DEF Clear, CloseDone, TypeOK, Attempts, Beats, SocketsHeld, Unheld, Closers
  <2>5. QED
    BY <2>1, <2>2, <2>3, <2>4
<1>5. QED
  BY <1>1, <1>2, <1>3, <1>4 DEF CloseSteps

LEMMA NextIInv == IInv /\ [Next]_vars => IInv'
<1> SUFFICES ASSUME IInv, [Next]_vars PROVE IInv'
  OBVIOUS
<1>1. CASE UNCHANGED vars
  BY <1>1 DEF vars, IInv, TypeOK, Attempts, Beats, SocketsHeld
<1>2. CASE Reader
  BY <1>2, ConnectingKeeps, ReadingKeeps DEF Reader
<1>3. CASE \E p \in Closers : CloseSteps(p)
  BY <1>3, ClosingKeeps
<1>4. CASE Heartbeat \/ StopCancels \/ ChangeReachable \/ \E s \in Sockets : Break(s)
  BY <1>4, BeatingKeeps DEF Heartbeat
<1>5. QED
  BY <1>1, <1>2, <1>3, <1>4 DEF Next

-----------------------------------------------------------------------------
(***************************************************************************)
(* The invariant holds in every state of the client, whatever the three    *)
(* goroutines, the network and Stop do.                                    *)
(***************************************************************************)
THEOREM Inductive == Spec => []IInv
BY InitIInv, NextIInv, PTL DEF Spec

(***************************************************************************)
(* The state keeps its types: at most MaxRetries attempts are made, and at *)
(* most three heartbeats fail.                                             *)
(***************************************************************************)
THEOREM TypeCorrect == Spec => []TypeOK
<1>1. IInv => TypeOK
  BY DEF IInv
<1>2. QED
  BY <1>1, Inductive, PTL

(***************************************************************************)
(* Until Stop is called at most one socket is open, and it is c.conn.      *)
(***************************************************************************)
THEOREM NoSocketLeaks == Spec => []NoLeak
<1>1. IInv => NoLeak
  BY DEF IInv, SocketsHeld, NoLeak
<1>2. QED
  BY <1>1, Inductive, PTL

(***************************************************************************)
(* Until Stop is called the client says "connected" only of a connection   *)
(* that it has open, but for the moment in which the read loop closes it.  *)
(***************************************************************************)
THEOREM ConnectedMeansOpen == Spec => []ConnectedIsOpen
<1>1. IInv => ConnectedIsOpen
  BY DEF IInv, SocketsHeld, ConnectedIsOpen
<1>2. QED
  BY <1>1, Inductive, PTL

-----------------------------------------------------------------------------
(***************************************************************************)
(* Who can use a nil connection. The read loop works on a connection it    *)
(* has seen, and until Stop is called nobody else clears it: the loop's    *)
(* own uses are safe, those of the heartbeat goroutine are not.            *)
(***************************************************************************)
UsesConn == pc \in {"bind", "bound", "read", "answer", "write"} \/ closing["reader"] = "shut"

Guarded ==
  ~cancelled => /\ UsesConn => conn # Nil
                /\ panicked => heart = "write" /\ conn = Nil

GInv == IInv /\ Guarded

LEMMA ReaderGuarded ==
  ASSUME GInv, Reader
  PROVE  Guarded'
<1> USE ClientAssumption
    DEF ClientAssumption, GInv, IInv, TypeOK, Attempts, SocketsHeld, Guarded, UsesConn, Running
<1>1. CASE BeginConnect \/ Dial \/ DialFails
  BY <1>1 DEF BeginConnect, Dial, DialFails, ConnectFailed
<1>2. CASE BindAnswered \/ SetConnected \/ BindFails
  BY <1>2 DEF BindAnswered, SetConnected, BindFails, ConnectFailed
<1>3. CASE LoopTop \/ ReadPanics \/ ReadMessage \/ ReadTimesOut \/ ReadFails
  BY <1>3 DEF LoopTop, ReadPanics, ReadMessage, ReadTimesOut, ReadFails
<1>4. CASE Answer \/ WriteAnswer
  BY <1>4 DEF Answer, WriteAnswer
<1>5. CASE BackoffEnds \/ BackoffCancelled
  BY <1>5 DEF BackoffEnds, BackoffCancelled
<1>6. QED
  BY <1>1, <1>2, <1>3, <1>4, <1>5 DEF Reader

LEMMA ClosingGuarded ==
  ASSUME GInv, NEW p \in Closers, CloseSteps(p)
  PROVE  Guarded'
<1> USE ClientAssumption
    DEF ClientAssumption, GInv, IInv, TypeOK, Attempts, SocketsHeld, Guarded, UsesConn, Running,
        MayClose, Closers
<1>1. CASE cancelled
  BY <1>1 DEF CloseSteps, FindConn, FindNoConn, Shut, Clear
<1>2. CASE ~cancelled
  <2>1. p = "reader"
    BY <1>2 DEF CloseSteps, FindConn, FindNoConn, Shut, Clear
  <2>2. CASE FindConn(p)
    BY <2>1, <2>2 DEF FindConn
  <2>3. CASE FindNoConn(p)
    BY <2>1, <2>3 DEF FindNoConn, CloseDone
  <2>4. CASE Shut(p)
    BY <1>2, <2>1, <2>4 DEF Shut
  <2>5. CASE Clear(p)
    BY <2>1, <2>5 DEF Clear, CloseDone
  <2>6. QED
    BY <2>2, <2>3, <2>4, <2>5 DEF CloseSteps
<1>3. QED
  BY <1>1, <1>2

LEMMA OthersGuarded ==
  ASSUME GInv, Heartbeat \/ StopCancels \/ ChangeReachable \/ \E s \in Sockets : Break(s)
  PROVE  Guarded'
<1> USE DEF GInv, Guarded, UsesConn, Running
<1>1. CASE Beat \/ HeartbeatEnds
  BY <1>1 DEF Beat, HeartbeatEnds, HeartbeatFails
<1>2. CASE WriteBeat
  BY <1>2 DEF WriteBeat, HeartbeatFails
<1>3. CASE StopCancels \/ ChangeReachable \/ \E s \in Sockets : Break(s)
  BY <1>3 DEF StopCancels, ChangeReachable, Break
<1>4. QED
  BY <1>1, <1>2, <1>3 DEF Heartbeat

LEMMA InitGuarded == Init => GInv
<1>1. Init => Guarded
  BY DEF Init, Guarded, UsesConn, Closers
<1>2. QED
  BY <1>1, InitIInv DEF GInv

LEMMA NextGuarded == GInv /\ [Next]_vars => GInv'
<1> SUFFICES ASSUME GInv, [Next]_vars PROVE GInv'
  OBVIOUS
<1>1. IInv'
  BY NextIInv DEF GInv
<1>2. CASE UNCHANGED vars
  BY <1>1, <1>2 DEF vars, GInv, Guarded, UsesConn
<1>3. CASE Next
  BY <1>1, <1>3, ReaderGuarded, ClosingGuarded, OthersGuarded DEF Next, GInv
<1>4. QED
  BY <1>2, <1>3

(***************************************************************************)
(* "Not connected" is a panic for the heartbeat goroutine alone, as long   *)
(* as Stop has not been called: the read loop, which looks at the          *)
(* connection once per turn, and the bind, which does not look, never use  *)
(* a nil connection, however often the connection is lost and made again.  *)
(***************************************************************************)
THEOREM ReaderSafeUntilStop == Spec => [](panicked /\ ~cancelled => heart = "write")
<1>1. GInv => (panicked /\ ~cancelled => heart = "write")
  BY DEF GInv, Guarded
<1>2. QED
  BY <1>1, InitGuarded, NextGuarded, PTL DEF Spec

LEMMA EndedHeart ==
  ASSUME IInv, [Next]_vars, heart = "ended"
  PROVE  heart' = "ended"
<1> USE DEF IInv, Attempts
<1>1. CASE UNCHANGED vars
  BY <1>1 DEF vars
<1>2. CASE Reader
  BY <1>2 DEF Reader, BeginConnect, Dial, DialFails, BindAnswered, SetConnected, BindFails,
     LoopTop, ReadPanics, ReadMessage, Answer, WriteAnswer, ReadTimesOut, ReadFails,
     BackoffEnds, BackoffCancelled
<1>3. CASE \E p \in Closers : CloseSteps(p)
  BY <1>3 DEF CloseSteps, FindConn, FindNoConn, Shut, Clear
<1>4. CASE Heartbeat \/ StopCancels \/ ChangeReachable \/ \E s \in Sockets : Break(s)
  BY <1>4 DEF Heartbeat, Beat, WriteBeat, HeartbeatEnds, StopCancels, ChangeReachable, Break
<1>5. QED
  BY <1>1, <1>2, <1>3, <1>4 DEF Next

(***************************************************************************)
(* The heartbeat goroutine is started once, by Start: after three failures *)
(* it has ended for good, whatever reconnections follow.                   *)
(***************************************************************************)
THEOREM NoHeartbeatAfterItsEnd == Spec => [][heart = "ended" => heart' = "ended"]_vars
<1>1. IInv /\ [Next]_vars => [heart = "ended" => heart' = "ended"]_vars
  BY EndedHeart
<1>2. QED
  BY <1>1, Inductive, PTL DEF Spec

-----------------------------------------------------------------------------
(***************************************************************************)
(* The client implements Link. Besides the invariant: while the read loop  *)
(* connects, the status says so, and a loop that has come to its end by    *)
(* itself holds nothing.                                                   *)
(***************************************************************************)
Connects ==
  /\ cancelled => stopper # "no"
  /\ ~cancelled => /\ pc \in {"dial", "bind", "bound"} => status = 1
                   /\ pc \in {"exit", "ended"} => open = {} /\ status # 2

LInv == IInv /\ Connects

LEMMA ConnectsStep ==
  ASSUME LInv, [Next]_vars
  PROVE  Connects'
<1> USE ClientAssumption
    DEF ClientAssumption, LInv, IInv, TypeOK, Attempts, SocketsHeld, Unheld, Connects
<1>1. CASE UNCHANGED vars
  BY <1>1 DEF vars
<1>2. CASE BeginConnect \/ Dial \/ DialFails
  BY <1>2 DEF BeginConnect, Dial, DialFails, ConnectFailed
<1>3. CASE BindAnswered \/ SetConnected \/ BindFails
  BY <1>3 DEF BindAnswered, SetConnected, BindFails, ConnectFailed
<1>4. CASE LoopTop \/ ReadPanics \/ ReadMessage \/ Answer \/ WriteAnswer \/ ReadTimesOut \/ ReadFails
  BY <1>4 DEF LoopTop, ReadPanics, ReadMessage, Answer, WriteAnswer, ReadTimesOut, ReadFails
<1>5. CASE BackoffEnds \/ BackoffCancelled
  BY <1>5 DEF BackoffEnds, BackoffCancelled
<1>6. ASSUME NEW p \in Closers, CloseSteps(p) PROVE Connects'
  <2>1. CASE cancelled
    BY <1>6, <2>1 DEF CloseSteps, FindConn, FindNoConn, Shut, Clear, CloseDone
  <2>2. CASE ~cancelled
    <3>1. p = "reader"
      BY <1>6, <2>2 DEF CloseSteps, FindConn, FindNoConn, Shut, Clear, MayClose, Closers
    <3>2. CASE FindConn(p) \/ Shut(p)
      BY <3>1, <3>2 DEF FindConn, Shut, MayClose
    <3>3. CASE FindNoConn(p)
      BY <2>2, <3>1, <3>3 DEF FindNoConn, MayClose, CloseDone
    <3>4. CASE Clear(p)
      BY <2>2, <3>1, <3>4 DEF Clear, CloseDone
    <3>5. QED
      BY <1>6, <3>2, <3>3, <3>4 DEF CloseSteps
  <2>3. QED
    BY <2>1, <2>2
<1>7. CASE Heartbeat \/ StopCancels \/ ChangeReachable \/ \E s \in Sockets : Break(s)
  BY <1>7 DEF Heartbeat, Beat, WriteBeat, HeartbeatEnds, StopCancels, ChangeReachable, Break
<1>8. QED
  BY <1>1, <1>2, <1>3, <1>4, <1>5, <1>6, <1>7 DEF Next, Reader

(***************************************************************************)
(* Start and reconnect: attempts that open, bind or fail.                  *)
(***************************************************************************)
LEMMA ConnectingLinks ==
  ASSUME LInv, BeginConnect \/ Dial \/ DialFails \/ BindAnswered \/ SetConnected \/ BindFails
  PROVE  [Promised!Next]_(Promised!vars)
<1> USE ClientAssumption
    DEF ClientAssumption, LInv, IInv, TypeOK, Attempts, SocketsHeld, Unheld, Connects
<1>1. CASE BeginConnect
  <2>1. CASE status = 2
    <3>1. cancelled /\ ~starting
      BY <1>1, <2>1 DEF BeginConnect
    <3>2. Phase = "down" /\ Phase' = "up" /\ tries' = 0 /\ cancelled' = cancelled
      BY <1>1, <2>1, <3>1 DEF BeginConnect, Phase
    <3>3. Promised!Bind
      BY <3>1, <3>2 DEF Promised!Bind, Promised!Connecting
    <3>4. QED
      BY <3>3 DEF Promised!Next
  <2>2. CASE status # 2
    <3>1. UNCHANGED <<Phase, tries, open, cancelled>> /\ (status = 2) = (status' = 2)
      BY <1>1, <2>2 DEF BeginConnect, Phase
    <3>2. QED
      BY <3>1 DEF Promised!vars
  <2>3. QED
    BY <2>1, <2>2
<1>2. CASE Dial
  <2>1. Phase \in {"starting", "down"} /\ UNCHANGED <<Phase, tries, cancelled, status>>
    BY <1>2 DEF Dial, Phase
  <2>2. ~cancelled => /\ open = {} /\ status # 2
                      /\ \E s \in Sockets : open' = {s}
    BY <1>2 DEF Dial
  <2>3. Promised!Open
    BY <2>1, <2>2 DEF Promised!Open, Promised!Connecting
  <2>4. QED
    BY <2>3 DEF Promised!Next
<1>3. CASE BindAnswered
  <2>1. UNCHANGED <<Phase, tries, open, cancelled, status>>
    BY <1>3 DEF BindAnswered, Phase
  <2>2. QED
    BY <2>1 DEF Promised!vars
<1>4. CASE SetConnected
  <2>1. Phase \in {"starting", "down"} /\ Phase' = "up" /\ tries' = 0 /\ UNCHANGED <<open, cancelled>>
    BY <1>4 DEF SetConnected, Phase
  <2>2. status' = 2 /\ (~cancelled => open # {})
    BY <1>4 DEF SetConnected
  <2>3. Promised!Bind
    BY <2>1, <2>2 DEF Promised!Bind, Promised!Connecting
  <2>4. QED
    BY <2>3 DEF Promised!Next
<1>5. CASE BindFails /\ conn = Nil
  <2>1. UNCHANGED <<Phase, tries, open, cancelled, status>>
    BY <1>5 DEF BindFails, Phase
  <2>2. QED
    BY <2>1 DEF Promised!vars
<1>6. CASE DialFails \/ (BindFails /\ conn # Nil)
  <2>1. /\ pc \in {"dial", "bind"} /\ status' = 0 /\ ConnectFailed
        /\ UNCHANGED <<starting, cancelled>>
        /\ ~cancelled => open' = {}
    BY <1>6 DEF DialFails, BindFails
  <2>2. CASE starting
    <3>1. Phase = "starting" /\ Phase' = "over" /\ UNCHANGED tries
      BY <2>1, <2>2 DEF ConnectFailed, Phase
    <3>2. Promised!Fail
      BY <2>1, <3>1 DEF Promised!Fail, Promised!Connecting
    <3>3. QED
      BY <3>2 DEF Promised!Next
  <2>3. CASE ~starting
    <3>1. /\ Phase = "down" /\ tries' = tries + 1
          /\ Phase' = IF tries' < MaxRetries THEN "down" ELSE "over"
      BY <2>1, <2>3 DEF ConnectFailed, Phase
    <3>2. Promised!Fail
      BY <2>1, <3>1 DEF Promised!Fail, Promised!Connecting
    <3>3. QED
      BY <3>2 DEF Promised!Next
  <2>4. QED
    BY <2>2, <2>3
<1>7. QED
  BY <1>1, <1>2, <1>3, <1>4, <1>5, <1>6

(***************************************************************************)
(* The read loop's turns: the connection stays up or is lost.              *)
(***************************************************************************)
LEMMA ReadingLinks ==
  ASSUME LInv,
         \/ LoopTop \/ ReadPanics \/ ReadMessage \/ Answer \/ WriteAnswer \/ ReadTimesOut \/ ReadFails
         \/ BackoffEnds \/ BackoffCancelled
  PROVE  [Promised!Next]_(Promised!vars)
<1> USE DEF LInv, IInv, Attempts
<1>1. CASE ReadPanics \/ ReadMessage \/ Answer \/ WriteAnswer \/ BackoffEnds
  <2>1. UNCHANGED <<Phase, tries, open, cancelled, status>>
    BY <1>1 DEF ReadPanics, ReadMessage, Answer, WriteAnswer, BackoffEnds, Phase
  <2>2. QED
    BY <2>1 DEF Promised!vars
<1>2. CASE LoopTop \/ ReadTimesOut \/ ReadFails
  <2>1. ~starting /\ Phase = "up" /\ UNCHANGED <<tries, open, cancelled, status>>
    BY <1>2 DEF LoopTop, ReadTimesOut, ReadFails, Phase
  <2>2. \/ pc' = "read" /\ Phase' = "up"
        \/ pc' = "reconnect" /\ Phase' = "down"
        \/ cancelled /\ Phase' = "over"
    BY <1>2, <2>1 DEF LoopTop, ReadTimesOut, ReadFails, Phase
  <2>3. Promised!Lose \/ Promised!WindUp \/ UNCHANGED Promised!vars
    BY <2>1, <2>2, Zenon DEF Promised!Lose, Promised!WindUp, Promised!vars
  <2>4. QED
    BY <2>3 DEF Promised!Next
<1>3. CASE BackoffCancelled
  <2>1. cancelled /\ Phase' = "over" /\ UNCHANGED <<tries, open, cancelled, status>>
    BY <1>3 DEF BackoffCancelled, Phase
  <2>2. Promised!WindUp
    BY <2>1 DEF Promised!WindUp, TypeOK
  <2>3. QED
    BY <2>2 DEF Promised!Next
<1>4. QED
  BY <1>1, <1>2, <1>3

(***************************************************************************)
(* close: by the read loop, which loses its connection, or after Stop.     *)
(***************************************************************************)
LEMMA ClosingLinks ==
  ASSUME LInv, NEW p \in Closers, CloseSteps(p)
  PROVE  [Promised!Next]_(Promised!vars)
<1> USE ClientAssumption
    DEF ClientAssumption, LInv, IInv, TypeOK, Attempts, SocketsHeld, Unheld, Connects
<1>0. UNCHANGED <<cancelled, tries, starting>>
  BY DEF CloseSteps, FindConn, FindNoConn, Shut, Clear
<1>1. CASE cancelled
  <2>1. Phase' \in {Phase, "over"}
    BY <1>0 DEF CloseSteps, FindConn, FindNoConn, Shut, Clear, MayClose, CloseDone, Phase, Closers
  <2>2. Promised!WindUp
    BY <1>0, <1>1, <2>1 DEF Promised!WindUp
  <2>3. QED
    BY <2>2 DEF Promised!Next
<1>2. CASE ~cancelled
  <2>1. p = "reader"
    BY <1>2 DEF CloseSteps, FindConn, FindNoConn, Shut, Clear, MayClose, Closers
  <2>2. pc \in {"reconnect", "exit"} /\ ~starting
    BY <2>1 DEF CloseSteps, FindConn, FindNoConn, Shut, Clear, MayClose
  <2>3. CASE FindConn(p)
    <3>1. UNCHANGED <<Phase, tries, open, cancelled, status>>
      BY <2>3 DEF FindConn, Phase
    <3>2. QED
      BY <3>1 DEF Promised!vars
  <2>4. CASE Shut(p)
    <3>1. UNCHANGED <<Phase, tries, cancelled, status>> /\ (open' = open \/ open' = {})
      BY <1>2, <2>4 DEF Shut, Phase
    <3>2. open # {} => Phase = "down" /\ tries = 0
      BY <1>2, <2>2 DEF Phase
    <3>3. Promised!Close \/ UNCHANGED Promised!vars
      BY <3>1, <3>2 DEF Promised!Close, Promised!vars
    <3>4. QED
      BY <3>3 DEF Promised!Next
  <2>5. CASE FindNoConn(p) \/ Clear(p)
    <3>1. open = {} /\ open' = {} /\ status' = 0
      BY <1>2, <2>1, <2>5 DEF FindNoConn, Clear
    <3>2. CASE pc = "reconnect"
      <4>1. Phase = "down" /\ tries = 0 /\ Phase' = IF MaxRetries > 0 THEN "down" ELSE "over"
        BY <1>0, <2>1, <2>2, <2>5, <3>2 DEF FindNoConn, Clear, CloseDone, Phase
      <4>2. Promised!Forget
        BY <1>0, <3>1, <4>1 DEF Promised!Forget
      <4>3. QED
        BY <4>2 DEF Promised!Next
    <3>3. CASE pc = "exit"
      <4>1. UNCHANGED <<Phase, open>> /\ status # 2
        BY <1>0, <1>2, <2>1, <2>2, <2>5, <3>1, <3>3 DEF FindNoConn, Clear, CloseDone, Phase
      <4>2. QED
        BY <1>0, <3>1, <4>1 DEF Promised!vars
    <3>4. QED
      BY <2>2, <3>2, <3>3
  <2>6. QED
    BY <2>3, <2>4, <2>5 DEF CloseSteps
<1>3. QED
  BY <1>1, <1>2

LEMMA OthersLink ==
  ASSUME LInv, Heartbeat \/ StopCancels \/ ChangeReachable \/ \E s \in Sockets : Break(s)
  PROVE  [Promised!Next]_(Promised!vars)
<1>1. CASE Heartbeat \/ ChangeReachable \/ \E s \in Sockets : Break(s)
  <2>1. UNCHANGED <<Phase, tries, open, cancelled, status>>
    BY <1>1 DEF Heartbeat, Beat, WriteBeat, HeartbeatEnds, ChangeReachable, Break, Phase
  <2>2. QED
    BY <2>1 DEF Promised!vars
<1>2. CASE StopCancels
  <2>1. UNCHANGED <<Phase, tries, open, status>> /\ cancelled' = TRUE
    BY <1>2 DEF StopCancels, Phase
  <2>2. ~cancelled
    BY <1>2 DEF StopCancels, LInv, Connects
  <2>3. Promised!Stop
    BY <2>1, <2>2 DEF Promised!Stop
  <2>4. QED
    BY <2>3 DEF Promised!Next
<1>3. QED
  BY <1>1, <1>2

LEMMA StepLinks == LInv /\ [Next]_vars => [Promised!Next]_(Promised!vars)
<1> SUFFICES ASSUME LInv, [Next]_vars PROVE [Promised!Next]_(Promised!vars)
  OBVIOUS
<1>1. CASE UNCHANGED vars
  BY <1>1 DEF vars, Promised!vars, Phase
<1>2. CASE Next
  BY <1>2, ConnectingLinks, ReadingLinks, ClosingLinks, OthersLink DEF Next, Reader
<1>3. QED
  BY <1>1, <1>2

(***************************************************************************)
(* Whatever breaks, for any number of sockets and retries: one connection  *)
(* at a time, attempts within MaxRetries, no socket left by an attempt     *)
(* that failed, "connected" said of an open connection, until Stop.        *)
(***************************************************************************)
THEOREM LinkRefinement == Spec => ImplementsLink
<1>1. Init => Promised!Init
  BY DEF Init, Promised!Init, Phase
<1>2. Init => Connects
  BY DEF Init, Connects
<1>3. IInv /\ Connects /\ [Next]_vars => Connects'
  BY ConnectsStep DEF LInv
<1>4. IInv /\ Connects /\ [Next]_vars => [Promised!Next]_(Promised!vars)
  BY StepLinks DEF LInv
<1>5. QED
  BY <1>1, <1>2, <1>3, <1>4, Inductive, PTL DEF Spec, ImplementsLink, Promised!Spec

-----------------------------------------------------------------------------
(***************************************************************************)
(* While the client works on a connection it says that it is connected,    *)
(* and has that connection open: nobody but the read loop takes either     *)
(* away, and only after it has stopped reading (smsc_client.go:298-425).   *)
(***************************************************************************)
WorksConnected ==
  ~cancelled /\ pc \in {"loop", "read", "answer", "write"} => status = 2

LEMMA WorksConnectedStep ==
  ASSUME IInv, WorksConnected, [Next]_vars
  PROVE  WorksConnected'
<1> USE DEF IInv, SocketsHeld, Attempts, WorksConnected
<1>1. CASE UNCHANGED vars
  BY <1>1 DEF vars
<1>2. CASE BeginConnect \/ Dial \/ DialFails
  BY <1>2 DEF BeginConnect, Dial, DialFails, ConnectFailed
<1>3. CASE BindAnswered \/ SetConnected \/ BindFails
  BY <1>3 DEF BindAnswered, SetConnected, BindFails, ConnectFailed
<1>4. CASE LoopTop \/ ReadPanics \/ ReadMessage \/ Answer \/ WriteAnswer \/ ReadTimesOut \/ ReadFails
  BY <1>4 DEF LoopTop, ReadPanics, ReadMessage, Answer, WriteAnswer, ReadTimesOut, ReadFails
<1>5. CASE BackoffEnds \/ BackoffCancelled
  BY <1>5 DEF BackoffEnds, BackoffCancelled
<1>6. ASSUME NEW p \in Closers, CloseSteps(p) PROVE WorksConnected'
  <2>1. CASE cancelled
    BY <1>6, <2>1 DEF CloseSteps, FindConn, FindNoConn, Shut, Clear
  <2>2. CASE ~cancelled
    <3>1. p = "reader"
      BY <1>6, <2>2 DEF CloseSteps, FindConn, FindNoConn, Shut, Clear, MayClose, Closers
    <3>2. CASE FindConn(p) \/ Shut(p)
      BY <3>1, <3>2 DEF FindConn, Shut
    <3>3. CASE FindNoConn(p) \/ Clear(p)
      BY <3>1, <3>3 DEF FindNoConn, Clear, MayClose, CloseDone
    <3>4. QED
      BY <1>6, <3>2, <3>3 DEF CloseSteps
  <2>3. QED
    BY <2>1, <2>2
<1>7. CASE Heartbeat \/ StopCancels \/ ChangeReachable \/ \E s \in Sockets : Break(s)
  BY <1>7 DEF Heartbeat, Beat, WriteBeat, HeartbeatEnds, HeartbeatFails, StopCancels, ChangeReachable, Break
<1>8. QED
  BY <1>1, <1>2, <1>3, <1>4, <1>5, <1>6, <1>7 DEF Next, Reader

THEOREM WorkingMeansConnected ==
  Spec => [](~cancelled /\ pc \in {"loop", "read", "answer", "write"} =>
               status = 2 /\ conn \in open)
<1>1. Init => WorksConnected
  BY DEF Init, WorksConnected
<1>2. IInv /\ WorksConnected /\ [Next]_vars => WorksConnected'
  BY WorksConnectedStep
<1>3. IInv /\ WorksConnected =>
        (~cancelled /\ pc \in {"loop", "read", "answer", "write"} => status = 2 /\ conn \in open)
  BY DEF IInv, Attempts, SocketsHeld, WorksConnected
<1>4. QED
  BY <1>1, <1>2, <1>3, Inductive, PTL DEF Spec

-----------------------------------------------------------------------------
(***************************************************************************)
(* How far the read loop is, at most, from its end once Stop was called:   *)
(* an attempt to connect is five steps, a lost connection is closed and    *)
(* tried MaxRetries times, and one that is found ends the loop.            *)
(***************************************************************************)
Stage ==
  [at \in {"connect", "dial", "bind", "bound", "loop", "read", "answer", "write",
           "reconnect", "backoff", "exit", "ended", "failed"} |->
     CASE at \in {"ended", "failed"} -> 0
       [] at = "exit"               -> 1
       [] at = "loop"               -> 2
       [] at \in {"bound", "write"} -> 3
       [] at \in {"bind", "answer"} -> 4
       [] at = "dial"               -> 5
       [] at = "connect"            -> 6
       [] at = "backoff"            -> 7
       [] at = "reconnect"          -> 8
       [] at = "read"               -> 9]

Retrying == {"bind", "dial", "connect", "backoff", "reconnect", "read"}

Left(at, t) == Stage[at] + (IF at \in Retrying THEN 5 * (MaxRetries - t) ELSE 0)

StepsLeft == Left(pc, tries)

LEMMA LeftIs ==
  ASSUME NEW t \in 0..MaxRetries
  PROVE  /\ 5 * (MaxRetries - t) \in Nat
         /\ Left("ended", t) = 0 /\ Left("failed", t) = 0
         /\ Left("exit", t) = 1 /\ Left("loop", t) = 2
         /\ Left("bound", t) = 3 /\ Left("write", t) = 3 /\ Left("answer", t) = 4
         /\ Left("bind", t) = 4 + 5 * (MaxRetries - t)
         /\ Left("dial", t) = 5 + 5 * (MaxRetries - t)
         /\ Left("connect", t) = 6 + 5 * (MaxRetries - t)
         /\ Left("backoff", t) = 7 + 5 * (MaxRetries - t)
         /\ Left("reconnect", t) = 8 + 5 * (MaxRetries - t)
         /\ Left("read", t) = 9 + 5 * (MaxRetries - t)
BY ClientAssumption DEF ClientAssumption, Left, Stage, Retrying

LEMMA StepsLeftBounded == IInv => StepsLeft \in 0..(5 * MaxRetries + 9)
<1> SUFFICES ASSUME IInv PROVE StepsLeft \in 0..(5 * MaxRetries + 9)
  OBVIOUS
<1>1. tries \in 0..MaxRetries /\ MaxRetries \in Nat
  BY ClientAssumption DEF ClientAssumption, IInv, TypeOK
<1>2. Stage[pc] \in 0..9
  BY DEF Stage, IInv, TypeOK
<1>3. QED
  BY <1>1, <1>2 DEF StepsLeft, Left

(***************************************************************************)
(* The moves of the read loop: where from, where to, and the attempts.     *)
(***************************************************************************)
Moves(from, to) == pc = from /\ pc' \in to

Onwards ==
  \/ Moves("connect", {"loop"}) /\ tries' = 0
  \/ /\ \/ Moves("connect", {"dial"}) \/ Moves("dial", {"bind"}) \/ Moves("bind", {"bound"})
        \/ Moves("backoff", {"connect", "exit"})
        \/ Moves("read", {"answer", "loop", "reconnect"})
        \/ Moves("answer", {"loop", "write"}) \/ Moves("write", {"loop"})
        \/ Moves("reconnect", {"backoff", "exit"})
        \/ Moves("loop", {"exit"}) \/ Moves("exit", {"ended"})
     /\ UNCHANGED tries
  \/ Moves("bound", {"loop"}) /\ tries' = 0
  \/ (Moves("dial", {"failed"}) \/ Moves("bind", {"failed"})) /\ UNCHANGED tries
  \/ /\ Moves("dial", {"backoff", "exit"}) \/ Moves("bind", {"backoff", "exit"})
     /\ tries' = tries + 1

LEMMA OnwardsIsNearer ==
  ASSUME IInv, IInv', Onwards
  PROVE  StepsLeft' < StepsLeft
<1>1. StepsLeft = Left(pc, tries) /\ StepsLeft' = Left(pc', tries')
  BY DEF StepsLeft, Left, Retrying
<1>2. /\ tries \in 0..MaxRetries /\ tries' \in 0..MaxRetries
      /\ MaxRetries \in Nat
  BY ClientAssumption DEF ClientAssumption, IInv, TypeOK
<1>3. tries' = tries + 1 => 5 * (MaxRetries - tries) = 5 * (MaxRetries - tries') + 5
  BY <1>2
<1>4. PICK t \in 0..MaxRetries, u \in 0..MaxRetries : t = tries /\ u = tries'
  BY <1>2
<1> HIDE DEF Left
<1>5. CASE pc \in {"connect", "backoff", "read", "reconnect"}
  BY <1>1, <1>2, <1>4, <1>5, LeftIs DEF Onwards, Moves
<1>6. CASE pc \in {"bound", "answer", "write", "loop", "exit"}
  BY <1>1, <1>2, <1>4, <1>6, LeftIs DEF Onwards, Moves
<1>7. CASE pc \in {"dial", "bind"}
  BY <1>1, <1>2, <1>3, <1>4, <1>7, LeftIs DEF Onwards, Moves
<1>8. QED
  BY <1>5, <1>6, <1>7 DEF Onwards, Moves

LEMMA StopMovesOn ==
  ASSUME IInv, [Next]_vars, cancelled
  PROVE  UNCHANGED <<pc, tries>> \/ Onwards
<1> USE DEF Onwards, Moves
<1>1. CASE UNCHANGED vars
  BY <1>1 DEF vars
<1>2. CASE BeginConnect \/ Dial \/ BindAnswered \/ SetConnected
  BY <1>2 DEF BeginConnect, Dial, BindAnswered, SetConnected
<1>3. CASE DialFails \/ BindFails
  BY <1>3 DEF DialFails, BindFails, ConnectFailed
<1>4. CASE LoopTop
  BY <1>4 DEF LoopTop
<1>5. CASE ReadPanics \/ ReadMessage \/ Answer \/ WriteAnswer \/ ReadTimesOut \/ ReadFails
  BY <1>5 DEF ReadPanics, ReadMessage, Answer, WriteAnswer, ReadTimesOut, ReadFails
<1>6. CASE BackoffEnds \/ BackoffCancelled
  BY <1>6 DEF BackoffEnds, BackoffCancelled
<1>7. CASE \E p \in Closers : CloseSteps(p)
  <2>1. PICK p \in Closers : CloseSteps(p)
    BY <1>7
  <2>2. CASE FindConn(p) \/ Shut(p)
    BY <2>2 DEF FindConn, Shut
  <2>3. CASE FindNoConn(p) \/ Clear(p)
    <3>1. CloseDone(p) /\ UNCHANGED tries
      BY <2>3 DEF FindNoConn, Clear
    <3>2. p = "reader" => pc \in {"reconnect", "exit"}
      BY <2>3 DEF FindNoConn, Clear, MayClose, IInv, Attempts
    <3>3. QED
      BY <3>1, <3>2 DEF CloseDone
  <2>4. QED
    BY <2>1, <2>2, <2>3 DEF CloseSteps
<1>8. CASE Heartbeat \/ StopCancels \/ ChangeReachable \/ \E s \in Sockets : Break(s)
  BY <1>8 DEF Heartbeat, Beat, WriteBeat, HeartbeatEnds, StopCancels, ChangeReachable, Break
<1>9. QED
  BY <1>1, <1>2, <1>3, <1>4, <1>5, <1>6, <1>7, <1>8 DEF Next, Reader

LEMMA StopWindsDown ==
  ASSUME IInv, [Next]_vars, cancelled
  PROVE  UNCHANGED <<pc, tries>> \/ StepsLeft' < StepsLeft
<1>1. IInv'
  BY NextIInv
<1>2. QED
  BY <1>1, StopMovesOn, OnwardsIsNearer

(***************************************************************************)
(* After Stop every move of the read loop brings it nearer to its end,     *)
(* which is at most 5 * MaxRetries + 9 moves away, whatever the network    *)
(* and the heartbeat do. This is what StopEnds rests on                    *)
(* (smsc_client.go:298-411).                                               *)
(***************************************************************************)
THEOREM StopBoundsReader ==
  Spec => /\ [](StepsLeft \in 0..(5 * MaxRetries + 9))
          /\ [][cancelled => UNCHANGED <<pc, tries>> \/ StepsLeft' < StepsLeft]_vars
<1>1. IInv /\ [Next]_vars =>
        [cancelled => UNCHANGED <<pc, tries>> \/ StepsLeft' < StepsLeft]_vars
  BY StopWindsDown
<1>2. QED
  BY <1>1, StepsLeftBounded, Inductive, PTL DEF Spec
=============================================================================
