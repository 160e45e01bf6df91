-------------------------- MODULE DispatcherProofs --------------------------
(***************************************************************************)
(* Proofs about Dispatcher for any number of messages, workers and         *)
(* handlers and any capacity of the queue: its safety invariants, from one *)
(* inductive invariant.                                                    *)
(***************************************************************************)
EXTENDS Dispatcher, SequenceTheorems, FiniteSetTheorems, TLAPS

(***************************************************************************)
(* The inductive invariant.  Conservation counts places; what makes it     *)
(* inductive is where each message may be: in one place of the queue or in *)
(* the hands of one worker, accepted and unfinished in both cases, and     *)
(* nowhere once it is finished.                                            *)
(***************************************************************************)
QueuedIsPending ==
  \A i \in DOMAIN queue :
    /\ caller[queue[i]] = "accepted"
    /\ outcome[queue[i]] = "none"
    /\ \A w \in Workers : holds[w] # queue[i]

QueuedOnce == \A i, j \in DOMAIN queue : queue[i] = queue[j] => i = j

HeldIsPending ==
  \A w \in Workers : holds[w] # Nobody =>
    caller[holds[w]] = "accepted" /\ outcome[holds[w]] = "none"

HeldOnce ==
  \A v, w \in Workers : holds[v] = holds[w] /\ holds[v] # Nobody => v = w

BusyHolds ==
  \A w \in Workers : holds[w] # Nobody <=> worker[w] \in {"copy", "dispatch"}

PendingIsSomewhere ==
  \A m \in Messages : caller[m] = "accepted" /\ outcome[m] = "none" =>
    \/ \E i \in DOMAIN queue : queue[i] = m
    \/ \E w \in Workers : holds[w] = m

FinishedWasAccepted ==
  \A m \in Messages : outcome[m] # "none" => caller[m] = "accepted"

ClosedIsFinished == \A m \in errChClosed : outcome[m] # "none"

StoppingRuns == stopping => isRunning

FinishedInTime == {m \in Messages : outcome[m] \in {"ok", "failed"}}

Counted == IsFiniteSet(FinishedInTime) /\ dispatched = Cardinality(FinishedInTime)

IInv ==
  /\ TypeOK
  /\ QueuedIsPending
  /\ QueuedOnce
  /\ HeldIsPending
  /\ HeldOnce
  /\ BusyHolds
  /\ PendingIsSomewhere
  /\ FinishedWasAccepted
  /\ ClosedIsFinished
  /\ NoSendOnClosedErrCh
  /\ StoppingRuns
  /\ StoppedIsQuiet
  /\ Counted

LEMMA InitIInv == Init => IInv
<1> SUFFICES ASSUME Init PROVE IInv
  OBVIOUS
<1> USE DEF Init
<1>1. TypeOK
  <2>1. queue \in Seq(Messages) /\ Len(queue) <= Capacity
    BY DispatcherAssumption, EmptySeq DEF DispatcherAssumption
  <2>2. QED
    BY <2>1 DEF TypeOK, WorkerStates
<1>2. /\ QueuedIsPending /\ QueuedOnce /\ HeldIsPending /\ HeldOnce /\ BusyHolds
      /\ PendingIsSomewhere /\ FinishedWasAccepted /\ ClosedIsFinished
      /\ NoSendOnClosedErrCh /\ StoppingRuns /\ StoppedIsQuiet
  BY DEF QueuedIsPending, QueuedOnce, HeldIsPending, HeldOnce, BusyHolds,
         PendingIsSomewhere, FinishedWasAccepted, ClosedIsFinished,
         NoSendOnClosedErrCh, StoppingRuns, StoppedIsQuiet
<1>3. FinishedInTime = {}
  BY DEF FinishedInTime
<1>4. Counted
  BY <1>3, FS_EmptySet DEF Counted
<1>5. QED
  BY <1>1, <1>2, <1>4 DEF IInv

(***************************************************************************)
(* Actions that touch neither the queue, nor what workers hold, nor        *)
(* outcomes: only the lifecycle and the states of idle workers change.     *)
(***************************************************************************)
Placement == <<queue, caller, holds, outcome, dispatched>>

LEMMA PlacementKept ==
  ASSUME IInv, UNCHANGED Placement
  PROVE  /\ QueuedIsPending' /\ QueuedOnce' /\ HeldIsPending' /\ HeldOnce'
         /\ PendingIsSomewhere' /\ FinishedWasAccepted' /\ Counted'
<1>1. /\ QueuedIsPending' /\ QueuedOnce' /\ HeldIsPending' /\ HeldOnce'
      /\ PendingIsSomewhere' /\ FinishedWasAccepted'
  BY DEF IInv, Placement, QueuedIsPending, QueuedOnce, HeldIsPending, HeldOnce,
         PendingIsSomewhere, FinishedWasAccepted
<1>2. FinishedInTime' = FinishedInTime
  BY DEF Placement, FinishedInTime
<1>3. Counted'
  BY <1>2 DEF IInv, Counted, Placement
<1>4. QED
  BY <1>1, <1>3

(***************************************************************************)
(* Append keeps every element in its place and adds one behind them.       *)
(***************************************************************************)
LEMMA AppendFacts ==
  ASSUME NEW S, NEW s \in Seq(S), NEW e \in S, NEW t, t = Append(s, e)
  PROVE  /\ t \in Seq(S)
         /\ Len(s) \in Nat /\ Len(t) = Len(s) + 1
         /\ DOMAIN s = 1 .. Len(s) /\ DOMAIN t = 1 .. Len(s) + 1
         /\ \A i \in DOMAIN s : i \in DOMAIN t /\ t[i] = s[i]
         /\ Len(s) + 1 \in DOMAIN t /\ t[Len(s) + 1] = e
         /\ \E i \in DOMAIN t : t[i] = e
<1>1. /\ t \in Seq(S) /\ Len(s) \in Nat /\ Len(t) = Len(s) + 1
      /\ DOMAIN s = 1 .. Len(s) /\ DOMAIN t = 1 .. Len(t)
      /\ \A i \in 1 .. Len(s) : t[i] = s[i]
      /\ t[Len(s) + 1] = e
  BY AppendProperties, LenProperties
<1>2. Len(s) + 1 \in DOMAIN t
  BY <1>1
<1>3. QED
  BY <1>1, <1>2

(***************************************************************************)
(* Dispatch puts a message that is in no place yet into the queue.         *)
(***************************************************************************)
LEMMA EnqueueKeeps ==
  ASSUME IInv, NEW m \in Messages, Enqueue(m)
  PROVE  IInv'
<1> USE DEF IInv, Enqueue, TypeOK, WorkerStates
<1>0. outcome[m] = "none"
  BY DEF FinishedWasAccepted
<1>1. CASE Len(queue) < Capacity /\ queue' = Append(queue, m)
  <2>1. /\ queue' \in Seq(Messages)
        /\ Len(queue) \in Nat /\ Len(queue') = Len(queue) + 1
        /\ DOMAIN queue = 1 .. Len(queue) /\ DOMAIN queue' = 1 .. Len(queue) + 1
        /\ \A i \in DOMAIN queue : i \in DOMAIN queue' /\ queue'[i] = queue[i]
        /\ Len(queue) + 1 \in DOMAIN queue' /\ queue'[Len(queue) + 1] = m
        /\ \E i \in DOMAIN queue' : queue'[i] = m
    <3>1. queue \in Seq(Messages) /\ queue' = Append(queue, m) /\ m \in Messages
      BY <1>1
    <3>2. QED
      BY ONLY <3>1, AppendFacts
  <2>2. caller' = [caller EXCEPT ![m] = "accepted"] /\ UNCHANGED errors
    BY <1>1, DispatcherAssumption DEF DispatcherAssumption
  <2>3. TypeOK'
    <3>1. Len(queue') <= Capacity
      <4>1. Len(queue) < Capacity /\ Capacity \in Nat
        BY <1>1, DispatcherAssumption DEF DispatcherAssumption
      <4>2. QED
        BY ONLY <2>1, <4>1
    <3>2. caller' \in [Messages -> {"idle", "checked", "accepted", "refused"}]
      BY <2>2
    <3>3. QED
      BY <2>1, <2>2, <3>1, <3>2 DEF lifecycle
  <2>4. \A i \in DOMAIN queue : queue[i] # m
    BY DEF QueuedIsPending
  <2>5. \A w \in Workers : holds[w] # m
    BY DispatcherAssumption DEF HeldIsPending, DispatcherAssumption
  <2>6. QueuedIsPending'
    BY <1>0, <2>1, <2>2, <2>5 DEF QueuedIsPending
  <2>7. QueuedOnce'
    BY <2>1, <2>4 DEF QueuedOnce
  <2>8. HeldIsPending' /\ HeldOnce' /\ BusyHolds'
    BY <2>2, <2>5 DEF HeldIsPending, HeldOnce, BusyHolds
  <2>9. PendingIsSomewhere'
    <3>1. \E i \in DOMAIN queue' : queue'[i] = m
      BY ONLY <2>1
    <3>2. ASSUME NEW n \in Messages, n # m, caller[n] = "accepted", outcome[n] = "none"
          PROVE  (\E i \in DOMAIN queue' : queue'[i] = n) \/ (\E w \in Workers : holds[w] = n)
      <4>1. \A i \in DOMAIN queue : i \in DOMAIN queue' /\ queue'[i] = queue[i]
        BY <2>1
      <4>2. QED
        BY <3>2, <4>1 DEF PendingIsSomewhere
    <3>3. QED
      BY <2>2, <3>1, <3>2 DEF PendingIsSomewhere
  <2>10. FinishedWasAccepted' /\ ClosedIsFinished' /\ NoSendOnClosedErrCh'
    BY <2>2 DEF FinishedWasAccepted, ClosedIsFinished, NoSendOnClosedErrCh
  <2>11. StoppingRuns' /\ StoppedIsQuiet' /\ Counted'
    BY DEF StoppingRuns, StoppedIsQuiet, Counted, FinishedInTime, lifecycle
  <2>12. QED
    BY <2>3, <2>6, <2>7, <2>8, <2>9, <2>10, <2>11
<1>2. CASE queue' = queue /\ caller' = [caller EXCEPT ![m] = "refused"]
  <2>1. TypeOK'
    BY <1>2 DEF lifecycle
  <2>2. QueuedIsPending' /\ QueuedOnce' /\ HeldIsPending' /\ HeldOnce' /\ BusyHolds'
    BY <1>2, DispatcherAssumption
       DEF QueuedIsPending, QueuedOnce, HeldIsPending, HeldOnce, BusyHolds, DispatcherAssumption
  <2>3. PendingIsSomewhere' /\ FinishedWasAccepted' /\ ClosedIsFinished' /\ NoSendOnClosedErrCh'
    BY <1>2 DEF PendingIsSomewhere, FinishedWasAccepted, ClosedIsFinished, NoSendOnClosedErrCh
  <2>4. StoppingRuns' /\ StoppedIsQuiet' /\ Counted'
    BY DEF StoppingRuns, StoppedIsQuiet, Counted, FinishedInTime, lifecycle
  <2>5. QED
    BY <2>1, <2>2, <2>3, <2>4
<1>3. QED
  BY <1>1, <1>2

(***************************************************************************)
(* A worker takes the head of the queue.                                   *)
(***************************************************************************)
LEMMA DequeueKeeps ==
  ASSUME IInv, NEW w \in Workers, Dequeue(w)
  PROVE  IInv'
<1> USE DEF IInv, Dequeue, TypeOK, WorkerStates
<1> DEFINE m == Head(queue)
<1>1. /\ queue' \in Seq(Messages) /\ Len(queue') = Len(queue) - 1
      /\ Len(queue) \in Nat \ {0}
      /\ DOMAIN queue = 1 .. Len(queue) /\ DOMAIN queue' = 1 .. Len(queue) - 1
      /\ \A i \in 1 .. Len(queue) - 1 : queue'[i] = queue[i + 1]
      /\ m = queue[1] /\ m \in Messages
  BY HeadTailProperties, LenProperties
<1>2. caller[m] = "accepted" /\ outcome[m] = "none" /\ \A v \in Workers : holds[v] # m
  BY <1>1 DEF QueuedIsPending
<1>3. holds' = [holds EXCEPT ![w] = m] /\ worker' = [worker EXCEPT ![w] = "copy"]
  OBVIOUS
<1>4. TypeOK'
  BY <1>1, <1>3, DispatcherAssumption DEF lifecycle, stats, DispatcherAssumption
<1>5. \A i \in DOMAIN queue' : queue'[i] # m
  BY <1>1 DEF QueuedOnce
<1>6. QueuedIsPending'
  BY <1>1, <1>3, <1>5 DEF QueuedIsPending
<1>7. QueuedOnce'
  BY <1>1 DEF QueuedOnce
<1>8. HeldIsPending' /\ HeldOnce' /\ BusyHolds'
  BY <1>1, <1>2, <1>3, DispatcherAssumption
     DEF HeldIsPending, HeldOnce, BusyHolds, DispatcherAssumption
<1>9. ASSUME NEW n \in Messages, caller[n] = "accepted", outcome[n] = "none"
      PROVE  (\E i \in DOMAIN queue' : queue'[i] = n) \/ (\E v \in Workers : holds'[v] = n)
  <2>1. CASE \E v \in Workers : holds[v] = n
    <3>1. PICK v \in Workers : holds[v] = n
      BY <2>1
    <3>2. v # w
      BY <3>1, DispatcherAssumption DEF BusyHolds, DispatcherAssumption
    <3>3. QED
      BY <1>3, <3>1, <3>2
  <2>2. CASE \E i \in DOMAIN queue : queue[i] = n
    <3>1. PICK i \in DOMAIN queue : queue[i] = n
      BY <2>2
    <3>2. CASE i = 1
      BY <1>1, <1>3, <3>1, <3>2
    <3>3. CASE i # 1
      <4>1. i - 1 \in DOMAIN queue' /\ queue'[i - 1] = queue[i]
        BY <1>1, <3>3
      <4>2. QED
        BY <3>1, <4>1
    <3>4. QED
      BY <3>2, <3>3
  <2>3. QED
    BY <1>9, <2>1, <2>2 DEF PendingIsSomewhere
<1>10. PendingIsSomewhere'
  BY <1>9 DEF PendingIsSomewhere
<1>11. FinishedWasAccepted' /\ ClosedIsFinished' /\ NoSendOnClosedErrCh' /\ StoppingRuns'
  BY DEF FinishedWasAccepted, ClosedIsFinished, NoSendOnClosedErrCh, StoppingRuns, lifecycle
<1>12. StoppedIsQuiet' /\ Counted'
  BY DEF StoppedIsQuiet, Counted, FinishedInTime, lifecycle, stats
<1>13. QED
  BY <1>4, <1>6, <1>7, <1>8, <1>10, <1>11, <1>12

(***************************************************************************)
(* The end of DispatchSync: worker w lets go of a message whose outcome    *)
(* and count it has set.  What Finish and TimeOut have in common.          *)
(***************************************************************************)
LEMMA LetGoKeeps ==
  ASSUME IInv, NEW w \in Workers, worker[w] = "dispatch",
         NEW o \in {"ok", "failed", "timeout"},
         outcome' = [outcome EXCEPT ![holds[w]] = o],
         worker' = [worker EXCEPT ![w] = "check"],
         holds' = [holds EXCEPT ![w] = Nobody],
         UNCHANGED <<queue, handlers, lifecycle, caller, run>>
  PROVE  /\ holds[w] \in Messages
         /\ outcome[holds[w]] = "none"
         /\ QueuedIsPending' /\ QueuedOnce' /\ HeldIsPending' /\ HeldOnce' /\ BusyHolds'
         /\ PendingIsSomewhere' /\ FinishedWasAccepted' /\ StoppingRuns' /\ StoppedIsQuiet'
<1> USE DEF IInv, TypeOK, WorkerStates
<1> DEFINE m == holds[w]
<1>1. m \in Messages /\ m # Nobody
  BY DEF BusyHolds
<1>2. caller[m] = "accepted" /\ outcome[m] = "none"
  BY <1>1 DEF HeldIsPending
<1>3. QueuedIsPending' /\ QueuedOnce'
  BY <1>1, DispatcherAssumption DEF QueuedIsPending, QueuedOnce, DispatcherAssumption
<1>4. \A v \in Workers : v # w => holds[v] # m
  BY <1>1 DEF HeldOnce
<1>5. HeldIsPending' /\ HeldOnce' /\ BusyHolds'
  BY <1>1, <1>4 DEF HeldIsPending, HeldOnce, BusyHolds
<1>6. PendingIsSomewhere'
  <2>1. ASSUME NEW n \in Messages, caller[n] = "accepted", outcome'[n] = "none"
        PROVE  (\E i \in DOMAIN queue : queue[i] = n) \/ (\E v \in Workers : holds'[v] = n)
    <3>1. n # m /\ outcome[n] = "none"
      BY <1>1, <2>1
    <3>2. QED
      BY <2>1, <3>1 DEF PendingIsSomewhere
  <2>2. QED
    BY <2>1 DEF PendingIsSomewhere
<1>7. FinishedWasAccepted'
  BY <1>2 DEF FinishedWasAccepted
<1>8. StoppingRuns' /\ StoppedIsQuiet'
  BY DEF StoppingRuns, StoppedIsQuiet, lifecycle
<1>9. QED
  BY <1>1, <1>2, <1>3, <1>5, <1>6, <1>7, <1>8

(***************************************************************************)
(* All handlers have returned: errCh is closed, the message counted.       *)
(***************************************************************************)
LEMMA FinishKeeps ==
  ASSUME IInv, NEW w \in Workers, Finish(w)
  PROVE  IInv'
<1> USE DEF IInv, Finish, TypeOK, WorkerStates
<1> DEFINE m == holds[w]
           o == IF Failed(m) THEN "failed" ELSE "ok"
<1>1. outcome' = [outcome EXCEPT ![m] = o] /\ o \in {"ok", "failed"}
  OBVIOUS
<1>2. /\ m \in Messages /\ outcome[m] = "none"
      /\ QueuedIsPending' /\ QueuedOnce' /\ HeldIsPending' /\ HeldOnce' /\ BusyHolds'
      /\ PendingIsSomewhere' /\ FinishedWasAccepted' /\ StoppingRuns' /\ StoppedIsQuiet'
  BY <1>1, LetGoKeeps
<1>3. TypeOK'
  BY <1>1, <1>2 DEF lifecycle
<1>4. ClosedIsFinished'
  BY <1>1, <1>2 DEF ClosedIsFinished
<1>5. NoSendOnClosedErrCh'
  BY <1>2 DEF NoSendOnClosedErrCh, StillRunning
<1>6. Counted'
  <2>1. m \notin FinishedInTime
    BY <1>2 DEF FinishedInTime
  <2>2. FinishedInTime' = FinishedInTime \cup {m}
    BY <1>1, <1>2 DEF FinishedInTime
  <2>3. QED
    BY <2>1, <2>2, FS_AddElement DEF Counted
<1>7. QED
  BY <1>2, <1>3, <1>4, <1>5, <1>6

(***************************************************************************)
(* The timeout comes first: errCh stays open, nothing is counted as        *)
(* dispatched.                                                             *)
(***************************************************************************)
LEMMA TimeOutKeeps ==
  ASSUME IInv, NEW w \in Workers, TimeOut(w)
  PROVE  IInv'
<1> USE DEF IInv, TimeOut, TypeOK, WorkerStates
<1> DEFINE m == holds[w]
<1>1. /\ m \in Messages /\ outcome[m] = "none"
      /\ QueuedIsPending' /\ QueuedOnce' /\ HeldIsPending' /\ HeldOnce' /\ BusyHolds'
      /\ PendingIsSomewhere' /\ FinishedWasAccepted' /\ StoppingRuns' /\ StoppedIsQuiet'
  BY LetGoKeeps
<1>2. TypeOK'
  BY <1>1 DEF lifecycle
<1>3. ClosedIsFinished' /\ NoSendOnClosedErrCh'
  BY <1>1 DEF ClosedIsFinished, NoSendOnClosedErrCh
<1>4. FinishedInTime' = FinishedInTime
  BY <1>1 DEF FinishedInTime
<1>5. Counted'
  BY <1>4 DEF Counted
<1>6. QED
  BY <1>1, <1>2, <1>3, <1>5

(***************************************************************************)
(* A worker starts the handlers of the message it holds, which is          *)
(* unfinished, so that its errCh is a new one.                             *)
(***************************************************************************)
LEMMA CopyAndSpawnKeeps ==
  ASSUME IInv, NEW w \in Workers, CopyAndSpawn(w)
  PROVE  IInv'
<1> USE DEF IInv, CopyAndSpawn, TypeOK, WorkerStates
<1>1. UNCHANGED Placement
  BY DEF Placement, stats
<1>2. holds[w] \in Messages /\ holds[w] # Nobody
  BY DEF BusyHolds
<1>3. holds[w] \notin errChClosed
  BY <1>2 DEF HeldIsPending, ClosedIsFinished
<1>4. TypeOK'
  BY <1>2 DEF lifecycle, stats
<1>5. NoSendOnClosedErrCh'
  BY <1>2, <1>3 DEF NoSendOnClosedErrCh
<1>6. BusyHolds' /\ ClosedIsFinished' /\ StoppingRuns' /\ StoppedIsQuiet'
  BY <1>2 DEF BusyHolds, ClosedIsFinished, StoppingRuns, StoppedIsQuiet, lifecycle
<1>7. QED
  BY <1>1, <1>4, <1>5, <1>6, PlacementKept

(***************************************************************************)
(* The other steps of workers, handlers, callers and the lifecycle.        *)
(***************************************************************************)
LEMMA IdleStepKeeps ==
  ASSUME IInv, NEW w \in Workers, Check(w) \/ DequeueTimesOut(w)
  PROVE  IInv'
<1> USE DEF IInv, Check, DequeueTimesOut, TypeOK, WorkerStates
<1>1. UNCHANGED Placement
  BY DEF Placement, stats
<1>2. TypeOK'
  BY DEF lifecycle, stats
<1>3. BusyHolds' /\ ClosedIsFinished' /\ NoSendOnClosedErrCh' /\ StoppingRuns' /\ StoppedIsQuiet'
  BY DEF BusyHolds, ClosedIsFinished, NoSendOnClosedErrCh, StoppingRuns, StoppedIsQuiet, lifecycle
<1>4. QED
  BY <1>1, <1>2, <1>3, PlacementKept

LEMMA HandlerReturnsKeeps ==
  ASSUME IInv, NEW m \in Messages, NEW h \in Handlers, HandlerReturns(m, h)
  PROVE  IInv'
<1> USE DEF IInv, HandlerReturns, TypeOK
<1>1. UNCHANGED Placement
  BY DEF Placement, stats
<1>2. TypeOK'
  BY DEF lifecycle, stats
<1>3. BusyHolds' /\ ClosedIsFinished' /\ StoppingRuns' /\ StoppedIsQuiet'
  BY DEF BusyHolds, ClosedIsFinished, StoppingRuns, StoppedIsQuiet, lifecycle
<1>4. NoSendOnClosedErrCh'
  BY DEF NoSendOnClosedErrCh
<1>5. QED
  BY <1>1, <1>2, <1>3, <1>4, PlacementKept

LEMMA DispatchChecksKeeps ==
  ASSUME IInv, NEW m \in Messages, DispatchChecks(m)
  PROVE  IInv'
<1> USE DEF IInv, DispatchChecks, TypeOK
<1>1. PICK c \in {"refused", "checked"} : caller' = [caller EXCEPT ![m] = c]
  OBVIOUS
<1>2. outcome[m] = "none"
  BY DEF FinishedWasAccepted
<1>3. TypeOK'
  <2>1. errors' \in Nat
    OBVIOUS
  <2>2. QED
    BY <1>1, <2>1 DEF lifecycle
<1>4. QueuedIsPending' /\ QueuedOnce' /\ HeldIsPending' /\ HeldOnce' /\ BusyHolds'
  BY <1>1 DEF QueuedIsPending, QueuedOnce, HeldIsPending, HeldOnce, BusyHolds
<1>5. PendingIsSomewhere' /\ FinishedWasAccepted'
  BY <1>1, <1>2 DEF PendingIsSomewhere, FinishedWasAccepted
<1>6. ClosedIsFinished' /\ NoSendOnClosedErrCh' /\ StoppingRuns' /\ StoppedIsQuiet'
  BY DEF ClosedIsFinished, NoSendOnClosedErrCh, StoppingRuns, StoppedIsQuiet, lifecycle
<1>7. Counted'
  BY DEF Counted, FinishedInTime
<1>8. QED
  BY <1>3, <1>4, <1>5, <1>6, <1>7

LEMMA LifecycleKeeps ==
  ASSUME IInv, \/ Start \/ StopCancels \/ StopReturns \/ CancelParent
               \/ \E h \in Handlers : RegisterHandler(h)
  PROVE  IInv'
<1> USE DEF IInv, TypeOK, WorkerStates
<1>1. CASE Start
  <2>1. UNCHANGED Placement
    BY <1>1 DEF Start, Placement, stats
  <2>2. TypeOK'
    BY <1>1 DEF Start, stats
  <2>3. BusyHolds' /\ ClosedIsFinished' /\ NoSendOnClosedErrCh' /\ StoppingRuns' /\ StoppedIsQuiet'
    BY <1>1 DEF Start, BusyHolds, ClosedIsFinished, NoSendOnClosedErrCh, StoppingRuns, StoppedIsQuiet
  <2>4. QED
    BY <2>1, <2>2, <2>3, PlacementKept
<1>2. CASE StopCancels \/ CancelParent \/ \E h \in Handlers : RegisterHandler(h)
  <2> USE DEF StopCancels, CancelParent, RegisterHandler, MuFree
  <2>1. UNCHANGED Placement
    BY <1>2 DEF Placement, stats
  <2>2. TypeOK'
    BY <1>2 DEF stats, lifecycle
  <2>3. BusyHolds' /\ ClosedIsFinished' /\ NoSendOnClosedErrCh' /\ StoppingRuns' /\ StoppedIsQuiet'
    BY <1>2 DEF BusyHolds, ClosedIsFinished, NoSendOnClosedErrCh, StoppingRuns, StoppedIsQuiet, lifecycle
  <2>4. QED
    BY <2>1, <2>2, <2>3, PlacementKept
<1>3. CASE StopReturns
  <2>1. UNCHANGED Placement
    BY <1>3 DEF StopReturns, Placement, stats
  <2>2. TypeOK'
    BY <1>3 DEF StopReturns, stats
  <2>3. \A w \in Workers : holds[w] = Nobody
    BY <1>3 DEF StopReturns, BusyHolds
  <2>4. BusyHolds' /\ ClosedIsFinished' /\ NoSendOnClosedErrCh' /\ StoppingRuns' /\ StoppedIsQuiet'
    BY <1>3, <2>3
       DEF StopReturns, BusyHolds, ClosedIsFinished, NoSendOnClosedErrCh, StoppingRuns, StoppedIsQuiet
  <2>5. QED
    BY <2>1, <2>2, <2>4, PlacementKept
<1>4. QED
  BY <1>1, <1>2, <1>3

-----------------------------------------------------------------------------
LEMMA NextIInv == IInv /\ [Next]_vars => IInv'
<1> SUFFICES ASSUME IInv, [Next]_vars PROVE IInv'
  OBVIOUS
<1>1. CASE UNCHANGED vars
  <2>1. UNCHANGED Placement
    BY <1>1 DEF vars, Placement, stats
  <2>2. TypeOK' /\ BusyHolds' /\ ClosedIsFinished' /\ NoSendOnClosedErrCh' /\ StoppingRuns' /\ StoppedIsQuiet'
    BY <1>1 DEF IInv, vars, lifecycle, stats, TypeOK, BusyHolds, ClosedIsFinished,
                NoSendOnClosedErrCh, StoppingRuns, StoppedIsQuiet
  <2>3. QED
    BY <2>1, <2>2, PlacementKept DEF IInv
<1>2. CASE Next
  <2>1. CASE \/ Start \/ StopCancels \/ StopReturns \/ CancelParent
             \/ \E h \in Handlers : RegisterHandler(h)
    BY <2>1, LifecycleKeeps
  <2>2. CASE \E m \in Messages : DispatchChecks(m) \/ Enqueue(m)
    BY <2>2, DispatchChecksKeeps, EnqueueKeeps
  <2>3. CASE \E w \in Workers : \/ Check(w) \/ Dequeue(w) \/ DequeueTimesOut(w)
                                \/ CopyAndSpawn(w) \/ Finish(w) \/ TimeOut(w)
    BY <2>3, IdleStepKeeps, DequeueKeeps, CopyAndSpawnKeeps, FinishKeeps, TimeOutKeeps
  <2>4. CASE \E m \in Messages, h \in Handlers : HandlerReturns(m, h)
    BY <2>4, HandlerReturnsKeeps
  <2>5. QED
    BY <1>2, <2>1, <2>2, <2>3, <2>4 DEF Next
<1>3. QED
  BY <1>1, <1>2

THEOREM Inductive == Spec => []IInv
BY InitIInv, NextIInv, PTL DEF Spec

(***************************************************************************)
(* The state keeps its types; the queue never exceeds its capacity.        *)
(***************************************************************************)
THEOREM TypeCorrect == Spec => []TypeOK
<1>1. IInv => TypeOK
  BY DEF IInv
<1>2. QED
  BY <1>1, Inductive, PTL

(***************************************************************************)
(* No handler sends on a closed errCh, however late it returns.            *)
(***************************************************************************)
THEOREM NoPanicOnErrCh == Spec => []NoSendOnClosedErrCh
<1>1. IInv => NoSendOnClosedErrCh
  BY DEF IInv
<1>2. QED
  BY <1>1, Inductive, PTL

(***************************************************************************)
(* After Stop no worker is left and no message is with one.                *)
(***************************************************************************)
THEOREM QuietWhenStopped == Spec => []StoppedIsQuiet
<1>1. IInv => StoppedIsQuiet
  BY DEF IInv
<1>2. QED
  BY <1>1, Inductive, PTL

(***************************************************************************)
(* stats.dispatched is the number of messages finished in time.            *)
(***************************************************************************)
THEOREM CountsAgree == Spec => []DispatchedCountsFinished
<1>1. IInv => DispatchedCountsFinished
  BY DEF IInv, Counted, FinishedInTime, DispatchedCountsFinished
<1>2. QED
  BY <1>1, Inductive, PTL

(***************************************************************************)
(* What the invariant says of where a message may be, counted.             *)
(***************************************************************************)
LEMMA OnePlace == IInv => Conservation
<1> SUFFICES ASSUME IInv, NEW m \in Messages
             PROVE  Cardinality(Places(m)) + Cardinality(Holders(m))
                      + (IF outcome[m] # "none" THEN 1 ELSE 0)
                      = (IF caller[m] = "accepted" THEN 1 ELSE 0)
  BY DEF Conservation
<1> USE DEF IInv, TypeOK
<1>0. m # Nobody
  BY DispatcherAssumption DEF DispatcherAssumption
<1>1. CASE caller[m] # "accepted" \/ outcome[m] # "none"
  <2>1. Places(m) = {} /\ Holders(m) = {}
    BY <1>0, <1>1 DEF Places, Holders, QueuedIsPending, HeldIsPending
  <2>2. outcome[m] # "none" => caller[m] = "accepted"
    BY DEF FinishedWasAccepted
  <2>3. QED
    BY <1>1, <2>1, <2>2, FS_EmptySet
<1>2. CASE caller[m] = "accepted" /\ outcome[m] = "none"
  <2>1. CASE \E i \in DOMAIN queue : queue[i] = m
    <3>1. PICK i \in DOMAIN queue : queue[i] = m
      BY <2>1
    <3>2. Places(m) = {i}
      BY <3>1 DEF Places, QueuedOnce
    <3>3. Holders(m) = {}
      BY <3>1 DEF Holders, QueuedIsPending
    <3>4. Cardinality(Places(m)) = 1
      BY ONLY <3>2, FS_Singleton
    <3>5. Cardinality(Holders(m)) = 0
      BY ONLY <3>3, FS_EmptySet
    <3>6. QED
      BY <1>2, <3>4, <3>5
  <2>2. CASE \E w \in Workers : holds[w] = m
    <3>1. PICK w \in Workers : holds[w] = m
      BY <2>2
    <3>2. Holders(m) = {w}
      BY <1>0, <3>1 DEF Holders, HeldOnce
    <3>3. Places(m) = {}
      BY <3>1 DEF Places, QueuedIsPending
    <3>4. Cardinality(Holders(m)) = 1
      BY ONLY <3>2, FS_Singleton
    <3>5. Cardinality(Places(m)) = 0
      BY ONLY <3>3, FS_EmptySet
    <3>6. QED
      BY <1>2, <3>4, <3>5
  <2>3. QED
    BY <1>2, <2>1, <2>2 DEF PendingIsSomewhere
<1>3. QED
  BY <1>1, <1>2

(***************************************************************************)
(* An accepted message is in exactly one place: in the queue, with a       *)
(* worker, or finished.                                                    *)
(***************************************************************************)
THEOREM NothingLost == Spec => []Conservation
BY OnePlace, Inductive, PTL

-----------------------------------------------------------------------------
(***************************************************************************)
(* The dispatcher implements HandOut.  Steps that HandOut does not know    *)
(* are those that leave its variables as they are.                         *)
(***************************************************************************)
LEMMA SeenKept ==
  ASSUME IInv, UNCHANGED <<queue, holds, outcome>>,
         \A m \in Messages, h \in Handlers : run'[m][h] = "none" <=> run[m][h] = "none",
         \A w \in Workers : worker'[w] = "dispatch" <=> worker[w] = "dispatch"
  PROVE  UNCHANGED Promise!vars
<1>1. Finished' = Finished /\ Started' = Started
  BY DEF Finished, Started
<1>2. CalledFor' = CalledFor
  BY DEF CalledFor
<1>3. QED
  BY <1>1, <1>2 DEF Promise!vars

(***************************************************************************)
(* A checked message has been nowhere yet.                                 *)
(***************************************************************************)
LEMMA EnqueueAccepts ==
  ASSUME IInv, NEW m \in Messages, Enqueue(m)
  PROVE  [Promise!Next]_(Promise!vars)
<1> USE DEF IInv, Enqueue, TypeOK
<1>1. CASE Len(queue) < Capacity /\ queue' = Append(queue, m)
  <2>1. caller[m] = "checked"
    OBVIOUS
  <2>2. /\ \A i \in DOMAIN queue : queue[i] # m
        /\ \A w \in Workers : holds[w] # m
    BY <2>1, DispatcherAssumption DEF QueuedIsPending, HeldIsPending, DispatcherAssumption
  <2>3. m \notin Finished
    BY <2>1 DEF Finished, FinishedWasAccepted
  <2>4. UNCHANGED <<holds, Started, CalledFor, Finished>>
    BY DEF Finished, Started, CalledFor
  <2>5. Promise!Accept(m)
    BY <1>1, <2>2, <2>3, <2>4 DEF Promise!Accept
  <2>6. QED
    BY <2>5 DEF Promise!Next
<1>2. CASE UNCHANGED queue
  <2>1. UNCHANGED Promise!vars
    BY <1>2, SeenKept
  <2>2. QED
    BY <2>1
<1>3. QED
  BY <1>1, <1>2

LEMMA DequeueTakes ==
  ASSUME IInv, NEW w \in Workers, Dequeue(w)
  PROVE  Promise!Next
<1> USE DEF IInv, Dequeue, TypeOK, WorkerStates
<1>1. holds[w] = Nobody
  BY DEF BusyHolds
<1>2. Head(queue) \in Messages
  BY HeadTailProperties
<1>3. Finished' = Finished /\ CalledFor' = CalledFor
  BY DEF Finished, CalledFor
<1>4. ASSUME NEW m \in Messages, NEW v \in Workers
      PROVE  (holds'[v] = m /\ worker'[v] = "dispatch") <=> (holds[v] = m /\ worker[v] = "dispatch")
  OBVIOUS
<1>5. Started' = Started
  BY <1>3, <1>4 DEF Started
<1>6. Promise!Take(w)
  BY <1>1, <1>3, <1>5 DEF Promise!Take
<1>7. QED
  BY <1>6 DEF Promise!Next

(***************************************************************************)
(* The worker is the only one that has the message, and has not started    *)
(* its handlers.                                                           *)
(***************************************************************************)
LEMMA CopyAndSpawnCalls ==
  ASSUME IInv, NEW w \in Workers, CopyAndSpawn(w)
  PROVE  Promise!Next
<1> USE DEF IInv, CopyAndSpawn, TypeOK, WorkerStates
<1>1. PICK m \in Messages : m = holds[w] /\ m # Nobody
  BY DEF BusyHolds
<1>2. outcome[m] = "none" /\ \A v \in Workers : holds[v] = m => v = w
  BY <1>1 DEF HeldIsPending, HeldOnce
<1>3. m \notin Started
  BY <1>1, <1>2 DEF Started, Finished
<1>4. Finished' = Finished
  BY DEF Finished
<1>5. Started' = Started \cup {m}
  <2>1. worker' = [worker EXCEPT ![w] = "dispatch"] /\ holds' = holds
    OBVIOUS
  <2>2. ASSUME NEW n \in Messages
        PROVE  (\E v \in Workers : holds'[v] = n /\ worker'[v] = "dispatch")
                 <=> (n = m \/ \E v \in Workers : holds[v] = n /\ worker[v] = "dispatch")
    BY <1>1, <1>2, <2>1
  <2>3. QED
    BY <1>1, <1>4, <2>2 DEF Started
<1>6. CalledFor' = [CalledFor EXCEPT ![m] = handlers]
  <2>1. run' = [run EXCEPT ![m] =
                  [h \in Handlers |-> IF h \in handlers THEN "running" ELSE "none"]]
    BY <1>1
  <2>2. ASSUME NEW n \in Messages
        PROVE  {h \in Handlers : run'[n][h] # "none"}
                 = IF n = m THEN handlers ELSE {h \in Handlers : run[n][h] # "none"}
    <3>1. CASE n = m
      BY <2>1, <3>1
    <3>2. CASE n # m
      BY <2>1, <3>2
    <3>3. QED
      BY <3>1, <3>2
  <2>3. QED
    BY <1>1, <2>2 DEF CalledFor
<1>7. Promise!Call(w)
  <2>1. \E S \in SUBSET Handlers : CalledFor' = [CalledFor EXCEPT ![holds[w]] = S]
    BY <1>1, <1>6
  <2>2. QED
    BY <1>1, <1>3, <1>4, <1>5, <2>1 DEF Promise!Call
<1>8. QED
  BY <1>7 DEF Promise!Next

(***************************************************************************)
(* Finish and TimeOut alike: what was in the hand is finished, and was     *)
(* started.                                                                *)
(***************************************************************************)
LEMMA LetGoLetsGo ==
  ASSUME IInv, NEW w \in Workers, worker[w] = "dispatch",
         NEW o \in {"ok", "failed", "timeout"},
         outcome' = [outcome EXCEPT ![holds[w]] = o],
         worker' = [worker EXCEPT ![w] = "check"],
         holds' = [holds EXCEPT ![w] = Nobody],
         UNCHANGED <<queue, run>>
  PROVE  Promise!Next
<1> USE DEF IInv, TypeOK, WorkerStates
<1>1. PICK m \in Messages : m = holds[w] /\ m # Nobody
  BY DEF BusyHolds
<1>2. Finished' = Finished \cup {m}
  BY <1>1 DEF Finished
<1>3. m \in Started
  BY <1>1 DEF Started
<1>4. Started' = Started
  <2>1. ASSUME NEW n \in Messages, n # m
        PROVE  (\E v \in Workers : holds'[v] = n /\ worker'[v] = "dispatch")
                 <=> (\E v \in Workers : holds[v] = n /\ worker[v] = "dispatch")
    BY <1>1, <2>1
  <2>2. m \in Started'
    BY <1>1, <1>2 DEF Started
  <2>3. ASSUME NEW n \in Messages, n # m
        PROVE  n \in Started' <=> n \in Started
    BY <1>2, <2>1, <2>3 DEF Started
  <2>4. Started \subseteq Messages /\ Started' \subseteq Messages
    BY DEF Started, Finished
  <2>5. \A n \in Messages : n \in Started' <=> n \in Started
    BY <1>3, <2>2, <2>3
  <2> HIDE DEF IInv, TypeOK, WorkerStates
  <2>6. QED
    BY <2>4, <2>5
<1>5. CalledFor' = CalledFor
  BY DEF CalledFor
<1>6. Promise!LetGo(w)
  BY <1>1, <1>2, <1>3, <1>4, <1>5 DEF Promise!LetGo
<1>7. QED
  BY <1>6 DEF Promise!Next

(***************************************************************************)
(* Start finds no worker and no message in a hand: Stop has waited.        *)
(***************************************************************************)
LEMMA OthersUnseen ==
  ASSUME IInv,
         \/ Start \/ StopCancels \/ StopReturns \/ CancelParent
         \/ \E h \in Handlers : RegisterHandler(h)
         \/ \E m \in Messages : DispatchChecks(m)
         \/ \E w \in Workers : Check(w) \/ DequeueTimesOut(w)
         \/ \E m \in Messages, h \in Handlers : HandlerReturns(m, h)
         \/ UNCHANGED vars
  PROVE  UNCHANGED Promise!vars
<1> USE DEF IInv, TypeOK, WorkerStates
<1>1. UNCHANGED <<queue, holds, outcome>>
  BY DEF Start, StopCancels, StopReturns, CancelParent, RegisterHandler, DispatchChecks,
         Check, DequeueTimesOut, HandlerReturns, vars
<1>2. ASSUME NEW m \in Messages, NEW h \in Handlers
      PROVE  run'[m][h] = "none" <=> run[m][h] = "none"
  <2>1. CASE \E n \in Messages, g \in Handlers : HandlerReturns(n, g)
    BY <2>1 DEF HandlerReturns
  <2>2. CASE UNCHANGED run
    BY <2>2
  <2>3. QED
    BY <2>1, <2>2
       DEF Start, StopCancels, StopReturns, CancelParent, RegisterHandler, DispatchChecks,
           Check, DequeueTimesOut, vars
<1>3. ASSUME NEW w \in Workers
      PROVE  worker'[w] = "dispatch" <=> worker[w] = "dispatch"
  <2>1. CASE Start
    BY <2>1 DEF Start, StoppedIsQuiet
  <2>2. CASE \E v \in Workers : Check(v) \/ DequeueTimesOut(v)
    BY <2>2 DEF Check, DequeueTimesOut
  <2>3. CASE UNCHANGED worker
    BY <2>3
  <2>4. QED
    BY <2>1, <2>2, <2>3
       DEF StopCancels, StopReturns, CancelParent, RegisterHandler, DispatchChecks,
           HandlerReturns, vars
<1>4. QED
  BY <1>1, <1>2, <1>3, SeenKept

LEMMA StepHandsOut == IInv /\ [Next]_vars => [Promise!Next]_(Promise!vars)
<1> SUFFICES ASSUME IInv, [Next]_vars PROVE [Promise!Next]_(Promise!vars)
  OBVIOUS
<1>1. CASE \E m \in Messages : Enqueue(m)
  BY <1>1, EnqueueAccepts
<1>2. CASE \E w \in Workers : Dequeue(w)
  BY <1>2, DequeueTakes
<1>3. CASE \E w \in Workers : CopyAndSpawn(w)
  BY <1>3, CopyAndSpawnCalls
<1>4. CASE \E w \in Workers : Finish(w) \/ TimeOut(w)
  <2>1. ASSUME NEW w \in Workers, Finish(w)
        PROVE  Promise!Next
    <3>1. PICK o \in {"ok", "failed"} : outcome' = [outcome EXCEPT ![holds[w]] = o]
      BY <2>1 DEF Finish
    <3>2. QED
      BY <2>1, <3>1, LetGoLetsGo DEF Finish
  <2>2. ASSUME NEW w \in Workers, TimeOut(w)
        PROVE  Promise!Next
    BY <2>2, LetGoLetsGo DEF TimeOut
  <2>3. QED
    BY <1>4, <2>1, <2>2
<1>5. CASE \/ Start \/ StopCancels \/ StopReturns \/ CancelParent
           \/ \E h \in Handlers : RegisterHandler(h)
           \/ \E m \in Messages : DispatchChecks(m)
           \/ \E w \in Workers : Check(w) \/ DequeueTimesOut(w)
           \/ \E m \in Messages, h \in Handlers : HandlerReturns(m, h)
           \/ UNCHANGED vars
  BY <1>5, OthersUnseen
<1>6. QED
  BY <1>1, <1>2, <1>3, <1>4, <1>5 DEF Next

LEMMA InitHandsOut == Init => Promise!Init
BY DEF Init, Promise!Init, Started, Finished, CalledFor

(***************************************************************************)
(* Through stops and restarts, timeouts and handlers that outlive their    *)
(* message, messages leave the queue in the order of their acceptance, and *)
(* one worker calls each handler once for each of them (queue.go Enqueue   *)
(* and Dequeue, dispatcher.go worker and DispatchSync).                    *)
(***************************************************************************)
THEOREM HandOutRefinement == Spec => ImplementsHandOut
BY InitHandsOut, Inductive, StepHandsOut, PTL DEF Spec, ImplementsHandOut, Promise!Spec

-----------------------------------------------------------------------------
(***************************************************************************)
(* Stop waits for the workers with d.mu locked (dispatcher.go 111) and a   *)
(* worker that has taken a message waits for d.mu (192): once both do,     *)
(* neither goes on, whatever else happens.                                 *)
(***************************************************************************)
THEOREM StopDeadlockIsForEver ==
  Spec => [][\A w \in Workers :
               stopping /\ worker[w] = "copy" => stopping' /\ worker'[w] = "copy"]_vars
<1>1. IInv /\ [Next]_vars =>
        [\A w \in Workers :
           stopping /\ worker[w] = "copy" => stopping' /\ worker'[w] = "copy"]_vars
  <2> SUFFICES ASSUME IInv, Next, NEW w \in Workers, stopping, worker[w] = "copy"
               PROVE  stopping' /\ worker'[w] = "copy"
    OBVIOUS
  <2>1. worker \in [Workers -> WorkerStates]
    BY DEF IInv, TypeOK
  <2>2. CASE \/ Start \/ StopCancels \/ StopReturns \/ CancelParent
             \/ \E h \in Handlers : RegisterHandler(h)
    BY <2>2 DEF Start, StopCancels, StopReturns, CancelParent, RegisterHandler, MuFree
  <2>3. CASE \E m \in Messages : DispatchChecks(m) \/ Enqueue(m)
    BY <2>3 DEF DispatchChecks, Enqueue, lifecycle
  <2>4. CASE \E v \in Workers : Check(v) \/ Dequeue(v) \/ DequeueTimesOut(v)
    BY <2>1, <2>4 DEF Check, Dequeue, DequeueTimesOut, lifecycle
  <2>5. CASE \E v \in Workers : CopyAndSpawn(v) \/ Finish(v) \/ TimeOut(v)
    BY <2>1, <2>5 DEF CopyAndSpawn, Finish, TimeOut, lifecycle, MuFree
  <2>6. CASE \E m \in Messages, h \in Handlers : HandlerReturns(m, h)
    BY <2>6 DEF HandlerReturns, lifecycle
  <2>7. QED
    BY <2>2, <2>3, <2>4, <2>5, <2>6 DEF Next
<1>2. QED
  BY <1>1, Inductive, PTL DEF Spec

(***************************************************************************)
(* No failure, timeout or hanging handler costs the dispatcher a worker:   *)
(* while it runs and no context is done, all of them are at work. This is  *)
(* what AcceptedIsFinished rests on (dispatcher.go 251-284).                *)
(***************************************************************************)
WorkersAlive == isRunning /\ ~CtxDone => \A w \in Workers : worker[w] # "exited"

LEMMA WorkersAliveStep ==
  ASSUME IInv, WorkersAlive, [Next]_vars
  PROVE  WorkersAlive'
<1> SUFFICES ASSUME isRunning', ~CtxDone', NEW w \in Workers
             PROVE  worker'[w] # "exited"
  BY DEF WorkersAlive
<1>1. worker \in [Workers -> WorkerStates]
  BY DEF IInv, TypeOK
<1>2. ASSUME UNCHANGED <<isRunning, cancelled, parentDone>>
      PROVE  ~CtxDone /\ \A v \in Workers : worker[v] # "exited"
  BY <1>2, Zenon DEF WorkersAlive, CtxDone
<1>3. CASE UNCHANGED <<isRunning, cancelled, parentDone, worker>>
  BY <1>2, <1>3
<1>4. CASE Start \/ StopCancels \/ StopReturns
  BY <1>4 DEF Start, StopCancels, StopReturns, CtxDone
<1>5. CASE \E v \in Workers : Check(v)
  <2>1. PICK v \in Workers : Check(v)
    BY <1>5
  <2>2. ~CtxDone /\ \A u \in Workers : worker[u] # "exited"
    BY <1>2, <2>1 DEF Check, lifecycle
  <2>3. worker' = [worker EXCEPT ![v] = "dequeue"]
    BY <2>1, <2>2 DEF Check
  <2>4. QED
    BY <1>1, <2>2, <2>3
<1>6. CASE \E v \in Workers : \/ Dequeue(v) \/ DequeueTimesOut(v) \/ CopyAndSpawn(v)
                              \/ Finish(v) \/ TimeOut(v)
  <2>1. PICK v \in Workers : \/ Dequeue(v) \/ DequeueTimesOut(v) \/ CopyAndSpawn(v)
                             \/ Finish(v) \/ TimeOut(v)
    BY <1>6
  <2>2. \A u \in Workers : worker[u] # "exited"
    <3>1. UNCHANGED <<isRunning, cancelled, parentDone>>
      BY <2>1 DEF Dequeue, DequeueTimesOut, CopyAndSpawn, Finish, TimeOut, lifecycle
    <3>2. QED
      BY <1>2, <3>1
  <2>3. \E s \in {"check", "copy", "dispatch"} : worker' = [worker EXCEPT ![v] = s]
    BY <2>1 DEF Dequeue, DequeueTimesOut, CopyAndSpawn, Finish, TimeOut
  <2>4. QED
    BY <1>1, <2>2, <2>3
<1>7. CASE \/ CancelParent \/ UNCHANGED vars
           \/ \E h \in Handlers : RegisterHandler(h)
           \/ \E m \in Messages : DispatchChecks(m) \/ Enqueue(m)
           \/ \E m \in Messages, h \in Handlers : HandlerReturns(m, h)
  <2>1. CASE CancelParent
    BY <2>1 DEF CancelParent, CtxDone
  <2>2. CASE UNCHANGED vars \/ \E h \in Handlers : RegisterHandler(h)
    BY <1>3, <2>2 DEF vars, lifecycle, RegisterHandler
  <2>3. CASE \E m \in Messages : DispatchChecks(m)
    BY <1>3, <2>3 DEF DispatchChecks, lifecycle
  <2>4. CASE \E m \in Messages : Enqueue(m)
    BY <1>3, <2>4 DEF Enqueue, lifecycle
  <2>5. CASE \E m \in Messages, h \in Handlers : HandlerReturns(m, h)
    BY <1>3, <2>5 DEF HandlerReturns, lifecycle
  <2>6. QED
    BY <1>7, <2>1, <2>2, <2>3, <2>4, <2>5
<1>8. QED
  BY <1>4, <1>5, <1>6, <1>7 DEF Next

THEOREM NoWorkerIsLost == Spec => []WorkersAlive
<1>1. Init => WorkersAlive
  BY DEF Init, WorkersAlive
<1>2. IInv /\ WorkersAlive /\ [Next]_vars => WorkersAlive'
  BY WorkersAliveStep
<1>3. QED
  BY <1>1, <1>2, Inductive, PTL DEF Spec
=============================================================================
