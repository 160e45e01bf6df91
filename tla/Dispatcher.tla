----------------------------- MODULE Dispatcher -----------------------------
(***************************************************************************)
(* The MessageDispatcher of internal/dispatcher/dispatcher.go and its      *)
(* MessageQueue (queue.go): callers of Dispatch, a pool of workers, the    *)
(* goroutine per handler that DispatchSync starts, and Start and Stop,     *)
(* which hold d.mu.                                                        *)
(*                                                                         *)
(* d.mu is kept as who holds it for longer than one step: only Stop does,  *)
(* while it waits for the workers.  Every other use (Start,                *)
(* RegisterHandler, the copy of the handlers in DispatchSync) is a short   *)
(* section, one action that needs the lock to be free.  The lock of the    *)
(* queue is only ever read-locked and blocks nobody.                       *)
(***************************************************************************)
EXTENDS Naturals, Sequences, FiniteSets

CONSTANTS Messages,   \* the messages handed to Dispatch
          Workers,    \* config.workerCount goroutines
          Handlers,   \* what RegisterHandler may register
          Capacity,   \* config.queueSize
          Nobody      \* no message

ASSUME DispatcherAssumption ==
  /\ Capacity \in Nat \ {0}
  /\ Workers # {}
  /\ Nobody \notin Messages

VARIABLES
  queue,        \* msgQueue: the channel's content
  handlers,     \* d.handlers
  isRunning,
  stopping,     \* Stop holds d.mu and waits for the workers
  cancelled,    \* d.ctx is done by d.cancel
  parentDone,   \* the context given to Start is done
  caller,       \* message -> "idle", "checked", "accepted", "refused": its Dispatch call
  worker,       \* worker -> "exited", "check", "dequeue", "copy", "dispatch"
  holds,        \* worker -> the message it took from the queue
  run,          \* message -> handler -> "none", "running", "ok", "failed"
  errChClosed,  \* the messages whose errCh DispatchSync has closed
  outcome,      \* message -> "none", "ok", "failed", "timeout": DispatchSync's result
  dispatched,   \* stats.dispatched
  errors        \* stats.errors

lifecycle == <<isRunning, stopping, cancelled, parentDone>>
stats == <<dispatched, errors>>
vars == <<queue, handlers, lifecycle, caller, worker, holds, run, errChClosed,
          outcome, stats>>

Init ==
  /\ queue = <<>>
  /\ handlers = {}
  /\ isRunning = FALSE
  /\ stopping = FALSE
  /\ cancelled = FALSE
  /\ parentDone = FALSE
  /\ caller = [m \in Messages |-> "idle"]
  /\ worker = [w \in Workers |-> "exited"]
  /\ holds = [w \in Workers |-> Nobody]
  /\ run = [m \in Messages |-> [h \in Handlers |-> "none"]]
  /\ errChClosed = {}
  /\ outcome = [m \in Messages |-> "none"]
  /\ dispatched = 0
  /\ errors = 0

CtxDone == cancelled \/ parentDone
MuFree == ~stopping

-----------------------------------------------------------------------------
RegisterHandler(h) ==
  /\ MuFree
  /\ h \notin handlers
  /\ handlers' = handlers \cup {h}
  /\ UNCHANGED <<queue, lifecycle, caller, worker, holds, run, errChClosed, outcome, stats>>

(***************************************************************************)
(* Start: a fresh context and all workers; nothing if already running.     *)
(***************************************************************************)
Start ==
  /\ MuFree
  /\ ~isRunning
  /\ isRunning' = TRUE
  /\ cancelled' = FALSE
  /\ worker' = [w \in Workers |-> "check"]
  /\ UNCHANGED <<queue, handlers, stopping, parentDone, caller, holds, run, errChClosed,
                 outcome, stats>>

(***************************************************************************)
(* Stop up to wg.Wait, which it enters holding d.mu, and from there.       *)
(***************************************************************************)
StopCancels ==
  /\ MuFree
  /\ isRunning
  /\ cancelled' = TRUE
  /\ stopping' = TRUE
  /\ UNCHANGED <<queue, handlers, isRunning, parentDone, caller, worker, holds, run,
                 errChClosed, outcome, stats>>

StopWithoutWait ==
  /\ stopping
  /\ stopping' = FALSE
  /\ isRunning' = FALSE
  /\ UNCHANGED <<queue, handlers, cancelled, parentDone, caller, worker, holds, run,
                 errChClosed, outcome, stats>>

StopReturns ==
  /\ stopping
  /\ \A w \in Workers : worker[w] = "exited"
  /\ stopping' = FALSE
  /\ isRunning' = FALSE
  /\ UNCHANGED <<queue, handlers, cancelled, parentDone, caller, worker, holds, run,
                 errChClosed, outcome, stats>>

(***************************************************************************)
(* main cancels the context it gave to Start.                              *)
(***************************************************************************)
CancelParent ==
  /\ ~parentDone
  /\ parentDone' = TRUE
  /\ UNCHANGED <<queue, handlers, isRunning, stopping, cancelled, caller, worker, holds,
                 run, errChClosed, outcome, stats>>

-----------------------------------------------------------------------------
(***************************************************************************)
(* Dispatch reads isRunning without the lock, parses the bytes it may be   *)
(* given (which may fail, and is counted), refuses a value of any type but *)
(* those two (which is not), and only then enqueues.                       *)
(***************************************************************************)
DispatchChecks(m) ==
  /\ caller[m] = "idle"
  /\ \/ /\ caller' = [caller EXCEPT ![m] = "refused"]  \* not running, or the type
        /\ UNCHANGED errors
     \/ /\ isRunning
        /\ caller' = [caller EXCEPT ![m] = "refused"]  \* ParseMessage fails
        /\ errors' = errors + 1
     \/ /\ isRunning
        /\ caller' = [caller EXCEPT ![m] = "checked"]
        /\ UNCHANGED errors
  /\ UNCHANGED <<queue, handlers, lifecycle, worker, holds, run, errChClosed, outcome,
                 dispatched>>

(***************************************************************************)
(* Enqueue never blocks: a full queue refuses the message.                 *)
(***************************************************************************)
Enqueue(m) ==
  /\ caller[m] = "checked"
  /\ \/ /\ Len(queue) < Capacity
        /\ queue' = Append(queue, m)
        /\ caller' = [caller EXCEPT ![m] = "accepted"]
        /\ UNCHANGED errors
     \/ /\ Len(queue) = Capacity
        /\ caller' = [caller EXCEPT ![m] = "refused"]
        /\ errors' = errors + 1
        /\ UNCHANGED queue
  /\ UNCHANGED <<handlers, lifecycle, worker, holds, run, errChClosed, outcome, dispatched>>

-----------------------------------------------------------------------------
(***************************************************************************)
(* The worker loop: is the context done?                                   *)
(***************************************************************************)
Check(w) ==
  /\ worker[w] = "check"
  /\ worker' = [worker EXCEPT ![w] = IF CtxDone THEN "exited" ELSE "dequeue"]
  /\ UNCHANGED <<queue, handlers, lifecycle, caller, holds, run, errChClosed, outcome, stats>>

(***************************************************************************)
(* Dequeue takes a message, or gives up after 100 ms; where both are       *)
(* ready its select takes either.                                          *)
(***************************************************************************)
DequeuePeeks(w) ==
  /\ worker[w] = "dequeue"
  /\ queue # <<>>
  /\ UNCHANGED queue
  /\ holds' = [holds EXCEPT ![w] = Head(queue)]
  /\ worker' = [worker EXCEPT ![w] = "copy"]
  /\ UNCHANGED <<handlers, lifecycle, caller, run, errChClosed, outcome, stats>>

Dequeue(w) ==
  /\ worker[w] = "dequeue"
  /\ queue # <<>>
  /\ queue' = Tail(queue)
  /\ holds' = [holds EXCEPT ![w] = Head(queue)]
  /\ worker' = [worker EXCEPT ![w] = "copy"]
  /\ UNCHANGED <<handlers, lifecycle, caller, run, errChClosed, outcome, stats>>

DequeueTimesOut(w) ==
  /\ worker[w] = "dequeue"
  /\ worker' = [worker EXCEPT ![w] = "check"]
  /\ UNCHANGED <<queue, handlers, lifecycle, caller, holds, run, errChClosed, outcome, stats>>

(***************************************************************************)
(* DispatchSync: the handlers are copied under d.mu.RLock, then each runs  *)
(* in a goroutine of its own.                                              *)
(***************************************************************************)
CopyAndSpawn(w) ==
  /\ worker[w] = "copy"
  /\ MuFree
  /\ run' = [run EXCEPT ![holds[w]] =
               [h \in Handlers |-> IF h \in handlers THEN "running" ELSE "none"]]
  /\ worker' = [worker EXCEPT ![w] = "dispatch"]
  /\ UNCHANGED <<queue, handlers, lifecycle, caller, holds, errChClosed, outcome, stats>>

(***************************************************************************)
(* A handler returns, maybe long after DispatchSync has; an error goes to  *)
(* errCh, whose buffer has a place for each handler.                       *)
(***************************************************************************)
HandlerReturns(m, h) ==
  /\ run[m][h] = "running"
  /\ \E r \in {"ok", "failed"} : run' = [run EXCEPT ![m][h] = r]
  /\ UNCHANGED <<queue, handlers, lifecycle, caller, worker, holds, errChClosed, outcome,
                 stats>>

Failed(m) == \E h \in Handlers : run[m][h] = "failed"
StillRunning(m) == \E h \in Handlers : run[m][h] = "running"

(***************************************************************************)
(* The end of DispatchSync: all handlers are done, errCh is closed and     *)
(* drained; or the timeout (or the worker's context) comes first.          *)
(***************************************************************************)
FinishEarly(w) ==
  LET m == holds[w] IN
  /\ worker[w] = "dispatch"
  /\ errChClosed' = errChClosed \cup {m}
  /\ outcome' = [outcome EXCEPT ![m] = IF Failed(m) THEN "failed" ELSE "ok"]
  /\ dispatched' = dispatched + 1
  /\ errors' = IF Failed(m) THEN errors + 1 ELSE errors
  /\ worker' = [worker EXCEPT ![w] = "check"]
  /\ holds' = [holds EXCEPT ![w] = Nobody]
  /\ UNCHANGED <<queue, handlers, lifecycle, caller, run>>

Finish(w) ==
  LET m == holds[w] IN
  /\ worker[w] = "dispatch"
  /\ ~StillRunning(m)
  /\ errChClosed' = errChClosed \cup {m}
  /\ outcome' = [outcome EXCEPT ![m] = IF Failed(m) THEN "failed" ELSE "ok"]
  /\ dispatched' = dispatched + 1
  /\ errors' = IF Failed(m) THEN errors + 1 ELSE errors
  /\ worker' = [worker EXCEPT ![w] = "check"]
  /\ holds' = [holds EXCEPT ![w] = Nobody]
  /\ UNCHANGED <<queue, handlers, lifecycle, caller, run>>

TimeOutOnlyIfCancelled(w) ==
  /\ worker[w] = "dispatch"
  /\ CtxDone
  /\ outcome' = [outcome EXCEPT ![holds[w]] = "timeout"]
  /\ errors' = errors + 1
  /\ worker' = [worker EXCEPT ![w] = "check"]
  /\ holds' = [holds EXCEPT ![w] = Nobody]
  /\ UNCHANGED <<queue, handlers, lifecycle, caller, run, errChClosed, dispatched>>

TimeOut(w) ==
  /\ worker[w] = "dispatch"
  /\ outcome' = [outcome EXCEPT ![holds[w]] = "timeout"]
  /\ errors' = errors + 1
  /\ worker' = [worker EXCEPT ![w] = "check"]
  /\ holds' = [holds EXCEPT ![w] = Nobody]
  /\ UNCHANGED <<queue, handlers, lifecycle, caller, run, errChClosed, dispatched>>

Next ==
  \/ Start \/ StopCancels \/ StopReturns \/ CancelParent
  \/ \E h \in Handlers : RegisterHandler(h)
  \/ \E m \in Messages : DispatchChecks(m) \/ Enqueue(m)
  \/ \E w \in Workers : Check(w) \/ Dequeue(w) \/ DequeueTimesOut(w)
                          \/ CopyAndSpawn(w) \/ Finish(w) \/ TimeOut(w)
  \/ \E m \in Messages, h \in Handlers : HandlerReturns(m, h)

Spec == Init /\ [][Next]_vars

(***************************************************************************)
(* Goroutines run and timers fire.  Nothing is assumed of handlers (a      *)
(* handler may hang) nor of who calls Start, Stop or Dispatch.             *)
(***************************************************************************)
Fairness ==
  /\ WF_vars(StopReturns)
  /\ \A w \in Workers :
       /\ WF_vars(Check(w)) /\ WF_vars(DequeueTimesOut(w)) /\ WF_vars(CopyAndSpawn(w))
       /\ WF_vars(TimeOut(w))
       /\ SF_vars(Dequeue(w))

FairSpec == Spec /\ Fairness

-----------------------------------------------------------------------------
WorkerStates == {"exited", "check", "dequeue", "copy", "dispatch"}

TypeOK ==
  /\ queue \in Seq(Messages) /\ Len(queue) <= Capacity
  /\ handlers \in SUBSET Handlers
  /\ isRunning \in BOOLEAN /\ stopping \in BOOLEAN
  /\ cancelled \in BOOLEAN /\ parentDone \in BOOLEAN
  /\ caller \in [Messages -> {"idle", "checked", "accepted", "refused"}]
  /\ worker \in [Workers -> WorkerStates]
  /\ holds \in [Workers -> Messages \cup {Nobody}]
  /\ run \in [Messages -> [Handlers -> {"none", "running", "ok", "failed"}]]
  /\ errChClosed \in SUBSET Messages
  /\ outcome \in [Messages -> {"none", "ok", "failed", "timeout"}]
  /\ dispatched \in Nat
  /\ errors \in Nat

Holders(m) == {w \in Workers : holds[w] = m}
Places(m) == {i \in DOMAIN queue : queue[i] = m}

(***************************************************************************)
(* No message is lost or handled twice: an accepted message is in the      *)
(* queue once, or with one worker, or finished, and in one place only.     *)
(* Crossing Stop and a restart changes nothing of this.                    *)
(***************************************************************************)
Conservation ==
  \A m \in Messages :
    Cardinality(Places(m)) + Cardinality(Holders(m))
      + (IF outcome[m] # "none" THEN 1 ELSE 0)
      = (IF caller[m] = "accepted" THEN 1 ELSE 0)

(***************************************************************************)
(* errCh is closed only when no handler can send on it any more (a send    *)
(* would panic and take the proxy down).                                   *)
(***************************************************************************)
NoSendOnClosedErrCh ==
  \A m \in errChClosed, h \in Handlers : run[m][h] # "running"

(***************************************************************************)
(* Once Stop has returned no worker is left, so a restart never has more   *)
(* workers than configured, and no message is in a worker's hands.         *)
(***************************************************************************)
StoppedIsQuiet ==
  ~isRunning => \A w \in Workers : worker[w] = "exited" /\ holds[w] = Nobody

(***************************************************************************)
(* GetStats adds up: every message DispatchSync finished within its        *)
(* timeout is counted as dispatched, and nothing else is.                  *)
(***************************************************************************)
DispatchedCountsFinished ==
  dispatched = Cardinality({m \in Messages : outcome[m] \in {"ok", "failed"}})

(***************************************************************************)
(* The dispatcher implements HandOut, through stops, restarts and handlers *)
(* that outlive their message: accepted messages are taken in order, each  *)
(* by one worker, which calls each handler once for it.                    *)
(***************************************************************************)
Finished == {m \in Messages : outcome[m] # "none"}
Started ==
  Finished \cup {m \in Messages : \E w \in Workers : holds[w] = m /\ worker[w] = "dispatch"}
CalledFor == [m \in Messages |-> {h \in Handlers : run[m][h] # "none"}]

Promise == INSTANCE HandOut
             WITH waiting <- queue, hand <- holds, started <- Started,
                  called <- CalledFor, finished <- Finished

ImplementsHandOut == Promise!Spec

(***************************************************************************)
(* While nobody stops the dispatcher, an accepted message is dealt with,   *)
(* even if handlers hang: the timeout frees the worker.                    *)
(***************************************************************************)
AcceptedIsFinished ==
  \A m \in Messages :
    caller[m] = "accepted" ~> (outcome[m] # "none" \/ CtxDone \/ ~isRunning)

(***************************************************************************)
(* "Wait for all worker threads to exit" (dispatcher.go line 110): Stop    *)
(* comes back.                                                             *)
(***************************************************************************)
StopTerminates == stopping ~> ~stopping
=============================================================================
