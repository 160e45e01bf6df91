-------------------------- MODULE ResponseTracker --------------------------
(***************************************************************************)
(* One ResponseTracker of internal/processor/tracker.go: the goroutines    *)
(* that hand in decisions (AddDecision) race with each other and with the  *)
(* goroutines that wait for the result (WaitForCompletion), each of which  *)
(* holds a timer.                                                          *)
(*                                                                         *)
(* Every critical section of t.mutex is one action: nothing blocks inside  *)
(* one, because complete sends on the buffered channel without blocking.   *)
(* A decision is created (its timestamp is taken) outside the mutex, so    *)
(* creation and AddDecision are two steps of a responder.  A timer runs    *)
(* out at any moment; only then does its waiter ask for the mutex.         *)
(***************************************************************************)
EXTENDS DecisionRules

CONSTANTS Waiters,   \* goroutines inside WaitForCompletion
          Expected   \* the keys of expectedSources

ASSUME ExpectedAssumption == Expected \subseteq Sources

VARIABLES
  clock,          \* the wall clock, advanced by the calls that read it
  made,           \* responder -> the decision it created, or NoDecision
  handedIn,       \* responder -> "no", "accepted", "refused": AddDecision's result
  responded,      \* the expected sources marked true in expectedSources
  decisions,      \* decisions, in the order AddDecision took them
  done,
  finalDecision,
  completeChan,   \* the buffered channel: its one element, or NoDecision
  waiting,        \* waiter -> "idle", "select", "expired", "returned"
  result          \* waiter -> what WaitForCompletion returned

trackerVars == <<responded, decisions, done, finalDecision, completeChan>>
responderVars == <<clock, made, handedIn>>
waiterVars == <<waiting, result>>
vars == <<trackerVars, responderVars, waiterVars>>

(***************************************************************************)
(* NewResponseTracker.                                                     *)
(***************************************************************************)
Init ==
  /\ clock = 0
  /\ made = [r \in Responders |-> NoDecision]
  /\ handedIn = [r \in Responders |-> "no"]
  /\ responded = {}
  /\ decisions = <<>>
  /\ done = FALSE
  /\ finalDecision = NoDecision
  /\ completeChan = NoDecision
  /\ waiting = [w \in Waiters |-> "idle"]
  /\ result = [w \in Waiters |-> NoDecision]

(***************************************************************************)
(* A response arrives: its goroutine creates a decision.  The clock may or *)
(* may not have moved on when it is read next.                             *)
(***************************************************************************)
Create(r) ==
  /\ made[r] = NoDecision
  /\ \E src \in Sources, act \in ActionType :
       made' = [made EXCEPT ![r] = NewDecision(r, src, act, clock)]
  /\ clock' \in {clock, clock + 1}
  /\ UNCHANGED <<trackerVars, handedIn, waiterVars>>

(***************************************************************************)
(* complete: the send is dropped if the channel is full.                   *)
(***************************************************************************)
Complete(d) ==
  /\ done' = TRUE
  /\ finalDecision' = d
  /\ completeChan' = IF completeChan = NoDecision THEN d ELSE completeChan

(***************************************************************************)
(* AddDecision refuses a decision that is late or from a source nobody     *)
(* expects.                                                                *)
(***************************************************************************)
AcceptsIgnoringDone(d) == d.source \in Expected
Accepts(d) == ~done /\ d.source \in Expected

(***************************************************************************)
(* Does d end the tracking?  Every expected source has answered, or d      *)
(* intercepts.                                                             *)
(***************************************************************************)
EndsOnlyWhenAllResponded(d) == responded \cup {d.source} = Expected
EndsTracking(d) ==
  responded \cup {d.source} = Expected \/ d.action = Intercept

AddDecision(r) ==
  LET d == made[r] IN
  /\ d # NoDecision
  /\ handedIn[r] = "no"
  /\ \/ /\ ~Accepts(d)
        /\ handedIn' = [handedIn EXCEPT ![r] = "refused"]
        /\ UNCHANGED trackerVars
     \/ /\ Accepts(d)
        /\ handedIn' = [handedIn EXCEPT ![r] = "accepted"]
        /\ responded' = responded \cup {d.source}
        /\ decisions' = Append(decisions, d)
        /\ IF EndsTracking(d)
             THEN \E f \in ApplyDecisionRules(decisions') : Complete(f)
             ELSE UNCHANGED <<done, finalDecision, completeChan>>
  /\ UNCHANGED <<clock, made, waiterVars>>

(***************************************************************************)
(* A goroutine enters WaitForCompletion and blocks in its select.          *)
(***************************************************************************)
Wait(w) ==
  /\ waiting[w] = "idle"
  /\ waiting' = [waiting EXCEPT ![w] = "select"]
  /\ UNCHANGED <<trackerVars, responderVars, result>>

(***************************************************************************)
(* The select takes the completion channel.                                *)
(***************************************************************************)
Receive(w) ==
  /\ waiting[w] = "select"
  /\ completeChan # NoDecision
  /\ waiting' = [waiting EXCEPT ![w] = "returned"]
  /\ result' = [result EXCEPT ![w] = completeChan]
  /\ completeChan' = NoDecision
  /\ UNCHANGED <<responderVars, responded, decisions, done, finalDecision>>

(***************************************************************************)
(* The select takes the timer; the mutex is not held yet.                  *)
(***************************************************************************)
TimerFiresUnlessDone(w) ==
  /\ waiting[w] = "select"
  /\ ~done
  /\ waiting' = [waiting EXCEPT ![w] = "expired"]
  /\ UNCHANGED <<trackerVars, responderVars, result>>

TimerFires(w) ==
  /\ waiting[w] = "select"
  /\ waiting' = [waiting EXCEPT ![w] = "expired"]
  /\ UNCHANGED <<trackerVars, responderVars, result>>

(***************************************************************************)
(* The rest of the timer case, under the mutex.                            *)
(***************************************************************************)
ExpireRegardless(w) ==
  /\ waiting[w] = "expired"
  /\ Complete(NewTimeoutDecision(clock))
  /\ waiting' = [waiting EXCEPT ![w] = "returned"]
  /\ result' = [result EXCEPT ![w] = finalDecision']
  /\ UNCHANGED <<responderVars, responded, decisions>>

Expire(w) ==
  /\ waiting[w] = "expired"
  /\ IF done
       THEN UNCHANGED <<done, finalDecision, completeChan>>
       ELSE Complete(NewTimeoutDecision(clock))
  /\ waiting' = [waiting EXCEPT ![w] = "returned"]
  /\ result' = [result EXCEPT ![w] = finalDecision']
  /\ UNCHANGED <<responderVars, responded, decisions>>

Next ==
  \/ \E r \in Responders : Create(r) \/ AddDecision(r)
  \/ \E w \in Waiters : Wait(w) \/ Receive(w) \/ TimerFires(w) \/ Expire(w)

Spec == Init /\ [][Next]_vars

(***************************************************************************)
(* A timer that was started fires, and a goroutine that can go on does.    *)
(***************************************************************************)
Fairness ==
  /\ \A w \in Waiters : WF_vars(TimerFires(w)) /\ WF_vars(Expire(w))

FairSpec == Spec /\ Fairness
-----------------------------------------------------------------------------
Accepted == ToSet(decisions)

TypeOK ==
  /\ clock \in Nat
  /\ made \in [Responders -> Decision \cup {NoDecision}]
  /\ handedIn \in [Responders -> {"no", "accepted", "refused"}]
  /\ responded \in SUBSET Expected
  /\ decisions \in Seq(Decision)
  /\ done \in BOOLEAN
  /\ finalDecision \in Decision \cup {NoDecision}
  /\ completeChan \in Decision \cup {NoDecision}
  /\ waiting \in [Waiters -> {"idle", "select", "expired", "returned"}]
  /\ result \in [Waiters -> Decision \cup {NoDecision}]

(***************************************************************************)
(* Interception has priority over everything that comes with it or after   *)
(* it: once AddDecision has accepted an intercepting decision, the message *)
(* is decided and the final decision intercepts (rules 1 and 2 of          *)
(* ApplyDecisionRules, with AddDecision's early completion).               *)
(***************************************************************************)
InterceptPriority ==
  InterceptsOf(Accepted) # {} => done /\ finalDecision.action = Intercept

(***************************************************************************)
(* A timeout never overrides an answer: a message let through by timeout   *)
(* has a silent expected source (or none expected) and no interception.    *)
(***************************************************************************)
TimeoutOnlyForSilence ==
  done /\ finalDecision.isTimeout =>
    /\ responded # Expected \/ Expected = {}
    /\ InterceptsOf(Accepted) = {}

(***************************************************************************)
(* All waiters return the same decision, the final one, whether they got   *)
(* it from the channel or found it under the mutex after their timer.      *)
(***************************************************************************)
WaitersAgree ==
  \A w \in Waiters :
    waiting[w] = "returned" => done /\ result[w] = finalDecision

(***************************************************************************)
(* complete never meets a full channel ("should not happen", tracker.go    *)
(* line 111): before completion the channel is empty, afterwards it holds  *)
(* the final decision or nothing.                                          *)
(***************************************************************************)
ChannelHoldsFinal ==
  completeChan # NoDecision => done /\ completeChan = finalDecision

(***************************************************************************)
(* What the code chooses: a final decision that no timeout made is one of  *)
(* the accepted ones, and no accepted interception or, without one, no     *)
(* accepted decision, unknown ones included, was made earlier.  (The       *)
(* comments promise FirstReceivedWins instead.)                            *)
(***************************************************************************)
FinalIsEarliest ==
  done /\ ~finalDecision.isTimeout =>
    /\ finalDecision \in Accepted
    /\ \A d \in Accepted :
         d.action = finalDecision.action \/ finalDecision.action # Intercept
           => finalDecision.ts <= d.ts

(***************************************************************************)
(* "If there are only allowing decisions, the one received first is used"  *)
(* (rules.go line 12, and README line 197: first come, first served): when *)
(* every accepted decision allows, the one AddDecision took first is       *)
(* final, at least where no timestamps tie.  The code goes by timestamps,  *)
(* which are taken before the mutex.                                       *)
(***************************************************************************)
FirstReceivedWins ==
  /\ done /\ ~finalDecision.isTimeout
  /\ \A d \in Accepted : d.action = Allow
  /\ \A d, e \in Accepted : d.ts = e.ts => d = e
  => finalDecision = Head(decisions)

(***************************************************************************)
(* The tracker implements DecisionOnce: one final decision, never changed, *)
(* given to every waiter.                                                  *)
(***************************************************************************)
Abstract == INSTANCE DecisionOnce
              WITH Value <- Decision, Readers <- Waiters, None <- NoDecision,
                   decided <- finalDecision, answer <- result

ImplementsDecisionOnce == Abstract!Spec

(***************************************************************************)
(* The tracker implements TrackedMessage: sorting the decisions, the       *)
(* content of the channel and the two steps of a timer come to what a set  *)
(* of actions, a full or empty channel and one step would.                 *)
(***************************************************************************)
Gist == INSTANCE TrackedMessage
          WITH Source <- Sources, Action <- ActionType,
               expected <- Expected,
               actions <- {d.action : d \in Accepted},
               final <- IF done THEN finalDecision.action ELSE "none",
               byTimeout <- done /\ finalDecision.isTimeout,
               element <- completeChan # NoDecision

ImplementsTrackedMessage == Gist!Spec

(***************************************************************************)
(* Whoever waits is answered, even when another waiter has emptied the     *)
(* channel: its own timer brings it back.                                  *)
(***************************************************************************)
WaitersReturn ==
  \A w \in Waiters : waiting[w] = "select" ~> waiting[w] = "returned"
=============================================================================
