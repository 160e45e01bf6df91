------------------------- MODULE ResponseProcessor -------------------------
(***************************************************************************)
(* The ResponseProcessor of internal/processor/processor.go with the       *)
(* ProcessorHandler of processor_handler.go: the map of trackers under     *)
(* p.mutex, the goroutine each tracked message starts, the callers of      *)
(* ProcessResponse and GetDecision, and the periodic cleanup.              *)
(*                                                                         *)
(* The module speaks of the component.  main registers the processor's own *)
(* Handle, which gives every dispatched message to ProcessResponse, and no *)
(* ProcessorHandler: in the program as it is put together nothing tracks a *)
(* message, so no response finds a tracker and none is answered from here. *)
(*                                                                         *)
(* A generation is one successful TrackMessage, that is, one tracker       *)
(* object; the same message id (the SMSC's sequence number) may be tracked *)
(* again later.  Callers keep the tracker they looked up after p.mutex is  *)
(* released, so a generation may leave the map while it is in use.         *)
(*                                                                         *)
(* ResponseTracker details the tracker itself and implements               *)
(* TrackedMessage, which is what a tracker is here: its decisions are      *)
(* their actions, the earliest of them any of them, and the timer case of  *)
(* a wait is one step.                                                     *)
(*                                                                         *)
(* Time passes in units of MessageTimeout.  A due timer is served before   *)
(* the next unit ends (see Tick): goroutines may be late, but not by a     *)
(* whole timeout.                                                          *)
(***************************************************************************)
EXTENDS Naturals, FiniteSets

CONSTANTS MessageIDs,
          Systems,      \* SystemIDs of the sessions a message may be sent to
          MaxTrackers,  \* ProcessorConfig.MaxTrackers
          Responses,    \* calls of ProcessResponse
          Getters,      \* calls of GetDecision
          RetainFor,    \* for how many timeouts cleanup keeps a done tracker: 5
          AbandonAfter, \* ... and any tracker: 10
          MaxGens       \* bound: how many messages are tracked in a behaviour

ASSUME LimitAssumption ==
  /\ MessageIDs # {}
  /\ MaxTrackers \in Nat \ {0} /\ MaxGens \in Nat \ {0}
  /\ RetainFor \in Nat \ {0} /\ AbandonAfter \in Nat /\ RetainFor < AbandonAfter

VARIABLES
  trackers,   \* the map: message id -> generation, or None
  tracker,    \* generation -> its tracker (a record, see NewTracker)
  created,    \* how many generations exist
  goroutine,  \* generation -> its waiting goroutine: "none", "select", "due", "returned"
  answer,     \* generation -> the status of the response its goroutine built, or "none"
  resp,       \* response -> a call of ProcessResponse
  getter      \* getter -> a call of GetDecision

vars == <<trackers, tracker, created, goroutine, answer, resp, getter>>

Gens == 1 .. MaxGens
None == 0

Actions == {"ALLOW", "INTERCEPT", "UNKNOWN"}

(***************************************************************************)
(* What the processor calls the source of every response (line 134).       *)
(***************************************************************************)
SourceID == "unknown"

(***************************************************************************)
(* Ages beyond the last one cleanup asks about are not told apart.         *)
(***************************************************************************)
AgeCap == AbandonAfter + 1

NewTracker(id, sources) ==
  [id |-> id, expected |-> sources, responded |-> {}, actions |-> {},
   done |-> FALSE, final |-> "none", chan |-> FALSE, timedOut |-> FALSE, age |-> 0]

NoTracker == NewTracker(CHOOSE id \in MessageIDs : TRUE, {})

Idle == [st |-> "idle", of |-> None, gen |-> None, action |-> "UNKNOWN", result |-> "none"]
IdleGetter == [st |-> "idle", gen |-> None, wait |-> TRUE, result |-> "none"]

Init ==
  /\ trackers = [id \in MessageIDs |-> None]
  /\ tracker = [g \in Gens |-> NoTracker]
  /\ created = 0
  /\ goroutine = [g \in Gens |-> "none"]
  /\ answer = [g \in Gens |-> "none"]
  /\ resp = [p \in Responses |-> Idle]
  /\ getter = [c \in Getters |-> IdleGetter]

Tracked == {id \in MessageIDs : trackers[id] # None}

-----------------------------------------------------------------------------
(***************************************************************************)
(* TrackMessage under p.mutex: refused when the map is full or the id is   *)
(* in it, be its tracker done or not.                                      *)
(***************************************************************************)
MayTrackUnlimited(id) == trackers[id] = None
MayTrack(id) ==
  /\ Cardinality(Tracked) < MaxTrackers
  /\ trackers[id] = None

(***************************************************************************)
(* ProcessorHandler.Handle for a DELIVER_SM: the sessions at this moment   *)
(* are the sources, and a goroutine waits for the decision.  Without a     *)
(* session, or when TrackMessage refuses, nothing is tracked and the state *)
(* stays as it is.                                                         *)
(***************************************************************************)
Handle(id) ==
  /\ created < MaxGens
  /\ MayTrack(id)
  /\ \E sources \in SUBSET Systems \ {{}} :
       tracker' = [tracker EXCEPT ![created + 1] = NewTracker(id, sources)]
  /\ created' = created + 1
  /\ trackers' = [trackers EXCEPT ![id] = created + 1]
  /\ goroutine' = [goroutine EXCEPT ![created + 1] = "select"]
  /\ UNCHANGED <<answer, resp, getter>>

(***************************************************************************)
(* createResponseByDecision.                                               *)
(***************************************************************************)
StatusOf(action) == IF action = "INTERCEPT" THEN "SM_REJECT" ELSE "SM_OK"

(***************************************************************************)
(* WaitForCompletion for a caller whose timer is due or not: it takes the  *)
(* channel's element, or, its timer due, decides a tracker still pending   *)
(* (which also fills the channel).                                         *)
(***************************************************************************)
TakeFromChannel(g) ==
  /\ tracker[g].chan
  /\ tracker' = [tracker EXCEPT ![g].chan = FALSE]

TimedOutRegardless(tr) ==
  [tr EXCEPT !.done = TRUE, !.final = "ALLOW", !.timedOut = TRUE, !.chan = TRUE]
TimedOut(tr) ==
  IF tr.done THEN tr
  ELSE [tr EXCEPT !.done = TRUE, !.final = "ALLOW", !.timedOut = TRUE, !.chan = TRUE]

TakeTimer(g) == tracker' = [tracker EXCEPT ![g] = TimedOut(@)]

(***************************************************************************)
(* The message's goroutine returns from WaitForCompletion and builds the   *)
(* response for the SMSC.                                                  *)
(***************************************************************************)
GoroutineAwaitsDecision(g) ==
  /\ goroutine[g] \in {"select", "due"}
  /\ TakeFromChannel(g)
  /\ goroutine' = [goroutine EXCEPT ![g] = "returned"]
  /\ answer' = [answer EXCEPT ![g] = StatusOf(tracker'[g].final)]
  /\ UNCHANGED <<trackers, created, resp, getter>>

GoroutineReturns(g) ==
  /\ \/ goroutine[g] \in {"select", "due"} /\ TakeFromChannel(g)
     \/ goroutine[g] = "due" /\ TakeTimer(g)
  /\ goroutine' = [goroutine EXCEPT ![g] = "returned"]
  /\ answer' = [answer EXCEPT ![g] = StatusOf(tracker'[g].final)]
  /\ UNCHANGED <<trackers, created, resp, getter>>

-----------------------------------------------------------------------------
(***************************************************************************)
(* ProcessResponse.  A network element answers the message of generation   *)
(* of; the tracker is looked up by message id under p.mutex, which is      *)
(* released before the tracker is used.                                    *)
(***************************************************************************)
Lookup(p) ==
  /\ resp[p].st = "idle"
  /\ \E of \in 1 .. created, action \in Actions :
       LET g == trackers[tracker[of].id] IN
         resp' = [resp EXCEPT ![p] =
                    [st |-> IF g = None THEN "unknown id" ELSE "found",
                     of |-> of, gen |-> g, action |-> action, result |-> "none"]]
  /\ UNCHANGED <<trackers, tracker, created, goroutine, answer, getter>>

(***************************************************************************)
(* AddDecision with the source the processor gives every response.         *)
(***************************************************************************)
AcceptsAlways(tr) == SourceID \in tr.expected
Accepts(tr) == ~tr.done /\ SourceID \in tr.expected

FinalOf(actions) == IF "INTERCEPT" \in actions THEN {"INTERCEPT"} ELSE actions

Completed(tr, final) == [tr EXCEPT !.done = TRUE, !.final = final, !.chan = TRUE]

Add(p) ==
  LET g  == resp[p].gen
      tr == [tracker[g] EXCEPT !.responded = @ \cup {SourceID},
                               !.actions = @ \cup {resp[p].action}]
  IN
  /\ resp[p].st = "found"
  /\ \/ /\ ~Accepts(tracker[g])
        /\ resp' = [resp EXCEPT ![p].st = "refused"]
        /\ UNCHANGED tracker
     \/ /\ Accepts(tracker[g])
        /\ resp' = [resp EXCEPT ![p].st = "added"]
        /\ IF tr.responded = tr.expected \/ resp[p].action = "INTERCEPT"
             THEN \E f \in FinalOf(tr.actions) :
                    tracker' = [tracker EXCEPT ![g] = Completed(tr, f)]
             ELSE tracker' = [tracker EXCEPT ![g] = tr]
  /\ UNCHANGED <<trackers, created, goroutine, answer, getter>>

(***************************************************************************)
(* IsDone, and the final decision read without the mutex; nil otherwise.   *)
(***************************************************************************)
Report(p) ==
  /\ resp[p].st = "added"
  /\ resp' = [resp EXCEPT ![p].st = "returned", ![p].result = tracker[resp[p].gen].final]
  /\ UNCHANGED <<trackers, tracker, created, goroutine, answer, getter>>

(***************************************************************************)
(* The handler that the dispatcher has of the processor: it calls          *)
(* ProcessResponse, logs what it says, and returns its error.              *)
(***************************************************************************)
HandleMessage(p) == Lookup(p) \/ Add(p) \/ Report(p)

-----------------------------------------------------------------------------
(***************************************************************************)
(* GetDecision: looks the tracker up, gives up when it is not to wait and  *)
(* the tracker is pending, and otherwise enters WaitForCompletion.  (The   *)
(* look-up and IsDone are one step: done is never taken back.)             *)
(***************************************************************************)
GetDecision(c) ==
  /\ getter[c].st = "idle"
  /\ \E id \in MessageIDs, wait \in BOOLEAN :
       LET g == trackers[id] IN
         /\ g # None
         /\ getter' = [getter EXCEPT ![c] =
              [st |-> IF ~wait /\ ~tracker[g].done THEN "not ready" ELSE "select",
               gen |-> g, wait |-> wait, result |-> "none"]]
  /\ UNCHANGED <<trackers, tracker, created, goroutine, answer, resp>>

GetterReturns(c) ==
  LET g == getter[c].gen IN
  /\ \/ getter[c].st \in {"select", "due"} /\ TakeFromChannel(g)
     \/ getter[c].st = "due" /\ TakeTimer(g)
  /\ getter' = [getter EXCEPT ![c].st = "returned", ![c].result = tracker'[g].final]
  /\ UNCHANGED <<trackers, created, goroutine, answer, resp>>

-----------------------------------------------------------------------------
(***************************************************************************)
(* cleanup under p.mutex: done and retained long enough, or far too old.   *)
(***************************************************************************)
ExpiredEarly(tr) == tr.done \/ tr.age > AbandonAfter
ExpiredUndone(tr) == tr.age > 0
ExpiredNever(tr) == tr.age > AgeCap
Expired(tr) == (tr.done /\ tr.age > RetainFor) \/ tr.age > AbandonAfter

Cleanup ==
  /\ \E id \in Tracked : Expired(tracker[trackers[id]])
  /\ trackers' = [id \in MessageIDs |->
                    IF id \in Tracked /\ Expired(tracker[trackers[id]])
                      THEN None ELSE trackers[id]]
  /\ UNCHANGED <<tracker, created, goroutine, answer, resp, getter>>

(***************************************************************************)
(* One MessageTimeout passes; timers that were running are due.            *)
(***************************************************************************)
Tick ==
  /\ \A g \in Gens : goroutine[g] # "due"
  /\ \A c \in Getters : getter[c].st # "due"
  /\ \/ \E g \in 1 .. created : tracker[g].age < AgeCap
     \/ \E c \in Getters : getter[c].st = "select"
  /\ tracker' = [g \in Gens |->
       IF g <= created /\ tracker[g].age < AgeCap
         THEN [tracker[g] EXCEPT !.age = @ + 1] ELSE tracker[g]]
  /\ goroutine' = [g \in Gens |-> IF goroutine[g] = "select" THEN "due" ELSE goroutine[g]]
  /\ getter' = [c \in Getters |->
       IF getter[c].st = "select" THEN [getter[c] EXCEPT !.st = "due"] ELSE getter[c]]
  /\ UNCHANGED <<trackers, created, answer, resp>>

Next ==
  \/ \E id \in MessageIDs : Handle(id)
  \/ \E g \in Gens : GoroutineReturns(g)
  \/ \E p \in Responses : HandleMessage(p)
  \/ \E c \in Getters : GetDecision(c) \/ GetterReturns(c)
  \/ Cleanup
  \/ Tick

Spec == Init /\ [][Next]_vars

(***************************************************************************)
(* Time passes, goroutines run and the cleanup ticker fires.               *)
(***************************************************************************)
Fairness ==
  /\ WF_vars(Tick)
  /\ WF_vars(Cleanup)
  /\ \A g \in Gens : WF_vars(GoroutineReturns(g))
  /\ \A c \in Getters : WF_vars(GetterReturns(c))

FairSpec == Spec /\ Fairness
-----------------------------------------------------------------------------
CallStates == {"idle", "unknown id", "found", "refused", "added", "returned"}
GetStates == {"idle", "not ready", "select", "due", "returned"}
Finals == Actions \cup {"none"}

TypeOK ==
  /\ trackers \in [MessageIDs -> {None} \cup 1 .. created]
  /\ tracker \in [Gens -> [id : MessageIDs, expected : SUBSET Systems,
                           responded : SUBSET Systems, actions : SUBSET Actions,
                           done : BOOLEAN, final : Finals, chan : BOOLEAN,
                           timedOut : BOOLEAN, age : 0 .. AgeCap]]
  /\ created \in 0 .. MaxGens
  /\ goroutine \in [Gens -> {"none", "select", "due", "returned"}]
  /\ answer \in [Gens -> {"none", "SM_OK", "SM_REJECT"}]
  /\ resp \in [Responses -> [st : CallStates, of : {None} \cup Gens,
                             gen : {None} \cup Gens, action : Actions,
                             result : Finals]]
  /\ getter \in [Getters -> [st : GetStates, gen : {None} \cup Gens,
                             wait : BOOLEAN, result : Finals]]

(***************************************************************************)
(* The response built for the SMSC, and what ProcessResponse and           *)
(* GetDecision report, come from one final decision per message: no caller *)
(* sees a different verdict, also after the tracker has left the map.      *)
(***************************************************************************)
OneVerdict ==
  /\ \A g \in Gens :
       answer[g] # "none" => tracker[g].done /\ answer[g] = StatusOf(tracker[g].final)
  /\ \A p \in Responses :
       resp[p].result # "none" => resp[p].result = tracker[resp[p].gen].final
  /\ \A c \in Getters :
       getter[c].result # "none" => getter[c].result = tracker[getter[c].gen].final

(***************************************************************************)
(* An intercepting response that was added makes the SMSC's answer         *)
(* SM_REJECT, whoever of ProcessResponse, goroutine and timer comes first. *)
(***************************************************************************)
InterceptIsReported ==
  \A p \in Responses :
    resp[p].st \in {"added", "returned"} /\ resp[p].action = "INTERCEPT" =>
      answer[resp[p].gen] # "SM_OK" /\ tracker[resp[p].gen].final = "INTERCEPT"

(***************************************************************************)
(* Cleanup removes no tracker whose message is still undecided: the        *)
(* goroutine's timer has always decided it before it is far too old.       *)
(***************************************************************************)
CleanupSparesPending ==
  [][\A id \in MessageIDs :
       trackers[id] # None /\ trackers'[id] # trackers[id]
         => tracker[trackers[id]].done]_vars

(***************************************************************************)
(* Retaining done trackers shields a reused sequence number: a response to *)
(* one message is added to a later message with the same id only when it   *)
(* is more than RetainFor timeouts late.                                   *)
(***************************************************************************)
RetentionShields ==
  [][\A p \in Responses :
       resp[p].st = "found" /\ resp'[p].st = "added" =>
         resp[p].gen = resp[p].of \/ tracker[resp[p].of].age > RetainFor]_vars

(***************************************************************************)
(* Each tracker is used as a TrackedMessage, which ResponseTracker         *)
(* implements: whoever looks one up, keeps it too long or throws it out    *)
(* of the map does nothing to it but what a tracker can do.                *)
(***************************************************************************)
Tracking(g) == INSTANCE TrackedMessage
                 WITH Source <- Systems, Action <- Actions,
                      expected <- tracker[g].expected,
                      responded <- tracker[g].responded,
                      actions <- tracker[g].actions,
                      final <- tracker[g].final,
                      byTimeout <- tracker[g].timedOut,
                      element <- tracker[g].chan

UsesTrackedMessages ==
  /\ \A g \in Gens : Tracking(g)!Init
  /\ [][\A g \in Gens : [Tracking(g)!Next]_(Tracking(g)!vars)]_vars

(***************************************************************************)
(* Of each message the processor promises what DecisionOnce does: one      *)
(* status, never changed, and whoever is told one (the SMSC by the         *)
(* message's goroutine, the callers of ProcessResponse and of GetDecision) *)
(* is told that one.                                                       *)
(***************************************************************************)
StatusOrNone(final) == IF final = "none" THEN "none" ELSE StatusOf(final)

Readers == {<<"SMSC">>} \cup ({"response"} \X Responses) \cup ({"getter"} \X Getters)

ToldResponse(g, p) ==
  IF resp[p].gen = g THEN StatusOrNone(resp[p].result) ELSE "none"
ToldGetter(g, c) ==
  IF getter[c].gen = g THEN StatusOrNone(getter[c].result) ELSE "none"

ToldTo(g, r) == CASE r[1] = "SMSC"     -> answer[g]
                  [] r[1] = "response" -> ToldResponse(g, r[2])
                  [] r[1] = "getter"   -> ToldGetter(g, r[2])
Told(g) == [r \in Readers |-> ToldTo(g, r)]

Verdict(g) == INSTANCE DecisionOnce
                WITH Value <- {"SM_OK", "SM_REJECT"}, None <- "none",
                     decided <- StatusOrNone(tracker[g].final), answer <- Told(g)

ImplementsDecisionOnce ==
  /\ \A g \in Gens : Verdict(g)!Init
  /\ [][\A g \in Gens : [Verdict(g)!Next]_(Verdict(g)!vars)]_vars

(***************************************************************************)
(* Every tracked message is answered, also when its tracker is cleaned up  *)
(* and when other callers take the channel's only element.                 *)
(***************************************************************************)
MessagesAnswered ==
  \A g \in Gens : goroutine[g] = "select" ~> answer[g] # "none"

(***************************************************************************)
(* Every tracker leaves the map in the end, so a full map does not refuse  *)
(* messages for ever.                                                      *)
(***************************************************************************)
InMap(g) == \E id \in MessageIDs : trackers[id] = g
CapacityReturns == \A g \in Gens : InMap(g) ~> ~InMap(g)

(***************************************************************************)
(* "Cannot add the decision, the tracker may be done" (processor.go line   *)
(* 160): a response is refused only because its message is decided.        *)
(***************************************************************************)
RefusedOnlyWhenDone ==
  \A p \in Responses : resp[p].st = "refused" => tracker[resp[p].gen].done
=============================================================================
