----------------------- MODULE ResponseProcessorProofs -----------------------
(***************************************************************************)
(* Proofs about ResponseProcessor, for any number of messages, sessions,   *)
(* responses and callers: every caller learns one verdict per message, an  *)
(* interception is never answered otherwise, cleanup spares what is        *)
(* undecided, and retention keeps reused ids apart.                        *)
(***************************************************************************)
EXTENDS ResponseProcessor, TLAPS

TrackerType == [id : MessageIDs, expected : SUBSET Systems,
                responded : SUBSET Systems, actions : SUBSET Actions,
                done : BOOLEAN, final : Finals, chan : BOOLEAN,
                timedOut : BOOLEAN, age : 0 .. AgeCap]
CallType == [st : CallStates, of : {None} \cup Gens, gen : {None} \cup Gens,
             action : Actions, result : Finals]
GetType == [st : GetStates, gen : {None} \cup Gens, wait : BOOLEAN, result : Finals]

\* Of one tracker: it has a final decision when it is done, and the channel an
\* element only then.
Decided(tr) == /\ tr.done <=> tr.final # "none"
               /\ tr.chan => tr.done

\* Of one message: its goroutine waits until it answers; while it waits the
\* tracker is young, once it has returned the tracker is done.
Waiting(g) ==
    /\ goroutine[g] = "none" <=> g > created
    /\ goroutine[g] = "select" => tracker[g].age = 0
    /\ goroutine[g] = "due" => tracker[g].age <= 1
    /\ goroutine[g] = "returned" <=> answer[g] # "none"
    /\ answer[g] # "none" => tracker[g].done /\ answer[g] = StatusOf(tracker[g].final)

\* A tracker that is not in the map any more has been retained.
Retained(g) == trackers[tracker[g].id] = g \/ tracker[g].age > RetainFor

\* Of a call of ProcessResponse.
CallInv(p) ==
    LET call == resp[p] IN
    /\ call.of <= created /\ call.gen <= created
    /\ call.st \in {"found", "refused", "added", "returned"} => call.gen # None /\ call.of # None
    /\ call.result # "none" => /\ call.st = "returned"
                               /\ tracker[call.gen].done /\ call.result = tracker[call.gen].final
    /\ call.st \in {"added", "returned"} /\ call.action = "INTERCEPT" => tracker[call.gen].final = "INTERCEPT"
    /\ call.st = "found" => call.gen = call.of \/ tracker[call.of].age > RetainFor

\* Of a call of GetDecision.
GetInv(c) ==
    LET get == getter[c] IN
    /\ get.gen <= created
    /\ get.st \in {"select", "due", "returned"} => get.gen # None
    /\ get.result # "none" => /\ get.st = "returned"
                              /\ tracker[get.gen].done /\ get.result = tracker[get.gen].final

ProcTypes ==
    /\ trackers \in [MessageIDs -> {None} \cup 1 .. created]
    /\ tracker \in [Gens -> TrackerType]
    /\ created \in 0 .. MaxGens
    /\ goroutine \in [Gens -> {"none", "select", "due", "returned"}]
    /\ answer \in [Gens -> {"none", "SM_OK", "SM_REJECT"}]
    /\ resp \in [Responses -> CallType]
    /\ getter \in [Getters -> GetType]

\* The trackers, by themselves and in the map.
TrackersInv ==
    /\ \A g \in Gens : Decided(tracker[g])
    /\ \A g \in 1 .. created : Retained(g)
    /\ \A id \in MessageIDs : trackers[id] # None => tracker[trackers[id]].id = id

ProcInv ==
    /\ ProcTypes
    /\ TrackersInv
    /\ \A g \in Gens : Waiting(g)
    /\ \A p \in Responses : CallInv(p)
    /\ \A c \in Getters : GetInv(c)

-----------------------------------------------------------------------------
LEMMA Constants ==
    /\ AgeCap \in Nat /\ RetainFor < AbandonAfter /\ RetainFor \in Nat \ {0}
    /\ AgeCap = AbandonAfter + 1 /\ AbandonAfter \in Nat /\ MaxGens \in Nat \ {0}
    /\ None = 0 /\ Gens = 1 .. MaxGens
BY LimitAssumption DEF AgeCap, None, Gens

LEMMA NewTrackerType ==
    ASSUME NEW id \in MessageIDs, NEW S \in SUBSET Systems
    PROVE  /\ NewTracker(id, S) \in TrackerType
           /\ NewTracker(id, S).id = id /\ NewTracker(id, S).age = 0
           /\ Decided(NewTracker(id, S))
BY Constants DEF NewTracker, TrackerType, Finals, Decided

LEMMA ProcInitInv == Init => ProcInv
<1> SUFFICES ASSUME Init PROVE ProcInv
  OBVIOUS
<1>1. NoTracker \in TrackerType /\ NoTracker.age = 0 /\ Decided(NoTracker)
  <2>1. (CHOOSE id \in MessageIDs : TRUE) \in MessageIDs
    BY LimitAssumption
  <2> QED
    BY <2>1, NewTrackerType DEF NoTracker
<1>2. Idle \in CallType /\ IdleGetter \in GetType
  BY Constants DEF Idle, IdleGetter, CallType, GetType, CallStates, GetStates, Finals, Actions
<1>3. ProcTypes
  BY <1>1, <1>2, Constants DEF Init, ProcTypes
<1>4. TrackersInv /\ \A g \in Gens : Waiting(g)
  BY <1>1, Constants DEF Init, Waiting, TrackersInv
<1>5. \A p \in Responses : CallInv(p)
  BY Constants DEF Init, CallInv, Idle
<1>6. \A c \in Getters : GetInv(c)
  BY Constants DEF Init, GetInv, IdleGetter
<1> QED
  BY <1>3, <1>4, <1>5, <1>6, Constants DEF Init, ProcInv

-----------------------------------------------------------------------------
\* What no step takes back: a tracker's id and decision, and its age.
Grows(g) ==
    /\ tracker'[g].id = tracker[g].id
    /\ tracker'[g].age >= tracker[g].age
    /\ tracker[g].done => tracker'[g].done /\ tracker'[g].final = tracker[g].final

\* So what a call has learnt stays true while it does nothing.
LEMMA CallKept ==
    ASSUME ProcInv, NEW p \in Responses, resp'[p] = resp[p], created' \in Nat, created' >= created,
           tracker' \in [Gens -> TrackerType], \A g \in 1 .. created : Grows(g)
    PROVE  CallInv(p)'
<1> DEFINE call == resp[p]
<1>1. call \in CallType /\ CallInv(p) /\ created \in Nat
  BY DEF ProcInv, ProcTypes
<1>2. call.of \in {None} \cup Gens /\ call.gen \in {None} \cup Gens
  BY <1>1 DEF CallType
<1>3. call.gen # None => Grows(call.gen) /\ Decided(tracker[call.gen])
  BY <1>1, <1>2, Constants DEF CallInv, ProcInv, TrackersInv
<1>4. call.of # None => Grows(call.of)
  BY <1>1, <1>2, Constants DEF CallInv
<1>5. call.of # None => tracker[call.of].age \in Nat /\ tracker'[call.of].age \in Nat
  BY <1>1, <1>2, Constants DEF ProcInv, ProcTypes, TrackerType
<1>6. call.of <= created' /\ call.gen <= created'
  BY <1>1, <1>2, Constants DEF CallInv
<1> QED
  BY <1>1, <1>3, <1>4, <1>5, <1>6, Constants DEF CallInv, Grows, Decided

LEMMA GetKept ==
    ASSUME ProcInv, NEW c \in Getters, getter'[c].gen = getter[c].gen, getter'[c].result = getter[c].result,
           \/ getter'[c].st = getter[c].st
           \/ getter[c].st = "select" /\ getter'[c].st = "due",
           created' \in Nat, created' >= created, \A g \in 1 .. created : Grows(g)
    PROVE  GetInv(c)'
<1>1. getter[c] \in GetType /\ GetInv(c) /\ created \in Nat
  BY DEF ProcInv, ProcTypes
<1>2. getter[c].gen \in {None} \cup Gens
  BY <1>1 DEF GetType
<1>3. getter[c].gen # None => Grows(getter[c].gen)
  BY <1>1, <1>2, Constants DEF GetInv
<1> QED
  BY <1>1, <1>2, <1>3, Constants DEF GetInv, Grows

\* One tracker changes, but not its id nor its age, and its decision only if it
\* has none yet.
Touches(g, tr) ==
    /\ tr \in TrackerType /\ Decided(tr)
    /\ tr.id = tracker[g].id /\ tr.age = tracker[g].age
    /\ tracker[g].done => tr.done /\ tr.final = tracker[g].final
    /\ tracker' = [tracker EXCEPT ![g] = tr]

LEMMA TouchKeeps ==
    ASSUME ProcInv, NEW g \in 1 .. created, NEW tr, Touches(g, tr), UNCHANGED <<trackers, created>>
    PROVE  /\ g \in Gens /\ tracker'[g] = tr
           /\ tracker' \in [Gens -> TrackerType]
           /\ \A h \in Gens : Grows(h) /\ tracker'[h].age = tracker[h].age
           /\ TrackersInv'
<1>1. g \in Gens /\ created \in Nat
  BY Constants DEF ProcInv, ProcTypes
<1>2. tracker'[g] = tr /\ \A h \in Gens \ {g} : tracker'[h] = tracker[h]
  BY <1>1 DEF Touches, ProcInv, ProcTypes
<1>3. tracker' \in [Gens -> TrackerType]
  BY <1>1 DEF Touches, ProcInv, ProcTypes
<1>4. \A h \in Gens : tracker[h].age \in Nat
  BY Constants DEF ProcInv, ProcTypes, TrackerType
<1>5. \A h \in Gens : Grows(h) /\ tracker'[h].age = tracker[h].age /\ tracker'[h].id = tracker[h].id
  BY <1>2, <1>4 DEF Touches, Grows
<1>6. \A h \in Gens : Decided(tracker'[h])
  BY <1>2 DEF Touches, ProcInv, TrackersInv
<1>7. \A h \in 1 .. created : Retained(h)'
  <2> SUFFICES ASSUME NEW h \in 1 .. created PROVE Retained(h)'
    OBVIOUS
  <2>1. h \in Gens /\ Retained(h)
    BY Constants DEF ProcInv, ProcTypes, TrackersInv
  <2> QED
    BY <1>5, <2>1 DEF Retained
<1>8. \A id \in MessageIDs : trackers'[id] # None => tracker'[trackers'[id]].id = id
  <2> SUFFICES ASSUME NEW id \in MessageIDs, trackers[id] # None PROVE tracker'[trackers[id]].id = id
    OBVIOUS
  <2>1. trackers[id] \in Gens /\ tracker[trackers[id]].id = id
    BY Constants DEF ProcInv, ProcTypes, TrackersInv
  <2> QED
    BY <1>5, <2>1
<1> QED
  BY <1>1, <1>2, <1>3, <1>5, <1>6, <1>7, <1>8 DEF TrackersInv

\* A return from WaitForCompletion touches the tracker and finds it decided.
LEMMA WaitTouches ==
    ASSUME ProcInv, NEW g \in 1 .. created, TakeFromChannel(g) \/ TakeTimer(g)
    PROVE  \E tr : Touches(g, tr) /\ tr.done
<1>1. g \in Gens /\ tracker[g] \in TrackerType /\ Decided(tracker[g])
  BY Constants DEF ProcInv, ProcTypes, TrackersInv
<1>2. CASE TakeFromChannel(g)
  <2> DEFINE tr == [tracker[g] EXCEPT !.chan = FALSE]
  <2>1. tracker' = [tracker EXCEPT ![g] = tr] /\ tracker[g].done
    BY <1>1, <1>2 DEF TakeFromChannel, Decided
  <2>2. /\ tr \in TrackerType /\ tr.id = tracker[g].id /\ tr.age = tracker[g].age
        /\ tr.done = tracker[g].done /\ tr.final = tracker[g].final /\ tr.chan = FALSE
    BY <1>1 DEF TrackerType
  <2> HIDE DEF tr
  <2>3. Touches(g, tr) /\ tr.done
    BY <1>1, <2>1, <2>2 DEF Touches, Decided
  <2> QED
    BY <2>3
<1>3. CASE TakeTimer(g)
  <2> DEFINE tr == TimedOut(tracker[g])
  <2>1. tracker' = [tracker EXCEPT ![g] = tr]
    BY <1>3 DEF TakeTimer
  <2>2. /\ tr \in TrackerType /\ tr.id = tracker[g].id /\ tr.age = tracker[g].age
        /\ tr.done /\ Decided(tr) /\ (tracker[g].done => tr = tracker[g])
    BY <1>1 DEF TimedOut, TrackerType, Decided, Finals, Actions
  <2> HIDE DEF tr
  <2>3. Touches(g, tr) /\ tr.done
    BY <2>1, <2>2 DEF Touches
  <2> QED
    BY <2>3
<1> QED
  BY <1>2, <1>3

-----------------------------------------------------------------------------
LEMMA HandleInv ==
    ASSUME ProcInv, NEW m \in MessageIDs, Handle(m)
    PROVE  ProcInv'
<1>n. PICK n : n = created + 1
  OBVIOUS
<1>1. PICK S \in SUBSET Systems :
        /\ tracker' = [tracker EXCEPT ![n] = NewTracker(m, S)]
        /\ trackers[m] = None /\ trackers' = [trackers EXCEPT ![m] = n]
        /\ created < MaxGens /\ created' = n
        /\ goroutine' = [goroutine EXCEPT ![n] = "select"]
        /\ UNCHANGED <<answer, resp, getter>>
  BY <1>n DEF Handle, MayTrack
<1>2. n \in Gens /\ created \in Nat /\ n \in Nat /\ 1 .. n = 1 .. created \cup {n} /\ n # None
      /\ created' = created + 1 /\ n > created /\ \A g \in 1 .. created : g \in Gens \ {n}
  BY <1>n, <1>1, Constants DEF ProcInv, ProcTypes
<1>3. /\ tracker'[n] = NewTracker(m, S) /\ \A g \in Gens \ {n} : tracker'[g] = tracker[g]
      /\ NewTracker(m, S) \in TrackerType /\ NewTracker(m, S).id = m
      /\ NewTracker(m, S).age = 0 /\ Decided(NewTracker(m, S))
  BY <1>1, <1>2, NewTrackerType DEF ProcInv, ProcTypes
<1>4. /\ trackers'[m] = n
      /\ \A id \in MessageIDs \ {m} : trackers'[id] = trackers[id]
      /\ \A id \in MessageIDs : trackers[id] # n
  BY <1>1, <1>2 DEF ProcInv, ProcTypes
<1>5. ProcTypes'
  BY <1>1, <1>2, <1>3, Constants DEF ProcInv, ProcTypes
<1>6. TrackersInv'
  <2>1. \A g \in Gens : Decided(tracker'[g])
    BY <1>3 DEF ProcInv, TrackersInv
  <2>2. \A g \in 1 .. created' : Retained(g)'
    <3>1. Retained(n)'
      BY <1>3, <1>4 DEF Retained
    <3>2. ASSUME NEW g \in 1 .. created PROVE Retained(g)'
      <4>1. g \in Gens \ {n} /\ tracker'[g] = tracker[g] /\ Retained(g)
        BY <1>2, <1>3, Constants DEF ProcInv, ProcTypes, TrackersInv
      <4>2. tracker[g].id \in MessageIDs /\ g # None
        BY <4>1, Constants DEF ProcInv, ProcTypes, TrackerType
      <4>3. tracker[g].id = m => trackers[m] # g
        BY <1>1, <4>2
      <4> QED
        BY <1>4, <4>1, <4>2, <4>3 DEF Retained
    <3> QED
      BY <1>1, <1>2, <3>1, <3>2
  <2>3. \A id \in MessageIDs : trackers'[id] # None => tracker'[trackers'[id]].id = id
    <3> SUFFICES ASSUME NEW id \in MessageIDs, trackers'[id] # None PROVE tracker'[trackers'[id]].id = id
      OBVIOUS
    <3>1. CASE id = m
      BY <1>3, <1>4, <3>1
    <3>2. CASE id # m
      <4>1. trackers'[id] = trackers[id] /\ trackers[id] \in Gens \ {n} /\ tracker[trackers[id]].id = id
        BY <1>2, <1>4, <3>2, Constants DEF ProcInv, ProcTypes, TrackersInv
      <4> QED
        BY <1>3, <4>1
    <3> QED
      BY <3>1, <3>2
  <2> QED
    BY <2>1, <2>2, <2>3 DEF TrackersInv
<1>7. \A g \in Gens : Waiting(g)'
  <2> SUFFICES ASSUME NEW g \in Gens PROVE Waiting(g)'
    OBVIOUS
  <2>1. Waiting(g) /\ g \in Nat
    BY Constants DEF ProcInv
  <2>2. CASE g = n
    <3>1. goroutine'[g] = "select" /\ goroutine[g] = "none" /\ answer'[g] = answer[g] /\ answer[g] = "none"
      BY <1>1, <1>2, <2>1, <2>2 DEF Waiting, ProcInv, ProcTypes
    <3> QED
      BY <1>1, <1>2, <1>3, <2>2, <3>1 DEF Waiting
  <2>3. CASE g # n
    <3>1. goroutine'[g] = goroutine[g] /\ answer'[g] = answer[g] /\ tracker'[g] = tracker[g]
      BY <1>1, <1>2, <1>3, <2>3 DEF ProcInv, ProcTypes
    <3>2. g > n <=> g > created
      BY <1>2, <2>1, <2>3
    <3> QED
      BY <1>1, <2>1, <3>1, <3>2 DEF Waiting
  <2> QED
    BY <2>2, <2>3
<1>8. \A g \in 1 .. created : Grows(g)
  <2> SUFFICES ASSUME NEW g \in 1 .. created PROVE Grows(g)
    OBVIOUS
  <2>1. g \in Gens \ {n} /\ tracker[g].age \in Nat
    BY <1>2, Constants DEF ProcInv, ProcTypes, TrackerType
  <2> QED
    BY <1>3, <2>1 DEF Grows
<1>9. created' \in Nat /\ created' >= created /\ tracker' \in [Gens -> TrackerType]
  BY <1>1, <1>2, <1>5 DEF ProcTypes
<1>10. \A p \in Responses : CallInv(p)'
  BY <1>1, <1>8, <1>9, CallKept
<1>11. \A c \in Getters : GetInv(c)'
  BY <1>1, <1>8, <1>9, GetKept
<1> QED
  BY <1>5, <1>6, <1>7, <1>10, <1>11 DEF ProcInv

\* A goroutine that does nothing goes on waiting, or has answered, while the
\* tracker is touched by another.
LEMMA WaitingKept ==
    ASSUME ProcInv, NEW g \in Gens, goroutine'[g] = goroutine[g], answer'[g] = answer[g],
           created' = created, Grows(g), tracker'[g].age = tracker[g].age
    PROVE  Waiting(g)'
<1>1. Waiting(g)
  BY DEF ProcInv
<1> QED
  BY <1>1 DEF Waiting, Grows

\* The goroutine answers with the decision it found or made.
LEMMA GoroutineReturnsInv ==
    ASSUME ProcInv, NEW g \in Gens, GoroutineReturns(g)
    PROVE  ProcInv'
<1>1. /\ goroutine[g] \in {"select", "due"}
      /\ TakeFromChannel(g) \/ TakeTimer(g)
      /\ goroutine' = [goroutine EXCEPT ![g] = "returned"]
      /\ answer' = [answer EXCEPT ![g] = StatusOf(tracker'[g].final)]
      /\ UNCHANGED <<trackers, created, resp, getter>>
  BY DEF GoroutineReturns
<1>2. g \in 1 .. created /\ created \in Nat
  BY <1>1, Constants DEF ProcInv, ProcTypes, Waiting
<1>3. PICK tr : Touches(g, tr) /\ tr.done
  BY <1>1, <1>2, WaitTouches
<1>4. /\ tracker'[g] = tr /\ tracker' \in [Gens -> TrackerType]
      /\ \A h \in Gens : Grows(h) /\ tracker'[h].age = tracker[h].age
      /\ TrackersInv'
  BY <1>1, <1>2, <1>3, TouchKeeps
<1>5. ProcTypes'
  BY <1>1, <1>4 DEF ProcInv, ProcTypes, StatusOf
<1>6. \A h \in Gens : Waiting(h)'
  <2> SUFFICES ASSUME NEW h \in Gens PROVE Waiting(h)'
    OBVIOUS
  <2>1. CASE h = g
    <3>1. goroutine'[h] = "returned" /\ answer'[h] = StatusOf(tracker'[h].final) /\ tracker'[h].done
      BY <1>1, <1>3, <1>4, <2>1 DEF ProcInv, ProcTypes
    <3>2. answer'[h] # "none"
      BY <3>1 DEF StatusOf
    <3>3. ~(h > created')
      BY <1>1, <1>2, <2>1
    <3> QED
      BY <3>1, <3>2, <3>3 DEF Waiting
  <2>2. CASE h # g
    <3>1. goroutine'[h] = goroutine[h] /\ answer'[h] = answer[h]
      BY <1>1, <2>2 DEF ProcInv, ProcTypes
    <3> QED
      BY <1>1, <1>4, <3>1, WaitingKept
  <2> QED
    BY <2>1, <2>2
<1>7. created' \in Nat /\ created' >= created /\ \A h \in 1 .. created : Grows(h)
  BY <1>1, <1>2, <1>4, Constants DEF ProcInv, ProcTypes
<1>8. \A p \in Responses : CallInv(p)'
  BY <1>1, <1>4, <1>7, CallKept
<1>9. \A c \in Getters : GetInv(c)'
  BY <1>1, <1>7, GetKept
<1> QED
  BY <1>4, <1>5, <1>6, <1>8, <1>9 DEF ProcInv

-----------------------------------------------------------------------------
\* Steps of ProcessResponse.

\* While one call moves and no tracker does, the rest is as it was.
LEMMA OtherCalls ==
    ASSUME ProcInv, NEW p \in Responses, NEW call \in CallType, resp' = [resp EXCEPT ![p] = call],
           CallInv(p)', UNCHANGED <<trackers, tracker, created, goroutine, answer, getter>>
    PROVE  ProcInv'
<1>1. \A g \in 1 .. created : Grows(g)
  <2> SUFFICES ASSUME NEW g \in 1 .. created PROVE Grows(g)
    OBVIOUS
  <2>1. tracker[g].age \in Nat
    BY Constants DEF ProcInv, ProcTypes, TrackerType
  <2> QED
    BY <2>1 DEF Grows
<1>2. ProcTypes' /\ created' \in Nat /\ created' >= created
  BY Constants DEF ProcInv, ProcTypes
<1>3. TrackersInv'
  BY DEF ProcInv, TrackersInv, Retained
<1>4. \A g \in Gens : Waiting(g)'
  BY DEF ProcInv, Waiting
<1>5. \A q \in Responses : CallInv(q)'
  <2> SUFFICES ASSUME NEW q \in Responses, q # p PROVE CallInv(q)'
    OBVIOUS
  <2>1. resp'[q] = resp[q]
    BY DEF ProcInv, ProcTypes
  <2> QED
    BY <1>1, <1>2, <2>1, CallKept DEF ProcTypes
<1>6. \A c \in Getters : GetInv(c)'
  BY DEF ProcInv, GetInv
<1> QED
  BY <1>2, <1>3, <1>4, <1>5, <1>6 DEF ProcInv

\* Another generation than the one the response is for has been put in its
\* place only after the first was retained.
LEMMA LookupInv ==
    ASSUME ProcInv, NEW p \in Responses, Lookup(p)
    PROVE  ProcInv'
<1>1. PICK of \in 1 .. created, action \in Actions :
        resp' = [resp EXCEPT ![p] =
          [st |-> IF trackers[tracker[of].id] = None THEN "unknown id" ELSE "found",
           of |-> of, gen |-> trackers[tracker[of].id], action |-> action, result |-> "none"]]
  BY DEF Lookup
<1>u. UNCHANGED <<trackers, tracker, created, goroutine, answer, getter>>
  BY DEF Lookup
<1>g. PICK g : g = trackers[tracker[of].id]
  OBVIOUS
<1>c. PICK call : call = [st |-> IF g = None THEN "unknown id" ELSE "found",
                          of |-> of, gen |-> g, action |-> action, result |-> "none"]
  OBVIOUS
<1>2. /\ of \in Gens /\ created \in Nat /\ of # None /\ of <= created
      /\ g \in {None} \cup 1 .. created /\ g \in {None} \cup Gens /\ g <= created
  <2>1. of \in Gens /\ created \in 0 .. MaxGens /\ created \in Nat /\ of \in Nat /\ of # None
    BY Constants DEF ProcInv, ProcTypes
  <2>2. tracker[of].id \in MessageIDs
    BY <2>1 DEF ProcInv, ProcTypes, TrackerType
  <2>3. g \in {None} \cup 1 .. created
    BY <1>g, <2>2 DEF ProcInv, ProcTypes
  <2> QED
    BY <2>1, <2>3, Constants
<1>3. Retained(of)
  BY DEF ProcInv, TrackersInv
<1>4. call \in CallType
  BY <1>c, <1>2 DEF CallType, CallStates, Finals
<1>5. resp' = [resp EXCEPT ![p] = call] /\ resp'[p] = call
  BY <1>1, <1>g, <1>c DEF ProcInv, ProcTypes
<1>6. g = of \/ tracker[of].age > RetainFor
  BY <1>g, <1>3 DEF Retained
<1>r1. call.of = of /\ call.gen = g /\ call.result = "none"
  BY <1>c
<1>r2. call.st \in {"unknown id", "found"}
  BY <1>c
<1>r3. call.st = "found" => g # None
  BY <1>c
<1>r4. created' = created /\ tracker' = tracker /\ resp'[p] = call
  BY <1>u, <1>5
<1>7. CallInv(p)'
  BY <1>r1, <1>r2, <1>r3, <1>r4, <1>2, <1>6 DEF CallInv
<1> QED
  BY <1>u, <1>4, <1>5, <1>7, OtherCalls

LEMMA ReportInv ==
    ASSUME ProcInv, NEW p \in Responses, Report(p)
    PROVE  ProcInv'
<1>c. PICK call : call = [resp[p] EXCEPT !.st = "returned", !.result = tracker[resp[p].gen].final]
  OBVIOUS
<1>1. /\ resp[p].st = "added" /\ resp[p] \in CallType /\ CallInv(p)
      /\ resp' = [resp EXCEPT ![p] = call]
      /\ UNCHANGED <<trackers, tracker, created, goroutine, answer, getter>>
  BY <1>c DEF Report, ProcInv, ProcTypes
<1>2. resp[p].gen \in Gens
  BY <1>1, Constants DEF CallInv, CallType
<1>3. tracker[resp[p].gen] \in TrackerType /\ Decided(tracker[resp[p].gen])
  BY <1>2 DEF ProcInv, ProcTypes, TrackersInv
<1>4. /\ call \in CallType /\ call.st = "returned" /\ call.result = tracker[resp[p].gen].final
      /\ call.of = resp[p].of /\ call.gen = resp[p].gen /\ call.action = resp[p].action
  BY <1>c, <1>1, <1>3 DEF CallType, CallStates, TrackerType
<1>5. resp'[p] = call
  BY <1>1 DEF ProcInv, ProcTypes
<1>6. CallInv(p)'
  BY <1>1, <1>3, <1>4, <1>5 DEF CallInv, Decided
<1> QED
  BY <1>1, <1>4, <1>6, OtherCalls

\* A decision is added to a pending tracker only; the one that completes it is
\* an interception if any of its decisions is.
LEMMA AddInv ==
    ASSUME ProcInv, NEW p \in Responses, Add(p)
    PROVE  ProcInv'
<1>1. /\ resp[p].st = "found" /\ resp[p] \in CallType /\ CallInv(p)
      /\ UNCHANGED <<trackers, created, goroutine, answer, getter>>
  BY DEF Add, ProcInv, ProcTypes
<1>g. PICK g : g = resp[p].gen
  OBVIOUS
<1>2. g \in 1 .. created /\ g \in Gens /\ created \in Nat /\ created' \in Nat /\ created' >= created
  BY <1>1, <1>g, Constants DEF CallInv, CallType, ProcInv, ProcTypes
<1>3. tracker[g] \in TrackerType /\ Decided(tracker[g])
  BY <1>2 DEF ProcInv, ProcTypes, TrackersInv
<1>4. CASE UNCHANGED tracker /\ resp' = [resp EXCEPT ![p].st = "refused"]
  <2>c. PICK call : call = [resp[p] EXCEPT !.st = "refused"]
    OBVIOUS
  <2>1. /\ call \in CallType /\ call.st = "refused" /\ call.result = resp[p].result
        /\ call.of = resp[p].of /\ call.gen = resp[p].gen /\ call.action = resp[p].action
    BY <1>1, <2>c DEF CallType, CallStates
  <2>2. resp' = [resp EXCEPT ![p] = call] /\ resp'[p] = call
    BY <1>4, <2>c DEF ProcInv, ProcTypes
  <2>3. CallInv(p)'
    BY <1>1, <1>4, <2>1, <2>2 DEF CallInv
  <2> QED
    BY <1>1, <1>4, <2>1, <2>2, <2>3, OtherCalls
<1>5. CASE Accepts(tracker[g]) /\ resp' = [resp EXCEPT ![p].st = "added"]
  <2>c. PICK call : call = [resp[p] EXCEPT !.st = "added"]
    OBVIOUS
  <2>1. /\ call \in CallType /\ call.st = "added" /\ call.result = resp[p].result
        /\ call.of = resp[p].of /\ call.gen = g /\ call.action = resp[p].action
    BY <1>1, <1>g, <2>c DEF CallType, CallStates
  <2>2. /\ resp' = [resp EXCEPT ![p] = call] /\ resp'[p] = call
        /\ \A q \in Responses \ {p} : resp'[q] = resp[q]
    BY <1>5, <2>c DEF ProcInv, ProcTypes
  <2>t. PICK tr : tr = [tracker[g] EXCEPT !.responded = @ \cup {SourceID},
                                          !.actions = @ \cup {resp[p].action}]
    OBVIOUS
  <2>3. /\ tr \in TrackerType /\ ~tr.done /\ tr.final = "none" /\ ~tr.chan
        /\ tr.id = tracker[g].id /\ tr.age = tracker[g].age /\ ~tracker[g].done
        /\ resp[p].action \in Actions /\ resp[p].action \in tr.actions /\ tr.actions \subseteq Actions
    <3>1. SourceID \in Systems /\ resp[p].action \in Actions /\ ~tracker[g].done
      BY <1>1, <1>3, <1>5 DEF Accepts, TrackerType, CallType
    <3> QED
      BY <1>3, <2>t, <3>1 DEF TrackerType, Decided
  <2>6. \E after : /\ Touches(g, after)
                   /\ resp[p].action = "INTERCEPT" => after.final = "INTERCEPT"
    <3>1. CASE resp[p].action # "INTERCEPT" /\ tracker' = [tracker EXCEPT ![g] = tr]
      <4>1. Touches(g, tr) /\ resp[p].action # "INTERCEPT"
        BY <2>3, <3>1 DEF Touches, Decided
      <4> QED
        BY <4>1
    <3>2. CASE \E f \in FinalOf(tr.actions) : tracker' = [tracker EXCEPT ![g] = Completed(tr, f)]
      <4>1. PICK f \in FinalOf(tr.actions) : tracker' = [tracker EXCEPT ![g] = Completed(tr, f)]
        BY <3>2
      <4>2. f \in Actions /\ f # "none" /\ (resp[p].action = "INTERCEPT" => f = "INTERCEPT")
        BY <2>3, <4>1 DEF FinalOf, Actions
      <4>3. /\ Completed(tr, f) \in TrackerType /\ Completed(tr, f).done /\ Completed(tr, f).final = f
            /\ Completed(tr, f).id = tr.id /\ Completed(tr, f).age = tr.age
        BY <2>3, <4>2 DEF Completed, TrackerType, Finals
      <4>4. Touches(g, Completed(tr, f))
        BY <2>3, <4>1, <4>2, <4>3 DEF Touches, Decided
      <4> QED
        BY <4>2, <4>3, <4>4
    <3>3. \/ resp[p].action # "INTERCEPT" /\ tracker' = [tracker EXCEPT ![g] = tr]
          \/ \E f \in FinalOf(tr.actions) : tracker' = [tracker EXCEPT ![g] = Completed(tr, f)]
      BY <1>1, <1>g, <1>5, <2>t, <2>2, <2>1 DEF Add
    <3> QED
      BY <3>1, <3>2, <3>3
  <2>7. PICK after : /\ Touches(g, after)
                     /\ resp[p].action = "INTERCEPT" => after.final = "INTERCEPT"
    BY <2>6
  <2>8. /\ tracker'[g] = after /\ tracker' \in [Gens -> TrackerType]
        /\ \A h \in Gens : Grows(h) /\ tracker'[h].age = tracker[h].age
        /\ TrackersInv'
    BY <1>1, <1>2, <2>7, TouchKeeps
  <2>9. ProcTypes'
    BY <1>1, <2>1, <2>2, <2>8 DEF ProcInv, ProcTypes
  <2>10. \A h \in Gens : Waiting(h)'
    BY <1>1, <2>8, WaitingKept
  <2>11. \A h \in 1 .. created : Grows(h)
    BY <1>2, <2>8, Constants DEF ProcInv, ProcTypes
  <2>12. CallInv(p)'
    BY <1>1, <1>2, <1>g, <2>1, <2>2, <2>7, <2>8 DEF CallInv
  <2>13. \A q \in Responses : CallInv(q)'
    BY <1>2, <2>2, <2>8, <2>11, <2>12, CallKept
  <2>14. \A c \in Getters : GetInv(c)'
    BY <1>1, <1>2, <2>11, GetKept
  <2> QED
    BY <2>8, <2>9, <2>10, <2>13, <2>14 DEF ProcInv
<1> QED
  BY <1>4, <1>5, <1>g DEF Add

-----------------------------------------------------------------------------
\* Steps of GetDecision.
LEMMA GetDecisionInv ==
    ASSUME ProcInv, NEW c \in Getters, GetDecision(c)
    PROVE  ProcInv'
<1>1. PICK id \in MessageIDs, wait \in BOOLEAN :
        /\ trackers[id] # None
        /\ getter' = [getter EXCEPT ![c] =
             [st |-> IF ~wait /\ ~tracker[trackers[id]].done THEN "not ready" ELSE "select",
              gen |-> trackers[id], wait |-> wait, result |-> "none"]]
  BY DEF GetDecision
<1>u. UNCHANGED <<trackers, tracker, created, goroutine, answer, resp>>
  BY DEF GetDecision
<1>g. PICK g : g = trackers[id]
  OBVIOUS
<1>s. PICK st : st = IF ~wait /\ ~tracker[trackers[id]].done THEN "not ready" ELSE "select"
  OBVIOUS
<1>c. PICK get : get = [st |-> st, gen |-> g, wait |-> wait, result |-> "none"]
  OBVIOUS
<1>2. g \in 1 .. created /\ g \in Gens /\ g # None /\ created \in Nat
  <2>1. trackers[id] \in {None} \cup 1 .. created /\ created \in 0 .. MaxGens
    BY DEF ProcInv, ProcTypes
  <2>2. g # None /\ g \in {None} \cup 1 .. created
    BY <1>1, <1>g, <2>1
  <2> QED
    BY <2>1, <2>2, Constants
<1>3. st \in {"not ready", "select"}
  BY <1>s
<1>4. get \in GetType
  BY <1>c, <1>2, <1>3 DEF GetType, GetStates, Finals
<1>5. getter' = [getter EXCEPT ![c] = get]
  BY <1>1, <1>g, <1>s, <1>c
<1>6. getter'[c] = get /\ \A d \in Getters \ {c} : getter'[d] = getter[d]
  BY <1>5 DEF ProcInv, ProcTypes
<1>7. ProcTypes'
  BY <1>u, <1>4, <1>5 DEF ProcInv, ProcTypes
<1>8. TrackersInv' /\ \A h \in Gens : Waiting(h)'
  BY <1>u DEF ProcInv, TrackersInv, Retained, Waiting
<1>9. \A p \in Responses : CallInv(p)'
  BY <1>u DEF ProcInv, CallInv
<1>10. GetInv(c)'
  <2>1. get.gen = g /\ get.result = "none" /\ g <= created
    BY <1>c, <1>2
  <2> QED
    BY <1>u, <1>2, <1>6, <2>1 DEF GetInv
<1>11. \A d \in Getters : GetInv(d)'
  <2> SUFFICES ASSUME NEW d \in Getters \ {c} PROVE GetInv(d)'
    BY <1>10
  <2>1. getter'[d] = getter[d] /\ GetInv(d)
    BY <1>6 DEF ProcInv
  <2> QED
    BY <1>u, <2>1 DEF GetInv
<1> QED
  BY <1>7, <1>8, <1>9, <1>11 DEF ProcInv

LEMMA GetterReturnsInv ==
    ASSUME ProcInv, NEW c \in Getters, GetterReturns(c)
    PROVE  ProcInv'
<1>g. PICK g : g = getter[c].gen
  OBVIOUS
<1>1. /\ getter[c].st \in {"select", "due"}
      /\ TakeFromChannel(g) \/ TakeTimer(g)
      /\ getter' = [getter EXCEPT ![c].st = "returned", ![c].result = tracker'[g].final]
      /\ UNCHANGED <<trackers, created, goroutine, answer, resp>>
  BY <1>g DEF GetterReturns
<1>2. g \in 1 .. created /\ created \in Nat /\ getter[c] \in GetType
  <2>1. getter[c] \in GetType /\ GetInv(c) /\ created \in 0 .. MaxGens
    BY DEF ProcInv, ProcTypes
  <2>2. g # None /\ g <= created
    BY <1>g, <1>1, <2>1 DEF GetInv
  <2>3. g \in {None} \cup Gens
    BY <1>g, <2>1 DEF GetType
  <2> QED
    BY <2>1, <2>2, <2>3, Constants
<1>3. PICK tr : Touches(g, tr) /\ tr.done
  BY <1>1, <1>2, WaitTouches
<1>4. /\ tracker'[g] = tr /\ tracker' \in [Gens -> TrackerType] /\ g \in Gens
      /\ \A h \in Gens : Grows(h) /\ tracker'[h].age = tracker[h].age
      /\ TrackersInv'
  BY <1>1, <1>2, <1>3, TouchKeeps
<1>c. PICK get : get = [getter[c] EXCEPT !.st = "returned", !.result = tr.final]
  OBVIOUS
<1>5. /\ get \in GetType /\ get.gen = g /\ get.st = "returned" /\ get.result = tr.final
  <2>1. tr.final \in Finals
    BY <1>3 DEF Touches, TrackerType
  <2> QED
    BY <1>g, <1>c, <1>2, <2>1 DEF GetType, GetStates
<1>6. getter' = [getter EXCEPT ![c] = get]
  BY <1>1, <1>4, <1>c
<1>7. getter'[c] = get /\ \A d \in Getters \ {c} : getter'[d] = getter[d]
  BY <1>6 DEF ProcInv, ProcTypes
<1>8. ProcTypes'
  BY <1>1, <1>4, <1>5, <1>6 DEF ProcInv, ProcTypes
<1>9. \A h \in Gens : Waiting(h)'
  BY <1>1, <1>4, WaitingKept
<1>10. created' \in Nat /\ created' >= created /\ \A h \in 1 .. created : Grows(h)
  BY <1>1, <1>2, <1>4, Constants DEF ProcInv, ProcTypes
<1>11. \A p \in Responses : CallInv(p)'
  BY <1>1, <1>4, <1>10, CallKept
<1>12. GetInv(c)'
  <2>1. g <= created' /\ g # None
    BY <1>1, <1>2, Constants
  <2> QED
    BY <1>3, <1>4, <1>5, <1>7, <2>1 DEF GetInv
<1>13. \A d \in Getters : GetInv(d)'
  BY <1>7, <1>10, <1>12, GetKept
<1> QED
  BY <1>4, <1>8, <1>9, <1>11, <1>13 DEF ProcInv

-----------------------------------------------------------------------------
\* Only a tracker retained long enough leaves the map.
LEMMA CleanupInv ==
    ASSUME ProcInv, Cleanup
    PROVE  ProcInv'
<1>u. UNCHANGED <<tracker, created, goroutine, answer, resp, getter>>
  BY DEF Cleanup
<1>1. \A id \in MessageIDs :
        \/ trackers'[id] = trackers[id]
        \/ /\ trackers[id] # None /\ trackers'[id] = None
           /\ Expired(tracker[trackers[id]])
  BY DEF Cleanup, Tracked
<1>2. ProcTypes'
  <2>1. trackers' \in [MessageIDs -> {None} \cup 1 .. created]
    BY DEF Cleanup, ProcInv, ProcTypes
  <2> QED
    BY <1>u, <2>1 DEF ProcInv, ProcTypes
<1>3. TrackersInv'
  <2>1. \A id \in MessageIDs : trackers'[id] # None => tracker'[trackers'[id]].id = id
    BY <1>u, <1>1 DEF ProcInv, TrackersInv
  <2>2. ASSUME NEW g \in 1 .. created PROVE Retained(g)'
    <3>1. g \in Gens /\ Retained(g)
      BY Constants DEF ProcInv, ProcTypes, TrackersInv
    <3>2. tracker[g].id \in MessageIDs /\ tracker[g].age \in Nat
      BY <3>1, Constants DEF ProcInv, ProcTypes, TrackerType
    <3>3. ASSUME trackers[tracker[g].id] = g, Expired(tracker[g]) PROVE tracker[g].age > RetainFor
      BY <3>2, <3>3, Constants DEF Expired
    <3> QED
      BY <1>u, <1>1, <3>1, <3>2, <3>3 DEF Retained
  <2> QED
    BY <1>u, <2>1, <2>2 DEF ProcInv, TrackersInv
<1>4. \A g \in Gens : Waiting(g)'
  BY <1>u DEF ProcInv, Waiting
<1>5. \A p \in Responses : CallInv(p)'
  BY <1>u DEF ProcInv, CallInv
<1>6. \A c \in Getters : GetInv(c)'
  BY <1>u DEF ProcInv, GetInv
<1> QED
  BY <1>2, <1>3, <1>4, <1>5, <1>6 DEF ProcInv

\* Trackers age, but not while a timer is due.
LEMMA TickInv ==
    ASSUME ProcInv, Tick
    PROVE  ProcInv'
<1>u. UNCHANGED <<trackers, created, answer, resp>>
  BY DEF Tick
<1>1. \A g \in Gens : /\ goroutine[g] # "due"
                      /\ goroutine'[g] = IF goroutine[g] = "select" THEN "due" ELSE goroutine[g]
  BY DEF Tick
<1>2. ASSUME NEW g \in Gens
      PROVE  /\ tracker'[g] \in TrackerType /\ Grows(g) /\ Decided(tracker'[g])
             /\ tracker'[g].age \in Nat /\ tracker[g].age \in Nat
             /\ tracker'[g].age <= tracker[g].age + 1
  <2>1. tracker[g] \in TrackerType /\ Decided(tracker[g]) /\ tracker[g].age \in 0 .. AgeCap
    BY DEF ProcInv, ProcTypes, TrackersInv, TrackerType
  <2>2. CASE tracker'[g] = tracker[g]
    BY <2>1, <2>2, Constants DEF Grows
  <2>3. CASE tracker[g].age < AgeCap /\ tracker'[g] = [tracker[g] EXCEPT !.age = @ + 1]
    <3>n. PICK n : n = tracker[g].age + 1
      OBVIOUS
    <3>1. n \in 0 .. AgeCap
      BY <2>1, <2>3, <3>n, Constants
    <3>t. PICK tr : tr = [tracker[g] EXCEPT !.age = n]
      OBVIOUS
    <3>2. /\ tr \in TrackerType /\ tr.age = n /\ tr.id = tracker[g].id
          /\ tr.done = tracker[g].done /\ tr.final = tracker[g].final /\ tr.chan = tracker[g].chan
      BY <2>1, <3>1, <3>t DEF TrackerType
    <3>3. tracker'[g] = tr
      BY <2>3, <3>n, <3>t
    <3> QED
      BY <2>1, <3>n, <3>1, <3>2, <3>3, Constants DEF Grows, Decided
  <2>4. tracker'[g] = IF g <= created /\ tracker[g].age < AgeCap
                        THEN [tracker[g] EXCEPT !.age = @ + 1] ELSE tracker[g]
    BY DEF Tick
  <2> QED
    BY <2>2, <2>3, <2>4
<1>3. \A c \in Getters :
        getter'[c] = IF getter[c].st = "select" THEN [getter[c] EXCEPT !.st = "due"] ELSE getter[c]
  BY DEF Tick
<1>4. ASSUME NEW c \in Getters
      PROVE  /\ getter'[c] \in GetType
             /\ getter'[c].gen = getter[c].gen /\ getter'[c].result = getter[c].result
             /\ \/ getter'[c].st = getter[c].st
                \/ getter[c].st = "select" /\ getter'[c].st = "due"
  <2>1. getter[c] \in GetType
    BY DEF ProcInv, ProcTypes
  <2> QED
    BY <1>3, <2>1 DEF GetType, GetStates
<1>5. tracker' \in [Gens -> TrackerType]
  <2>1. tracker' = [g \in Gens |-> tracker'[g]]
    BY DEF Tick
  <2> QED
    BY <1>2, <2>1
<1>6. goroutine' \in [Gens -> {"none", "select", "due", "returned"}]
  BY DEF Tick, ProcInv, ProcTypes
<1>7. getter' \in [Getters -> GetType]
  <2>1. getter' = [c \in Getters |-> getter'[c]]
    BY DEF Tick
  <2> QED
    BY <1>4, <2>1
<1>8. ProcTypes'
  BY <1>u, <1>5, <1>6, <1>7 DEF ProcInv, ProcTypes
<1>9. TrackersInv'
  <2>1. ASSUME NEW g \in 1 .. created PROVE Retained(g)'
    <3>1. g \in Gens /\ Retained(g)
      BY Constants DEF ProcInv, ProcTypes, TrackersInv
    <3> QED
      BY <1>u, <1>2, <3>1, Constants DEF Retained, Grows
  <2>2. ASSUME NEW id \in MessageIDs, trackers[id] # None PROVE tracker'[trackers[id]].id = id
    <3>1. trackers[id] \in Gens /\ tracker[trackers[id]].id = id
      BY <2>2, Constants DEF ProcInv, ProcTypes, TrackersInv
    <3> QED
      BY <1>2, <3>1 DEF Grows
  <2> QED
    BY <1>u, <1>2, <2>1, <2>2 DEF TrackersInv
<1>10. ASSUME NEW g \in Gens PROVE Waiting(g)'
  <2>1. Waiting(g) /\ goroutine[g] # "due"
    BY <1>1 DEF ProcInv
  <2>2. /\ tracker'[g].age <= tracker[g].age + 1 /\ tracker'[g].age \in Nat /\ tracker[g].age \in Nat
        /\ Grows(g)
    BY <1>2
  <2> QED
    BY <1>u, <1>1, <2>1, <2>2 DEF Waiting, Grows
<1>11. created \in Nat /\ created' \in Nat /\ created' >= created /\ \A g \in 1 .. created : Grows(g)
  BY <1>u, <1>2, Constants DEF ProcInv, ProcTypes
<1>12. \A p \in Responses : CallInv(p)'
  BY <1>u, <1>5, <1>11, CallKept
<1>13. \A c \in Getters : GetInv(c)'
  BY <1>4, <1>11, GetKept
<1> QED
  BY <1>8, <1>9, <1>10, <1>12, <1>13 DEF ProcInv

-----------------------------------------------------------------------------
LEMMA ProcStep == ProcInv /\ [Next]_vars => ProcInv'
<1> SUFFICES ASSUME ProcInv, [Next]_vars PROVE ProcInv'
  OBVIOUS
<1>1. CASE UNCHANGED vars
  BY <1>1 DEF vars, ProcInv, ProcTypes, TrackersInv, Retained, Waiting, CallInv, GetInv
<1>2. ASSUME NEW id \in MessageIDs, Handle(id) PROVE ProcInv'
  BY <1>2, HandleInv
<1>3. ASSUME NEW g \in Gens, GoroutineReturns(g) PROVE ProcInv'
  BY <1>3, GoroutineReturnsInv
<1>4. ASSUME NEW p \in Responses, Lookup(p) \/ Add(p) \/ Report(p) PROVE ProcInv'
  BY <1>4, LookupInv, AddInv, ReportInv
<1>5. ASSUME NEW c \in Getters, GetDecision(c) \/ GetterReturns(c) PROVE ProcInv'
  BY <1>5, GetDecisionInv, GetterReturnsInv
<1> QED
  BY <1>1, <1>2, <1>3, <1>4, <1>5, CleanupInv, TickInv DEF Next, HandleMessage

(***************************************************************************)
(* The invariant the theorems below rest on: a tracker is young while its  *)
(* goroutine waits, decided once the goroutine has answered, and retained  *)
(* before another generation takes its id.                                 *)
(***************************************************************************)
THEOREM ProcessorInvariant == Spec => []ProcInv
BY ProcInitInv, ProcStep, PTL DEF Spec

(***************************************************************************)
(* The variables keep their types (processor.go lines 23-40, 73-95).       *)
(***************************************************************************)
THEOREM ProcessorTypeCorrect == Spec => []TypeOK
<1>1. ProcInv => TypeOK
  BY DEF ProcInv, ProcTypes, TypeOK, TrackerType, CallType, GetType
<1> QED
  BY <1>1, ProcessorInvariant, PTL

(***************************************************************************)
(* The SMSC's response, ProcessResponse and GetDecision tell one verdict   *)
(* per message (processor_handler.go lines 62-91, processor.go line 129).  *)
(***************************************************************************)
THEOREM OneVerdictAlways == Spec => []OneVerdict
<1>1. ProcInv => OneVerdict
  BY DEF ProcInv, Waiting, CallInv, GetInv, OneVerdict
<1> QED
  BY <1>1, ProcessorInvariant, PTL

(***************************************************************************)
(* An added interception is never answered SM_OK: it completes the tracker *)
(* in the step that adds it (decision.go AddDecision).                     *)
(***************************************************************************)
THEOREM InterceptReportedAlways == Spec => []InterceptIsReported
<1>1. ProcInv => InterceptIsReported
  <2> SUFFICES ASSUME ProcInv, NEW p \in Responses,
                      resp[p].st \in {"added", "returned"}, resp[p].action = "INTERCEPT"
               PROVE  answer[resp[p].gen] # "SM_OK" /\ tracker[resp[p].gen].final = "INTERCEPT"
    BY DEF InterceptIsReported
  <2>g. PICK g : g = resp[p].gen
    OBVIOUS
  <2>1. resp[p] \in CallType /\ CallInv(p)
    BY DEF ProcInv, ProcTypes
  <2>2. g # None /\ tracker[g].final = "INTERCEPT" /\ g \in {None} \cup Gens
    BY <2>g, <2>1 DEF CallInv, CallType
  <2>3. Waiting(g)
    BY <2>2 DEF ProcInv
  <2>4. answer[g] # "SM_OK"
    BY <2>2, <2>3 DEF Waiting, StatusOf
  <2> QED
    BY <2>g, <2>2, <2>4
<1> QED
  BY <1>1, ProcessorInvariant, PTL

(***************************************************************************)
(* cleanup (processor.go lines 229-258) never removes an undecided         *)
(* tracker: while it is undecided its goroutine waits, and it is young.    *)
(***************************************************************************)
THEOREM CleanupSparesAlways == Spec => CleanupSparesPending
<1>1. ProcInv /\ [Next]_vars =>
        [\A id \in MessageIDs :
           trackers[id] # None /\ trackers'[id] # trackers[id]
             => tracker[trackers[id]].done]_vars
  <2> SUFFICES ASSUME ProcInv, Next, NEW id \in MessageIDs,
                      trackers[id] # None, trackers'[id] # trackers[id]
               PROVE  tracker[trackers[id]].done
    OBVIOUS
  <2>g. PICK g : g = trackers[id]
    OBVIOUS
  <2>1. g \in Gens /\ g \in 1 .. created /\ created \in Nat
    BY <2>g, Constants DEF ProcInv, ProcTypes
  <2>2. Waiting(g) /\ tracker[g].age \in Nat
    BY <2>1, Constants DEF ProcInv, ProcTypes, TrackerType
  <2>3. ASSUME Expired(tracker[g]) PROVE tracker[g].done
    <3>1. goroutine[g] \in {"select", "due", "returned"}
      BY <2>1, <2>2, Constants DEF Waiting, ProcInv, ProcTypes
    <3> QED
      BY <2>2, <2>3, <3>1, Constants DEF Waiting, Expired
  <2>4. CASE Cleanup
    BY <2>g, <2>3, <2>4 DEF Cleanup, Tracked
  <2>5. ASSUME NEW m \in MessageIDs, Handle(m) PROVE FALSE
    BY <2>5 DEF Handle, MayTrack, ProcInv, ProcTypes
  <2> QED
    BY <2>4, <2>5, <2>g
       DEF Next, HandleMessage, GoroutineReturns, Lookup, Add, Report, GetDecision, GetterReturns, Tick
<1> QED
  BY <1>1, ProcessorInvariant, PTL DEF Spec, CleanupSparesPending

(***************************************************************************)
(* Retention keeps a response from a later message with the same id unless *)
(* it is very late (processor.go lines 73-95 and 229-258).                 *)
(***************************************************************************)
THEOREM RetentionShieldsAlways == Spec => RetentionShields
<1>1. ProcInv /\ [Next]_vars =>
        [\A p \in Responses :
           resp[p].st = "found" /\ resp'[p].st = "added" =>
             resp[p].gen = resp[p].of \/ tracker[resp[p].of].age > RetainFor]_vars
  BY DEF ProcInv, CallInv
<1> QED
  BY <1>1, ProcessorInvariant, PTL DEF Spec, RetentionShields
-----------------------------------------------------------------------------
(***************************************************************************)
(* Refinement.  A generation that does not exist yet is as Init made it.   *)
(***************************************************************************)
Untouched == \A g \in Gens : g > created => tracker[g] = NoTracker

\* What any step does to one tracker, in the terms of TrackedMessage.
TrackerMoves(g) ==
    \/ tracker'[g] = [tracker[g] EXCEPT !.age = tracker'[g].age]
    \/ /\ g = created + 1 /\ created' = g
       /\ \E id \in MessageIDs, S \in SUBSET Systems : tracker'[g] = NewTracker(id, S)
    \/ \E act \in Actions : Tracking(g)!Respond(SourceID, act)
    \/ Tracking(g)!Expire
    \/ Tracking(g)!Take

LEMMA SameTracker ==
    ASSUME ProcInv, NEW g \in Gens, tracker'[g] = tracker[g]
    PROVE  TrackerMoves(g)
<1>1. tracker[g] \in TrackerType
  BY DEF ProcInv, ProcTypes
<1>2. tracker'[g] = [tracker[g] EXCEPT !.age = tracker'[g].age]
  BY <1>1 DEF TrackerType
<1> QED
  BY <1>2 DEF TrackerMoves

\* A return from WaitForCompletion takes the element, or expires an undecided
\* tracker, or finds it decided and changes nothing.
LEMMA WaitMoves ==
    ASSUME ProcInv, NEW g \in 1 .. created, TakeFromChannel(g) \/ TakeTimer(g),
           NEW h \in Gens
    PROVE  TrackerMoves(h)
<1>1. g \in Gens /\ tracker[g] \in TrackerType /\ Decided(tracker[g])
  BY Constants DEF ProcInv, ProcTypes, TrackersInv
<1>2. CASE h # g
  <2>1. tracker'[h] = tracker[h]
    BY <1>1, <1>2 DEF TakeFromChannel, TakeTimer, ProcInv, ProcTypes
  <2> QED
    BY <2>1, SameTracker
<1>3. CASE h = g /\ TakeFromChannel(g)
  <2>1. tracker[g].chan /\ tracker'[g] = [tracker[g] EXCEPT !.chan = FALSE]
    BY <1>1, <1>3 DEF TakeFromChannel, ProcInv, ProcTypes
  <2>2. /\ tracker'[g].chan = FALSE
        /\ tracker'[g].expected = tracker[g].expected /\ tracker'[g].responded = tracker[g].responded
        /\ tracker'[g].actions = tracker[g].actions /\ tracker'[g].final = tracker[g].final
        /\ tracker'[g].timedOut = tracker[g].timedOut
    BY <1>1, <2>1 DEF TrackerType
  <2>3. Tracking(g)!Take
    BY <2>1, <2>2 DEF Tracking!Take
  <2> QED
    BY <1>3, <2>3 DEF TrackerMoves
<1>4. CASE h = g /\ TakeTimer(g)
  <2>1. tracker'[g] = TimedOut(tracker[g])
    BY <1>1, <1>4 DEF TakeTimer, ProcInv, ProcTypes
  <2>2. CASE tracker[g].done
    BY <1>4, <2>1, <2>2, SameTracker DEF TimedOut
  <2>3. CASE ~tracker[g].done
    <3>1. /\ tracker'[g].chan = TRUE /\ tracker'[g].final = "ALLOW" /\ tracker'[g].timedOut = TRUE
          /\ tracker'[g].expected = tracker[g].expected /\ tracker'[g].responded = tracker[g].responded
          /\ tracker'[g].actions = tracker[g].actions /\ tracker[g].final = "none"
      BY <1>1, <2>1, <2>3 DEF TimedOut, TrackerType, Decided
    <3>2. Tracking(g)!Expire
      BY <3>1 DEF Tracking!Expire
    <3> QED
      BY <1>4, <3>2 DEF TrackerMoves
  <2> QED
    BY <2>2, <2>3
<1> QED
  BY <1>2, <1>3, <1>4
\* An added response is an answer of the source the processor calls SourceID.
LEMMA AddMoves ==
    ASSUME ProcInv, NEW p \in Responses, Add(p), NEW h \in Gens
    PROVE  TrackerMoves(h)
<1>g. PICK g : g = resp[p].gen
  OBVIOUS
<1>a. PICK act : act = resp[p].action
  OBVIOUS
<1>t. PICK tr : tr = [tracker[g] EXCEPT !.responded = @ \cup {SourceID},
                                        !.actions = @ \cup {act}]
  OBVIOUS
<1>1. resp[p].st = "found" /\ resp[p] \in CallType /\ CallInv(p)
  BY DEF Add, ProcInv, ProcTypes
<1>2. g \in Gens /\ act \in Actions
  BY <1>g, <1>a, <1>1, Constants DEF CallInv, CallType
<1>3. tracker[g] \in TrackerType /\ Decided(tracker[g])
  BY <1>2 DEF ProcInv, ProcTypes, TrackersInv
<1>4. \/ UNCHANGED tracker
      \/ /\ Accepts(tracker[g])
         /\ IF tr.responded = tr.expected \/ act = "INTERCEPT"
              THEN \E f \in FinalOf(tr.actions) :
                     tracker' = [tracker EXCEPT ![g] = Completed(tr, f)]
              ELSE tracker' = [tracker EXCEPT ![g] = tr]
  BY <1>g, <1>a, <1>t DEF Add
<1>5. CASE UNCHANGED tracker
  BY <1>5, SameTracker
<1>6. ASSUME Accepts(tracker[g]),
             IF tr.responded = tr.expected \/ act = "INTERCEPT"
               THEN \E f \in FinalOf(tr.actions) :
                      tracker' = [tracker EXCEPT ![g] = Completed(tr, f)]
               ELSE tracker' = [tracker EXCEPT ![g] = tr]
      PROVE  TrackerMoves(h)
  <2>1. /\ tr.responded = tracker[g].responded \cup {SourceID}
        /\ tr.actions = tracker[g].actions \cup {act}
        /\ tr.expected = tracker[g].expected /\ tr.final = tracker[g].final
        /\ tr.timedOut = tracker[g].timedOut /\ tr.chan = tracker[g].chan
        /\ tr \in [id : MessageIDs, expected : SUBSET Systems,
                   responded : SUBSET Systems, actions : SUBSET Actions,
                   done : BOOLEAN, final : Finals, chan : BOOLEAN,
                   timedOut : BOOLEAN, age : 0 .. AgeCap]
    BY <1>t, <1>2, <1>3, <1>6 DEF TrackerType, Accepts
  <2>2. tracker[g].final = "none" /\ SourceID \in tracker[g].expected
    BY <1>3, <1>6 DEF Accepts, Decided
  <2>3. CASE h # g
    <3>1. tracker'[h] = tracker[h]
      BY <1>2, <1>6, <2>3 DEF ProcInv, ProcTypes
    <3> QED
      BY <3>1, SameTracker
  <2>4. CASE h = g /\ (tr.responded = tr.expected \/ act = "INTERCEPT")
    <3>1. PICK f \in FinalOf(tr.actions) : tracker' = [tracker EXCEPT ![g] = Completed(tr, f)]
      BY <1>6, <2>4
    <3>2. tracker'[g] = Completed(tr, f)
      BY <1>2, <3>1 DEF ProcInv, ProcTypes
    <3>3. /\ tracker'[g].responded = tr.responded /\ tracker'[g].actions = tr.actions
          /\ tracker'[g].expected = tr.expected /\ tracker'[g].timedOut = tr.timedOut
          /\ tracker'[g].final = f /\ tracker'[g].chan = TRUE
      BY <2>1, <3>2 DEF Completed
    <3>4. f \in (IF "INTERCEPT" \in tr.actions THEN {"INTERCEPT"} ELSE tr.actions)
      BY DEF FinalOf
    <3>5. Tracking(g)!Respond(SourceID, act)
      BY <2>1, <2>2, <2>4, <3>3, <3>4 DEF Tracking!Respond
    <3> QED
      BY <1>2, <2>4, <3>5 DEF TrackerMoves
  <2>5. CASE h = g /\ ~(tr.responded = tr.expected \/ act = "INTERCEPT")
    <3>1. tracker'[g] = tr
      BY <1>2, <1>6, <2>5 DEF ProcInv, ProcTypes
    <3>2. Tracking(g)!Respond(SourceID, act)
      BY <2>1, <2>2, <2>5, <3>1 DEF Tracking!Respond
    <3> QED
      BY <1>2, <2>5, <3>2 DEF TrackerMoves
  <2> QED
    BY <2>3, <2>4, <2>5
<1> QED
  BY <1>4, <1>5, <1>6

LEMMA StepMoves ==
    ASSUME ProcInv, Next, NEW g \in Gens
    PROVE  TrackerMoves(g)
<1>0. tracker[g] \in TrackerType /\ created \in Nat
  BY Constants DEF ProcInv, ProcTypes
<1>1. ASSUME NEW id \in MessageIDs, Handle(id) PROVE TrackerMoves(g)
  <2>1. PICK S \in SUBSET Systems :
          tracker' = [tracker EXCEPT ![created + 1] = NewTracker(id, S)] /\ created' = created + 1
    BY <1>1 DEF Handle
  <2>2. CASE g = created + 1
    <3>1. tracker'[g] = NewTracker(id, S) /\ created' = g
      BY <2>1, <2>2 DEF ProcInv, ProcTypes
    <3> QED
      BY <2>2, <3>1 DEF TrackerMoves
  <2>3. CASE g # created + 1
    BY <2>1, <2>3, SameTracker DEF ProcInv, ProcTypes
  <2> QED
    BY <2>2, <2>3
<1>2. ASSUME NEW h \in Gens, GoroutineReturns(h) PROVE TrackerMoves(g)
  <2>1. h \in 1 .. created /\ (TakeFromChannel(h) \/ TakeTimer(h))
    BY <1>0, <1>2, Constants DEF GoroutineReturns, ProcInv, ProcTypes, Waiting
  <2> QED
    BY <2>1, WaitMoves
<1>3. ASSUME NEW p \in Responses, Lookup(p) \/ Report(p) PROVE TrackerMoves(g)
  BY <1>3, SameTracker DEF Lookup, Report
<1>4. ASSUME NEW p \in Responses, Add(p) PROVE TrackerMoves(g)
  BY <1>4, AddMoves
<1>5. ASSUME NEW c \in Getters, GetDecision(c) PROVE TrackerMoves(g)
  BY <1>5, SameTracker DEF GetDecision
<1>6. ASSUME NEW c \in Getters, GetterReturns(c) PROVE TrackerMoves(g)
  <2>h. PICK h : h = getter[c].gen
    OBVIOUS
  <2>1. TakeFromChannel(h) \/ TakeTimer(h)
    BY <1>6, <2>h DEF GetterReturns
  <2>2. getter[c] \in GetType /\ GetInv(c) /\ getter[c].st \in {"select", "due"}
    BY <1>6 DEF GetterReturns, ProcInv, ProcTypes
  <2>3. h # None /\ h <= created /\ h \in {None} \cup Gens
    BY <2>h, <2>2 DEF GetInv, GetType
  <2>4. h \in 1 .. created
    BY <1>0, <2>3, Constants
  <2> QED
    BY <2>1, <2>4, WaitMoves
<1>7. CASE Cleanup
  BY <1>7, SameTracker DEF Cleanup
<1>8. CASE Tick
  <2>1. tracker'[g] = IF g <= created /\ tracker[g].age < AgeCap
                        THEN [tracker[g] EXCEPT !.age = @ + 1] ELSE tracker[g]
    BY <1>8 DEF Tick
  <2>2. CASE tracker'[g] = tracker[g]
    BY <2>2, SameTracker
  <2>3. CASE tracker'[g] = [tracker[g] EXCEPT !.age = @ + 1]
    <3>1. tracker'[g].age = tracker[g].age + 1
      BY <1>0, <2>3 DEF TrackerType
    <3>2. tracker'[g] = [tracker[g] EXCEPT !.age = tracker'[g].age]
      BY <2>3, <3>1
    <3> QED
      BY <3>2 DEF TrackerMoves
  <2> QED
    BY <2>1, <2>2, <2>3
<1> QED
  BY <1>1, <1>2, <1>3, <1>4, <1>5, <1>6, <1>7, <1>8 DEF Next, HandleMessage

LEMMA UntouchedInit == Init => Untouched
BY DEF Init, Untouched

\* Only Handle touches a generation beyond the last, and that one exists then.
LEMMA UntouchedStep == ProcInv /\ ProcInv' /\ Untouched /\ [Next]_vars => Untouched'
<1> SUFFICES ASSUME ProcInv, ProcInv', Untouched, Next, NEW g \in Gens, g > created'
             PROVE  tracker'[g] = NoTracker
  BY DEF Untouched, vars
<1>1. created \in Nat /\ created' \in Nat /\ g \in Nat
  BY Constants DEF ProcInv, ProcTypes
<1>2. created' = created \/ created' = created + 1
  BY DEF Next, Handle, HandleMessage, GoroutineReturns, Lookup, Add, Report, GetDecision,
         GetterReturns, Cleanup, Tick
<1>3. tracker[g] = NoTracker /\ g > created
  BY <1>1, <1>2 DEF Untouched
<1>4. ASSUME NEW h \in 1 .. created, TakeFromChannel(h) \/ TakeTimer(h)
      PROVE  tracker'[g] = tracker[g]
  BY <1>1, <1>3, <1>4 DEF TakeFromChannel, TakeTimer, ProcInv, ProcTypes
<1>5. ASSUME NEW id \in MessageIDs, Handle(id) PROVE tracker'[g] = tracker[g]
  BY <1>1, <1>5 DEF Handle, ProcInv, ProcTypes
<1>6. ASSUME NEW h \in Gens, GoroutineReturns(h) PROVE tracker'[g] = tracker[g]
  <2>1. h \in 1 .. created /\ (TakeFromChannel(h) \/ TakeTimer(h))
    BY <1>1, <1>6, Constants DEF GoroutineReturns, ProcInv, ProcTypes, Waiting
  <2> QED
    BY <1>4, <2>1
<1>7. ASSUME NEW p \in Responses, Add(p) PROVE tracker'[g] = tracker[g]
  <2>h. PICK h : h = resp[p].gen
    OBVIOUS
  <2>1. h <= created /\ h \in {None} \cup Gens
    BY <1>7, <2>h DEF ProcInv, ProcTypes, CallInv, CallType
  <2>2. h # g
    BY <1>1, <1>3, <2>1, Constants
  <2>3. UNCHANGED tracker \/ \E tr : tracker' = [tracker EXCEPT ![h] = tr]
    BY <1>7, <2>h DEF Add
  <2> QED
    BY <2>2, <2>3 DEF ProcInv, ProcTypes
<1>8. ASSUME NEW c \in Getters, GetterReturns(c) PROVE tracker'[g] = tracker[g]
  <2>h. PICK h : h = getter[c].gen
    OBVIOUS
  <2>1. TakeFromChannel(h) \/ TakeTimer(h)
    BY <1>8, <2>h DEF GetterReturns
  <2>2. getter[c] \in GetType /\ GetInv(c) /\ getter[c].st \in {"select", "due"}
    BY <1>8 DEF GetterReturns, ProcInv, ProcTypes
  <2>3. h # None /\ h <= created /\ h \in {None} \cup Gens
    BY <2>h, <2>2 DEF GetInv, GetType
  <2>4. h \in 1 .. created
    BY <1>1, <2>3, Constants
  <2> QED
    BY <1>4, <2>1, <2>4
<1>9. ASSUME Tick PROVE tracker'[g] = tracker[g]
  BY <1>1, <1>3, <1>9 DEF Tick
<1>10. ASSUME Cleanup PROVE tracker'[g] = tracker[g]
  BY <1>10 DEF Cleanup
<1>11. ASSUME NEW p \in Responses, Lookup(p) \/ Report(p) PROVE tracker'[g] = tracker[g]
  BY <1>11 DEF Lookup, Report
<1>12. ASSUME NEW c \in Getters, GetDecision(c) PROVE tracker'[g] = tracker[g]
  BY <1>12 DEF GetDecision
<1>13. tracker'[g] = tracker[g]
  BY <1>5, <1>6, <1>7, <1>8, <1>9, <1>10, <1>11, <1>12 DEF Next, HandleMessage
<1> QED
  BY <1>3, <1>13

LEMMA UntouchedAlways == Spec => []Untouched
BY UntouchedInit, UntouchedStep, ProcessorInvariant, PTL DEF Spec

LEMMA NoTrackerIs ==
    /\ NoTracker.expected = {} /\ NoTracker.responded = {} /\ NoTracker.actions = {}
    /\ NoTracker.final = "none" /\ NoTracker.timedOut = FALSE /\ NoTracker.chan = FALSE
BY DEF NoTracker, NewTracker

LEMMA TrackingStep ==
    ASSUME ProcInv, Untouched, [Next]_vars, NEW g \in Gens
    PROVE  [Tracking(g)!Next]_(Tracking(g)!vars)
<1>0. tracker[g] \in TrackerType
  BY DEF ProcInv, ProcTypes
<1>1. CASE UNCHANGED vars
  BY <1>1 DEF vars, Tracking!vars
<1>2. CASE Next
  <2>1. TrackerMoves(g)
    BY <1>2, StepMoves
  <2>2. CASE tracker'[g] = [tracker[g] EXCEPT !.age = tracker'[g].age]
    <3>1. /\ tracker'[g].expected = tracker[g].expected /\ tracker'[g].responded = tracker[g].responded
          /\ tracker'[g].actions = tracker[g].actions /\ tracker'[g].final = tracker[g].final
          /\ tracker'[g].timedOut = tracker[g].timedOut /\ tracker'[g].chan = tracker[g].chan
      BY <1>0, <2>2 DEF TrackerType
    <3> QED
      BY <3>1 DEF Tracking!vars
  <2>3. CASE /\ g = created + 1 /\ created' = g
             /\ \E id \in MessageIDs, S \in SUBSET Systems : tracker'[g] = NewTracker(id, S)
    <3>1. tracker[g] = NoTracker
      BY <2>3, Constants DEF Untouched, ProcInv, ProcTypes
    <3>2. PICK id \in MessageIDs, S \in SUBSET Systems : tracker'[g] = NewTracker(id, S)
      BY <2>3
    <3>3. /\ tracker'[g].expected = S /\ tracker'[g].responded = {} /\ tracker'[g].actions = {}
          /\ tracker'[g].final = "none" /\ tracker'[g].timedOut = FALSE /\ tracker'[g].chan = FALSE
      BY <3>2 DEF NewTracker
    <3>4. Tracking(g)!Track
      BY <3>1, <3>3, NoTrackerIs DEF Tracking!Track
    <3> QED
      BY <3>4 DEF Tracking!Next
  <2>4. ASSUME NEW act \in Actions, Tracking(g)!Respond(SourceID, act)
        PROVE  [Tracking(g)!Next]_(Tracking(g)!vars)
    <3>1. SourceID \in Systems
      BY <1>0, <2>4 DEF Tracking!Respond, TrackerType
    <3> QED
      BY <2>4, <3>1 DEF Tracking!Next
  <2> QED
    BY <2>1, <2>2, <2>3, <2>4 DEF TrackerMoves, Tracking!Next
<1> QED
  BY <1>1, <1>2

(***************************************************************************)
(* The processor does to a tracker only what a TrackedMessage does, be the *)
(* tracker in the map, cleaned up, or replaced by one with its id (the     *)
(* uses of a tracker after p.mutex is released: processor.go lines         *)
(* 137-189, processor_handler.go lines 66-85).                             *)
(***************************************************************************)
THEOREM TrackedMessagesUsed == Spec => UsesTrackedMessages
<1>1. Init => \A g \in Gens : Tracking(g)!Init
  BY NoTrackerIs DEF Init, Tracking!Init
<1>2. ProcInv /\ Untouched /\ [Next]_vars =>
        [\A g \in Gens : [Tracking(g)!Next]_(Tracking(g)!vars)]_vars
  BY TrackingStep
<1> QED
  BY <1>1, <1>2, ProcessorInvariant, UntouchedAlways, PTL DEF Spec, UsesTrackedMessages
-----------------------------------------------------------------------------
(***************************************************************************)
(* The second refinement, of DecisionOnce by each message.                 *)
(***************************************************************************)
LEMMA StatusIs ==
    /\ StatusOrNone("none") = "none"
    /\ \A f \in Actions : f # "none" /\ StatusOrNone(f) = StatusOf(f)
                          /\ StatusOf(f) \in {"SM_OK", "SM_REJECT"}
BY DEF StatusOrNone, StatusOf, Actions

LEMMA ReaderIs ==
    ASSUME NEW r \in Readers
    PROVE  \/ r = <<"SMSC">> /\ r[1] = "SMSC"
           \/ r[1] = "response" /\ r[2] \in Responses /\ r = <<"response", r[2]>>
           \/ r[1] = "getter" /\ r[2] \in Getters /\ r = <<"getter", r[2]>>
BY DEF Readers

\* No step changes a final action.
LEMMA StepFinal ==
    ASSUME ProcInv, Untouched, Next, NEW g \in Gens
    PROVE  /\ tracker[g].final # "none" => tracker'[g].final = tracker[g].final
           /\ tracker[g].final \in Finals
<1>1. TrackerMoves(g) /\ tracker[g] \in TrackerType /\ created \in Nat
  BY StepMoves, Constants DEF ProcInv, ProcTypes
<1>2. CASE tracker'[g] = [tracker[g] EXCEPT !.age = tracker'[g].age]
  <2>1. tracker'[g].final = tracker[g].final
    BY <1>1, <1>2 DEF TrackerType
  <2> QED
    BY <1>1, <2>1 DEF TrackerType
<1>3. CASE g = created + 1
  <2>1. tracker[g].final = "none"
    BY <1>1, <1>3, NoTrackerIs DEF Untouched
  <2> QED
    BY <2>1 DEF Finals
<1>4. CASE \E act \in Actions : Tracking(g)!Respond(SourceID, act)
  BY <1>1, <1>4 DEF Tracking!Respond, TrackerType
<1>5. CASE Tracking(g)!Expire
  BY <1>1, <1>5 DEF Tracking!Expire, TrackerType
<1>6. CASE Tracking(g)!Take
  BY <1>1, <1>6 DEF Tracking!Take, TrackerType
<1> QED
  BY <1>1, <1>2, <1>3, <1>4, <1>5, <1>6 DEF TrackerMoves

\* Nobody is told anything: the message is decided, or nothing happens to it.
LEMMA NobodyTold ==
    ASSUME ProcInv, ProcInv', Untouched, Next, NEW g \in Gens, Told(g)' = Told(g)
    PROVE  [Verdict(g)!Next]_(Verdict(g)!vars)
<1>1. /\ tracker[g].final # "none" => tracker'[g].final = tracker[g].final
      /\ tracker[g].final \in Finals /\ tracker'[g].final \in Finals
  BY StepFinal DEF ProcInv, ProcTypes, TrackerType
<1>2. CASE tracker'[g].final = tracker[g].final
  BY <1>2 DEF Verdict!vars, StatusOrNone, StatusOf
<1>3. CASE tracker'[g].final # tracker[g].final
  <2>1. tracker[g].final = "none" /\ tracker'[g].final \in Actions
    BY <1>1, <1>3 DEF Finals
  <2>2. StatusOrNone(tracker[g].final) = "none"
        /\ StatusOrNone(tracker[g].final)' \in {"SM_OK", "SM_REJECT"}
    BY <2>1, StatusIs DEF StatusOrNone, StatusOf
  <2>3. Verdict(g)!Decide
    BY <2>2 DEF Verdict!Decide
  <2> QED
    BY <2>3 DEF Verdict!Next
<1> QED
  BY <1>2, <1>3

\* One reader is told the decision, which is there or made in the same step.
LEMMA OneTold ==
    ASSUME ProcInv, ProcInv', Untouched, Next, NEW g \in Gens, NEW r \in Readers,
           Told(g)[r] = "none", tracker'[g].final # "none",
           Told(g)' = [Told(g) EXCEPT ![r] = StatusOf(tracker'[g].final)]
    PROVE  [Verdict(g)!Next]_(Verdict(g)!vars)
<1>1. /\ tracker[g].final # "none" => tracker'[g].final = tracker[g].final
      /\ tracker[g].final \in Finals /\ tracker'[g].final \in Actions
  BY StepFinal DEF ProcInv, ProcTypes, TrackerType, Finals
<1>2. StatusOrNone(tracker[g].final)' = StatusOf(tracker'[g].final)
      /\ StatusOf(tracker'[g].final) \in {"SM_OK", "SM_REJECT"}
  BY <1>1, StatusIs DEF StatusOrNone, StatusOf
<1>3. CASE tracker[g].final = "none"
  <2>1. StatusOrNone(tracker[g].final) = "none"
    BY <1>3, StatusIs
  <2>2. Verdict(g)!DecideAndRead(r)
    BY <1>2, <2>1 DEF Verdict!DecideAndRead
  <2> QED
    BY <2>2 DEF Verdict!Next
<1>4. CASE tracker[g].final # "none"
  <2>1. tracker'[g].final = tracker[g].final /\ tracker[g].final \in Actions
    BY <1>1, <1>4
  <2>2. StatusOrNone(tracker[g].final)' = StatusOrNone(tracker[g].final)
        /\ StatusOrNone(tracker[g].final) = StatusOf(tracker'[g].final)
        /\ StatusOrNone(tracker[g].final) # "none"
    BY <2>1, StatusIs DEF StatusOrNone, StatusOf
  <2>3. Verdict(g)!Read(r)
    BY <2>2 DEF Verdict!Read
  <2> QED
    BY <2>3 DEF Verdict!Next
<1> QED
  BY <1>3, <1>4

LEMMA ToldSame ==
    ASSUME NEW g \in Gens, answer'[g] = answer[g],
           \A p \in Responses : ToldResponse(g, p)' = ToldResponse(g, p),
           \A c \in Getters : ToldGetter(g, c)' = ToldGetter(g, c)
    PROVE  Told(g)' = Told(g)
<1>1. ASSUME NEW r \in Readers PROVE Told(g)'[r] = Told(g)[r]
  BY ReaderIs DEF Told, ToldTo
<1> QED
  BY <1>1 DEF Told, ToldTo
\* What the callers are told is no more than their results, which only their
\* own steps change.
LEMMA SameResult ==
    ASSUME NEW g \in Gens, NEW p \in Responses,
           \/ resp'[p] = resp[p]
           \/ resp[p].result = "none" /\ resp'[p].result = "none"
    PROVE  ToldResponse(g, p)' = ToldResponse(g, p)
BY DEF ToldResponse, StatusOrNone

LEMMA SameGetterResult ==
    ASSUME NEW g \in Gens, NEW c \in Getters,
           \/ getter'[c].gen = getter[c].gen /\ getter'[c].result = getter[c].result
           \/ getter[c].result = "none" /\ getter'[c].result = "none"
    PROVE  ToldGetter(g, c)' = ToldGetter(g, c)
BY DEF ToldGetter, StatusOrNone

LEMMA ToldUpdate ==
    ASSUME NEW g \in Gens, NEW r \in Readers,
           \A q \in Readers :
             Told(g)'[q] = IF q = r THEN StatusOf(tracker'[g].final) ELSE Told(g)[q]
    PROVE  Told(g)' = [Told(g) EXCEPT ![r] = StatusOf(tracker'[g].final)]
<1>1. Told(g) = [q \in Readers |-> Told(g)[q]]
  BY DEF Told
<1>2. Told(g)' = [q \in Readers |-> Told(g)'[q]]
  BY DEF Told
<1> HIDE DEF Told
<1> QED
  BY <1>1, <1>2

\* The goroutine of the message tells the SMSC.
LEMMA GoroutineTells ==
    ASSUME ProcInv, ProcInv', Untouched, Next, NEW h \in Gens, GoroutineReturns(h), NEW g \in Gens
    PROVE  [Verdict(g)!Next]_(Verdict(g)!vars)
<1>1. /\ goroutine[h] \in {"select", "due"}
      /\ TakeFromChannel(h) \/ TakeTimer(h)
      /\ answer' = [answer EXCEPT ![h] = StatusOf(tracker'[h].final)]
      /\ UNCHANGED <<trackers, created, resp, getter>>
  BY DEF GoroutineReturns
<1>2. /\ \A p \in Responses : ToldResponse(g, p)' = ToldResponse(g, p)
      /\ \A c \in Getters : ToldGetter(g, c)' = ToldGetter(g, c)
  BY <1>1, SameResult, SameGetterResult
<1>3. CASE g # h
  <2>1. answer'[g] = answer[g]
    BY <1>1, <1>3 DEF ProcInv, ProcTypes
  <2> QED
    BY <1>2, <2>1, ToldSame, NobodyTold
<1>4. CASE g = h
  <2>r. PICK r \in Readers : r = <<"SMSC">>
    BY DEF Readers
  <2>1. answer[g] = "none" /\ answer'[g] = StatusOf(tracker'[g].final)
    BY <1>1, <1>4 DEF ProcInv, ProcTypes, Waiting
  <2>2. tracker'[g].final # "none"
    <3>1. answer'[g] # "none"
      BY <2>1 DEF StatusOf
    <3>2. tracker'[g].done
      BY <3>1 DEF ProcInv, Waiting
    <3> QED
      BY <3>2 DEF ProcInv, TrackersInv, Decided
  <2>3. Told(g)[r] = "none"
    BY <2>r, <2>1 DEF Told, ToldTo
  <2>4. Told(g)' = [Told(g) EXCEPT ![r] = StatusOf(tracker'[g].final)]
    <3>1. ASSUME NEW q \in Readers
          PROVE  Told(g)'[q] = IF q = r THEN StatusOf(tracker'[g].final) ELSE Told(g)[q]
      BY <1>2, <2>r, <2>1, ReaderIs DEF Told, ToldTo
    <3> QED
      BY <3>1, ToldUpdate
  <2> QED
    BY <2>2, <2>3, <2>4, OneTold
<1> QED
  BY <1>3, <1>4

\* GetDecision tells its caller.
LEMMA GetterTells ==
    ASSUME ProcInv, ProcInv', Untouched, Next, NEW c \in Getters, GetterReturns(c), NEW g \in Gens
    PROVE  [Verdict(g)!Next]_(Verdict(g)!vars)
<1>h. PICK h : h = getter[c].gen
  OBVIOUS
<1>1. /\ getter[c].st \in {"select", "due"} /\ getter[c] \in GetType /\ GetInv(c)
      /\ getter' = [getter EXCEPT ![c].st = "returned", ![c].result = tracker'[h].final]
      /\ UNCHANGED <<trackers, created, goroutine, answer, resp>>
  BY <1>h DEF GetterReturns, ProcInv, ProcTypes
<1>2. getter[c].result = "none"
  BY <1>1 DEF GetInv
<1>3. getter'[c].gen = h /\ getter'[c].result = tracker'[h].final
      /\ \A d \in Getters \ {c} : getter'[d] = getter[d]
  BY <1>h, <1>1 DEF ProcInv, ProcTypes, GetType
<1>4. /\ \A p \in Responses : ToldResponse(g, p)' = ToldResponse(g, p)
      /\ \A d \in Getters \ {c} : ToldGetter(g, d)' = ToldGetter(g, d)
  BY <1>1, <1>3, SameResult, SameGetterResult
<1>5. CASE g # h
  <2>1. ToldGetter(g, c)' = ToldGetter(g, c)
    BY <1>h, <1>3, <1>5 DEF ToldGetter
  <2> QED
    BY <1>1, <1>4, <2>1, ToldSame, NobodyTold
<1>6. CASE g = h
  <2>r. PICK r \in Readers : r = <<"getter", c>>
    BY DEF Readers
  <2>1. tracker'[g].final # "none" /\ tracker'[g].final \in Actions
    <3>1. h \in 1 .. created /\ (TakeFromChannel(h) \/ TakeTimer(h))
      <4>1. h # None /\ h <= created /\ h \in {None} \cup Gens /\ created \in Nat
        BY <1>h, <1>1, Constants DEF GetInv, GetType, ProcInv, ProcTypes
      <4>2. TakeFromChannel(h) \/ TakeTimer(h)
        BY <1>h DEF GetterReturns
      <4> QED
        BY <4>1, <4>2, Constants
    <3>2. PICK tr : Touches(h, tr) /\ tr.done
      BY <3>1, WaitTouches
    <3>3. tracker'[h] = tr
      BY <1>6, <3>2 DEF Touches, ProcInv, ProcTypes
    <3> QED
      BY <1>6, <3>2, <3>3 DEF Touches, Decided, TrackerType, Finals
  <2>2. ToldGetter(g, c) = "none" /\ ToldGetter(g, c)' = StatusOf(tracker'[g].final)
    BY <1>h, <1>2, <1>3, <1>6, <2>1 DEF ToldGetter, StatusOrNone
  <2>3. Told(g)[r] = "none"
    BY <2>r, <2>2 DEF Told, ToldTo
  <2>4. Told(g)' = [Told(g) EXCEPT ![r] = StatusOf(tracker'[g].final)]
    <3>1. ASSUME NEW q \in Readers
          PROVE  Told(g)'[q] = IF q = r THEN StatusOf(tracker'[g].final) ELSE Told(g)[q]
      <4>1. CASE q = r
        BY <2>r, <2>2, <4>1 DEF Told, ToldTo
      <4>2. CASE q # r
        BY <1>1, <1>4, <2>r, <4>2, ReaderIs DEF Told, ToldTo
      <4> QED
        BY <4>1, <4>2
    <3> QED
      BY <3>1, ToldUpdate
  <2> QED
    BY <2>1, <2>3, <2>4, OneTold
<1> QED
  BY <1>5, <1>6

\* ProcessResponse tells its caller, if there is something to tell.
LEMMA ReportTells ==
    ASSUME ProcInv, ProcInv', Untouched, Next, NEW p \in Responses, Report(p), NEW g \in Gens
    PROVE  [Verdict(g)!Next]_(Verdict(g)!vars)
<1>h. PICK h : h = resp[p].gen
  OBVIOUS
<1>1. /\ resp[p].st = "added" /\ resp[p] \in CallType /\ CallInv(p)
      /\ resp' = [resp EXCEPT ![p].st = "returned", ![p].result = tracker[h].final]
      /\ UNCHANGED <<trackers, tracker, created, goroutine, answer, getter>>
  BY <1>h DEF Report, ProcInv, ProcTypes
<1>2. resp[p].result = "none"
  BY <1>1 DEF CallInv
<1>3. resp'[p].gen = h /\ resp'[p].result = tracker[h].final
      /\ \A q \in Responses \ {p} : resp'[q] = resp[q]
  BY <1>h, <1>1 DEF ProcInv, ProcTypes, CallType
<1>4. /\ \A q \in Responses \ {p} : ToldResponse(g, q)' = ToldResponse(g, q)
      /\ \A c \in Getters : ToldGetter(g, c)' = ToldGetter(g, c)
  BY <1>1, <1>3, SameResult, SameGetterResult
<1>5. CASE g # h \/ tracker[h].final = "none"
  <2>1. ToldResponse(g, p)' = ToldResponse(g, p)
    BY <1>h, <1>2, <1>3, <1>5 DEF ToldResponse
  <2> QED
    BY <1>1, <1>4, <2>1, ToldSame, NobodyTold
<1>6. CASE g = h /\ tracker[h].final # "none"
  <2>r. PICK r \in Readers : r = <<"response", p>>
    BY DEF Readers
  <2>1. tracker'[g].final # "none"
    BY <1>1, <1>6
  <2>2. ToldResponse(g, p) = "none" /\ ToldResponse(g, p)' = StatusOf(tracker'[g].final)
    BY <1>h, <1>1, <1>2, <1>3, <1>6, <2>1 DEF ToldResponse, StatusOrNone
  <2>3. Told(g)[r] = "none"
    BY <2>r, <2>2 DEF Told, ToldTo
  <2>4. Told(g)' = [Told(g) EXCEPT ![r] = StatusOf(tracker'[g].final)]
    <3>1. ASSUME NEW q \in Readers
          PROVE  Told(g)'[q] = IF q = r THEN StatusOf(tracker'[g].final) ELSE Told(g)[q]
      <4>1. CASE q = r
        BY <2>r, <2>2, <4>1 DEF Told, ToldTo
      <4>2. CASE q # r
        BY <1>1, <1>4, <2>r, <4>2, ReaderIs DEF Told, ToldTo
      <4> QED
        BY <4>1, <4>2
    <3> QED
      BY <3>1, ToldUpdate
  <2> QED
    BY <2>1, <2>3, <2>4, OneTold
<1> QED
  BY <1>5, <1>6

LEMMA VerdictStep ==
    ASSUME ProcInv, ProcInv', Untouched, [Next]_vars, NEW g \in Gens
    PROVE  [Verdict(g)!Next]_(Verdict(g)!vars)
<1>1. CASE UNCHANGED vars
  <2>1. Told(g)' = Told(g)
    BY <1>1 DEF vars, Told, ToldTo, ToldResponse, ToldGetter, StatusOrNone, StatusOf
  <2> QED
    BY <1>1, <2>1 DEF vars, Verdict!vars, StatusOrNone, StatusOf
<1>2. CASE Next
  <2>1. ASSUME answer' = answer,
               \A p \in Responses : resp'[p] = resp[p]
                 \/ (resp[p].result = "none" /\ resp'[p].result = "none"),
               \A c \in Getters :
                 \/ getter'[c].gen = getter[c].gen /\ getter'[c].result = getter[c].result
                 \/ getter[c].result = "none" /\ getter'[c].result = "none"
        PROVE  [Verdict(g)!Next]_(Verdict(g)!vars)
    BY <1>2, <2>1, SameResult, SameGetterResult, ToldSame, NobodyTold
  <2>2. ASSUME NEW id \in MessageIDs, Handle(id) PROVE [Verdict(g)!Next]_(Verdict(g)!vars)
    BY <2>1, <2>2 DEF Handle
  <2>3. ASSUME NEW p \in Responses, Lookup(p) PROVE [Verdict(g)!Next]_(Verdict(g)!vars)
    <3>1. resp[p].st = "idle" /\ UNCHANGED <<answer, getter>>
      BY <2>3 DEF Lookup
    <3>2. resp[p].result = "none"
      BY <3>1 DEF ProcInv, CallInv
    <3>3. PICK of \in 1 .. created, action \in Actions :
            resp' = [resp EXCEPT ![p] =
              [st |-> IF trackers[tracker[of].id] = None THEN "unknown id" ELSE "found",
               of |-> of, gen |-> trackers[tracker[of].id], action |-> action, result |-> "none"]]
      BY <2>3 DEF Lookup
    <3>4. resp'[p].result = "none" /\ \A q \in Responses \ {p} : resp'[q] = resp[q]
      BY <3>3 DEF ProcInv, ProcTypes
    <3> QED
      BY <2>1, <3>1, <3>2, <3>4
  <2>4. ASSUME NEW p \in Responses, Add(p) PROVE [Verdict(g)!Next]_(Verdict(g)!vars)
    <3>1. UNCHANGED <<answer, getter>> /\ resp[p].st = "found"
      BY <2>4 DEF Add
    <3>2. \E st : resp' = [resp EXCEPT ![p].st = st]
      BY <2>4 DEF Add
    <3>3. /\ resp'[p].result = resp[p].result /\ resp[p].result = "none"
          /\ \A q \in Responses \ {p} : resp'[q] = resp[q]
      BY <3>1, <3>2 DEF ProcInv, ProcTypes, CallType, CallInv
    <3> QED
      BY <2>1, <3>1, <3>3
  <2>5. ASSUME NEW c \in Getters, GetDecision(c) PROVE [Verdict(g)!Next]_(Verdict(g)!vars)
    <3>1. getter[c].st = "idle" /\ UNCHANGED <<answer, resp>>
      BY <2>5 DEF GetDecision
    <3>2. getter[c].result = "none"
      BY <3>1 DEF ProcInv, GetInv
    <3>3. PICK id \in MessageIDs, wait \in BOOLEAN :
            getter' = [getter EXCEPT ![c] =
              [st |-> IF ~wait /\ ~tracker[trackers[id]].done THEN "not ready" ELSE "select",
               gen |-> trackers[id], wait |-> wait, result |-> "none"]]
      BY <2>5 DEF GetDecision
    <3>4. getter'[c].result = "none" /\ \A d \in Getters \ {c} : getter'[d] = getter[d]
      BY <3>3 DEF ProcInv, ProcTypes
    <3> QED
      BY <2>1, <3>1, <3>2, <3>4
  <2>6. ASSUME Cleanup PROVE [Verdict(g)!Next]_(Verdict(g)!vars)
    BY <2>1, <2>6 DEF Cleanup
  <2>7. ASSUME Tick PROVE [Verdict(g)!Next]_(Verdict(g)!vars)
    <3>1. answer' = answer /\ resp' = resp
      BY <2>7 DEF Tick
    <3>2. ASSUME NEW c \in Getters
          PROVE  getter'[c].gen = getter[c].gen /\ getter'[c].result = getter[c].result
      <4>1. getter[c] \in GetType
        BY DEF ProcInv, ProcTypes
      <4>2. getter'[c] = IF getter[c].st = "select" THEN [getter[c] EXCEPT !.st = "due"] ELSE getter[c]
        BY <2>7 DEF Tick
      <4> QED
        BY <4>1, <4>2 DEF GetType
    <3> QED
      BY <2>1, <3>1, <3>2
  <2>8. ASSUME NEW h \in Gens, GoroutineReturns(h) PROVE [Verdict(g)!Next]_(Verdict(g)!vars)
    BY <1>2, <2>8, GoroutineTells
  <2>9. ASSUME NEW c \in Getters, GetterReturns(c) PROVE [Verdict(g)!Next]_(Verdict(g)!vars)
    BY <1>2, <2>9, GetterTells
  <2>10. ASSUME NEW p \in Responses, Report(p) PROVE [Verdict(g)!Next]_(Verdict(g)!vars)
    BY <1>2, <2>10, ReportTells
  <2> QED
    BY <1>2, <2>2, <2>3, <2>4, <2>5, <2>6, <2>7, <2>8, <2>9, <2>10 DEF Next, HandleMessage
<1> QED
  BY <1>1, <1>2

(***************************************************************************)
(* Each message is decided once, and the SMSC and all callers are told     *)
(* that decision (processor_handler.go lines 62-97, processor.go lines     *)
(* 129-189), whichever of them a timer, a response or another caller       *)
(* overtakes, and after the tracker has left the map.                      *)
(***************************************************************************)
THEOREM VerdictRefinement == Spec => ImplementsDecisionOnce
<1>1. Init => \A g \in Gens : Verdict(g)!Init
  <2> SUFFICES ASSUME Init, NEW g \in Gens PROVE Verdict(g)!Init
    OBVIOUS
  <2>1. tracker[g].final = "none" /\ answer[g] = "none"
    BY NoTrackerIs DEF Init
  <2>2. \A p \in Responses : ToldResponse(g, p) = "none"
    BY DEF Init, Idle, ToldResponse, StatusOrNone
  <2>3. \A c \in Getters : ToldGetter(g, c) = "none"
    BY DEF Init, IdleGetter, ToldGetter, StatusOrNone
  <2>4. \A r \in Readers : Told(g)[r] = "none"
    BY <2>1, <2>2, <2>3, ReaderIs DEF Told, ToldTo
  <2>5. Told(g) = [r \in Readers |-> "none"]
    BY <2>4 DEF Told, ToldTo
  <2> QED
    BY <2>1, <2>5 DEF Verdict!Init, StatusOrNone
<1>2. ProcInv /\ ProcInv' /\ Untouched /\ [Next]_vars =>
        [\A g \in Gens : [Verdict(g)!Next]_(Verdict(g)!vars)]_vars
  BY VerdictStep
<1> QED
  BY <1>1, <1>2, ProcessorInvariant, UntouchedAlways, PTL DEF Spec, ImplementsDecisionOnce

-----------------------------------------------------------------------------
(***************************************************************************)
(* What the one source costs: if no session goes by the name SourceID, no  *)
(* response is ever added, and only timeouts decide.                       *)
(***************************************************************************)
ByTimeout(tr) == tr.final = "none" \/ (tr.final = "ALLOW" /\ tr.timedOut)
OnlyTimeouts ==
    /\ \A p \in Responses : resp[p].st \notin {"added", "returned"}
    /\ \A g \in Gens : ByTimeout(tracker[g])

LEMMA OnlyTimeoutsStep ==
    ASSUME SourceID \notin Systems, ProcInv, OnlyTimeouts, [Next]_vars
    PROVE  OnlyTimeouts'
<1>0. CASE UNCHANGED vars
  BY <1>0 DEF vars, OnlyTimeouts
<1>1. ASSUME Next, NEW g \in Gens
      PROVE  ByTimeout(tracker'[g])
  <2>0. tracker[g] \in TrackerType /\ ByTimeout(tracker[g])
    BY DEF ProcInv, ProcTypes, OnlyTimeouts
  <2>1. CASE tracker'[g] = [tracker[g] EXCEPT !.age = tracker'[g].age]
    <3>1. PICK age : age = tracker'[g].age
      OBVIOUS
    <3>2. tracker'[g] = [tracker[g] EXCEPT !.age = age]
      BY <2>1, <3>1
    <3>3. /\ [tracker[g] EXCEPT !.age = age].final = tracker[g].final
          /\ [tracker[g] EXCEPT !.age = age].timedOut = tracker[g].timedOut
      BY <2>0 DEF TrackerType
    <3> QED
      BY <2>0, <3>2, <3>3 DEF ByTimeout
  <2>2. CASE \E id \in MessageIDs, S \in SUBSET Systems : tracker'[g] = NewTracker(id, S)
    BY <2>2 DEF NewTracker, ByTimeout
  <2>3. CASE \E act \in Actions : Tracking(g)!Respond(SourceID, act)
    BY <2>0, <2>3 DEF Tracking!Respond, TrackerType
  <2>4. CASE Tracking(g)!Expire
    BY <2>4 DEF Tracking!Expire, ByTimeout
  <2>5. CASE Tracking(g)!Take
    BY <2>0, <2>5 DEF Tracking!Take, ByTimeout
  <2> QED
    BY <1>1, <2>1, <2>2, <2>3, <2>4, <2>5, StepMoves DEF TrackerMoves
<1>2. ASSUME Next, NEW p \in Responses
      PROVE  resp'[p].st \notin {"added", "returned"}
  <2>1. ASSUME NEW q \in Responses, Lookup(q) PROVE resp'[p].st \notin {"added", "returned"}
    <3>1. PICK of \in 1 .. created, action \in Actions :
            LET g == trackers[tracker[of].id] IN
            resp' = [resp EXCEPT ![q] =
                       [st |-> IF g = None THEN "unknown id" ELSE "found",
                        of |-> of, gen |-> g, action |-> action, result |-> "none"]]
      BY <2>1 DEF Lookup
    <3>2. CASE p = q
      BY <3>1, <3>2 DEF ProcInv, ProcTypes
    <3>3. CASE p # q
      BY <3>1, <3>3 DEF ProcInv, ProcTypes, OnlyTimeouts
    <3> QED
      BY <3>2, <3>3
  <2>2. ASSUME NEW q \in Responses, Add(q) PROVE resp'[p].st \notin {"added", "returned"}
    <3>1. resp[q].st = "found" /\ CallInv(q) /\ resp[q] \in CallType
      BY <2>2 DEF Add, ProcInv, ProcTypes
    <3>2. resp[q].gen \in Gens
      BY <3>1, Constants DEF CallInv, CallType
    <3>3. tracker[resp[q].gen].expected \subseteq Systems
      BY <3>2 DEF ProcInv, ProcTypes, TrackerType
    <3>4. ~Accepts(tracker[resp[q].gen])
      BY <3>3 DEF Accepts
    <3>5. resp' = [resp EXCEPT ![q].st = "refused"]
      BY <2>2, <3>4 DEF Add
    <3>6. CASE p = q
      <4>1. resp'[p] = [resp[q] EXCEPT !.st = "refused"]
        BY <3>5, <3>6 DEF ProcInv, ProcTypes
      <4> QED
        BY <3>1, <4>1 DEF CallType
    <3>7. CASE p # q
      BY <3>5, <3>7 DEF ProcInv, ProcTypes, OnlyTimeouts
    <3> QED
      BY <3>6, <3>7
  <2>3. ASSUME NEW q \in Responses, Report(q) PROVE FALSE
    BY <2>3 DEF Report, OnlyTimeouts
  <2>4. CASE UNCHANGED resp
    BY <2>4 DEF OnlyTimeouts
  <2> QED
    BY <1>2, <2>1, <2>2, <2>3, <2>4
       DEF Next, Handle, HandleMessage, GoroutineReturns, GetDecision, GetterReturns, Cleanup, Tick
<1> QED
  BY <1>0, <1>1, <1>2 DEF OnlyTimeouts

(***************************************************************************)
(* If no network element goes by the name "unknown", which ProcessResponse *)
(* gives the source of every response (processor.go 134), no response is   *)
(* ever added: whatever the elements answer, to intercept included, only   *)
(* the timeout decides, and the SMSC is told SM_OK.                        *)
(***************************************************************************)
THEOREM NobodyIsHeard ==
    ASSUME SourceID \notin Systems
    PROVE  Spec => [](/\ \A p \in Responses : resp[p].st \notin {"added", "returned"}
                      /\ \A g \in Gens : tracker[g].done => tracker[g].timedOut
                      /\ \A g \in Gens : answer[g] # "SM_REJECT")
<1>1. Init => OnlyTimeouts
  BY DEF Init, OnlyTimeouts, ByTimeout, Idle, NoTracker, NewTracker
<1>2. ProcInv /\ OnlyTimeouts /\ [Next]_vars => OnlyTimeouts'
  BY OnlyTimeoutsStep
<1>3. ProcInv /\ OnlyTimeouts =>
        /\ \A p \in Responses : resp[p].st \notin {"added", "returned"}
        /\ \A g \in Gens : tracker[g].done => tracker[g].timedOut
        /\ \A g \in Gens : answer[g] # "SM_REJECT"
  <2> SUFFICES ASSUME ProcInv, OnlyTimeouts, NEW g \in Gens
               PROVE  /\ tracker[g].done => tracker[g].timedOut
                      /\ answer[g] # "SM_REJECT"
    BY DEF OnlyTimeouts
  <2>0. tracker[g].done => tracker[g].timedOut
    BY DEF ProcInv, TrackersInv, Decided, OnlyTimeouts, ByTimeout
  <2>1. answer[g] # "none" => answer[g] = StatusOf(tracker[g].final)
    BY DEF ProcInv, Waiting
  <2>2. StatusOf(tracker[g].final) = "SM_OK"
    BY DEF OnlyTimeouts, ByTimeout, StatusOf
  <2> QED
    BY <2>0, <2>1, <2>2
<1> QED
  BY <1>1, <1>2, <1>3, ProcessorInvariant, PTL DEF Spec
=============================================================================
