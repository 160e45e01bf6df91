----------------------- MODULE ResponseTrackerProofs -----------------------
(***************************************************************************)
(* Proofs about ResponseTracker for every set of responders, waiters and   *)
(* sources: its safety invariants, from one inductive invariant, and that  *)
(* it implements DecisionOnce.                                             *)
(***************************************************************************)
EXTENDS ResponseTracker, SequenceTheorems, TLAPS

(***************************************************************************)
(* Appending to the list of decisions adds one to the set of decisions.    *)
(***************************************************************************)
LEMMA ToSetAppend ==
  ASSUME NEW S, NEW s \in Seq(S), NEW e \in S
  PROVE  ToSet(Append(s, e)) = ToSet(s) \cup {e}
<1> DEFINE t == Append(s, e)
<1>1. /\ t \in Seq(S) /\ Len(t) = Len(s) + 1 /\ Len(s) \in Nat
      /\ \A i \in 1 .. Len(s) : t[i] = s[i]
      /\ t[Len(s) + 1] = e
  BY AppendProperties, LenProperties
<1>2. DOMAIN t = 1 .. Len(s) + 1 /\ DOMAIN s = 1 .. Len(s)
  BY <1>1, LenProperties
<1>3. ASSUME NEW i \in DOMAIN t PROVE t[i] \in ToSet(s) \cup {e}
  BY <1>1, <1>2 DEF ToSet
<1>4. ASSUME NEW x \in ToSet(s) \cup {e} PROVE \E i \in DOMAIN t : t[i] = x
  <2>1. CASE x = e
    BY <1>1, <1>2, <2>1
  <2>2. CASE x \in ToSet(s)
    BY <1>1, <1>2, <2>2 DEF ToSet
  <2>3. QED
    BY <1>4, <2>1, <2>2
<1>5. QED
  BY <1>3, <1>4 DEF ToSet

(***************************************************************************)
(* Every decision in the list is a decision.                               *)
(***************************************************************************)
LEMMA ToSetType ==
  ASSUME NEW S, NEW s \in Seq(S)
  PROVE  ToSet(s) \subseteq S
BY DEF ToSet

(***************************************************************************)
(* What ApplyDecisionRules returns for a list with a decision in it: one   *)
(* of the list, an interception if there is one, and none of those that    *)
(* compete with it is older.                                               *)
(***************************************************************************)
LEMMA RulesSound ==
  ASSUME NEW ds \in Seq(Decision), ToSet(ds) # {},
         NEW f \in ApplyDecisionRules(ds)
  PROVE  /\ f \in ToSet(ds)
         /\ f \in Decision
         /\ InterceptsOf(ToSet(ds)) # {} => f.action = Intercept
         /\ \A d \in ToSet(ds) :
              d.action = f.action \/ f.action # Intercept => f.ts <= d.ts
<1>1. ToSet(ds) \subseteq Decision
  BY ToSetType
<1>2. CASE InterceptsOf(ToSet(ds)) # {}
  <2>1. f \in FindEarliestDecision(InterceptsOf(ToSet(ds)))
    BY <1>2 DEF ApplyDecisionRules
  <2>2. QED
    BY <1>1, <1>2, <2>1 DEF FindEarliestDecision, InterceptsOf
<1>3. CASE InterceptsOf(ToSet(ds)) = {}
  <2>1. f \in FindEarliestDecision(ToSet(ds))
    BY <1>3 DEF ApplyDecisionRules
  <2>2. QED
    BY <1>1, <1>3, <2>1 DEF FindEarliestDecision, InterceptsOf
<1>4. QED
  BY <1>2, <1>3

-----------------------------------------------------------------------------
(***************************************************************************)
(* The inductive invariant.  The properties alone are not inductive: one   *)
(* has to know that an undecided tracker has no final decision, no element *)
(* in its channel and a source still to answer, and that only the timer    *)
(* makes timeout decisions.                                                *)
(***************************************************************************)
Undecided ==
  ~done => /\ finalDecision = NoDecision
           /\ completeChan = NoDecision
           /\ responded # Expected \/ Expected = {}

Decided == done => finalDecision \in Decision

OnlyTimersTimeOut ==
  /\ \A r \in Responders : made[r] # NoDecision => ~made[r].isTimeout
  /\ \A d \in Accepted : ~d.isTimeout

UnansweredWait ==
  \A w \in Waiters : waiting[w] # "returned" => result[w] = NoDecision

IInv ==
  /\ TypeOK
  /\ Undecided
  /\ Decided
  /\ OnlyTimersTimeOut
  /\ UnansweredWait
  /\ InterceptPriority
  /\ TimeoutOnlyForSilence
  /\ WaitersAgree
  /\ ChannelHoldsFinal
  /\ FinalIsEarliest

LEMMA InitIInv == Init => IInv
<1> SUFFICES ASSUME Init PROVE IInv
  OBVIOUS
<1> USE DEF Init
<1>1. TypeOK
  <2>1. decisions \in Seq(Decision)
    BY EmptySeq
  <2>2. QED
    BY <2>1 DEF TypeOK
<1>2. Accepted = {}
  BY DEF Accepted, ToSet
<1>3. Undecided /\ Decided /\ UnansweredWait /\ WaitersAgree /\ ChannelHoldsFinal
  BY DEF Undecided, Decided, UnansweredWait, WaitersAgree, ChannelHoldsFinal
<1>4. OnlyTimersTimeOut /\ InterceptPriority
  BY <1>2 DEF OnlyTimersTimeOut, InterceptPriority, InterceptsOf
<1>5. TimeoutOnlyForSilence /\ FinalIsEarliest
  BY DEF TimeoutOnlyForSilence, FinalIsEarliest
<1>6. QED
  BY <1>1, <1>3, <1>4, <1>5 DEF IInv

(***************************************************************************)
(* Creating a decision touches only the responder.                         *)
(***************************************************************************)
LEMMA CreateIInv ==
  ASSUME IInv, NEW r \in Responders, Create(r)
  PROVE  IInv'
<1> USE DEF IInv, Create, trackerVars, waiterVars
<1>1. PICK src \in Sources, act \in ActionType :
        made' = [made EXCEPT ![r] = NewDecision(r, src, act, clock)]
  OBVIOUS
<1>2. /\ NewDecision(r, src, act, clock) \in Decision
      /\ ~NewDecision(r, src, act, clock).isTimeout
  BY DEF NewDecision, Decision, TypeOK
<1>3. TypeOK'
  BY <1>1, <1>2 DEF TypeOK
<1>4. Accepted' = Accepted
  BY DEF Accepted
<1>5. OnlyTimersTimeOut'
  BY <1>1, <1>2, <1>4 DEF OnlyTimersTimeOut, TypeOK
<1>6. Undecided' /\ Decided' /\ UnansweredWait' /\ WaitersAgree' /\ ChannelHoldsFinal'
  BY DEF Undecided, Decided, UnansweredWait, WaitersAgree, ChannelHoldsFinal
<1>7. InterceptPriority' /\ TimeoutOnlyForSilence' /\ FinalIsEarliest'
  BY <1>4 DEF InterceptPriority, TimeoutOnlyForSilence, FinalIsEarliest
<1>8. QED
  BY <1>3, <1>5, <1>6, <1>7

(***************************************************************************)
(* An accepted decision either leaves the tracker undecided or completes   *)
(* it by the rules; a refused one changes nothing of the tracker.          *)
(***************************************************************************)
LEMMA AddDecisionIInv ==
  ASSUME IInv, NEW r \in Responders, AddDecision(r)
  PROVE  IInv'
<1> DEFINE d == made[r]
<1> USE DEF IInv, AddDecision, waiterVars
<1>1. CASE ~Accepts(d)
  <2> USE <1>1 DEF trackerVars
  <2>1. TypeOK'
    BY DEF TypeOK
  <2>2. Accepted' = Accepted
    BY DEF Accepted
  <2>3. Undecided' /\ Decided' /\ UnansweredWait' /\ WaitersAgree' /\ ChannelHoldsFinal'
    BY DEF Undecided, Decided, UnansweredWait, WaitersAgree, ChannelHoldsFinal
  <2>4. QED
    BY <2>1, <2>2, <2>3
       DEF OnlyTimersTimeOut, InterceptPriority, TimeoutOnlyForSilence, FinalIsEarliest
<1>2. CASE Accepts(d)
  <2>1. /\ d \in Decision /\ ~d.isTimeout
        /\ ~done /\ d.source \in Expected
        /\ responded' = responded \cup {d.source}
        /\ decisions' = Append(decisions, d)
        /\ UNCHANGED <<clock, made, waiting, result>>
    BY <1>2 DEF Accepts, TypeOK, OnlyTimersTimeOut
  <2>2. decisions' \in Seq(Decision)
    BY <2>1 DEF TypeOK
  <2>3. Accepted' = Accepted \cup {d}
    BY <2>1, ToSetAppend DEF Accepted, TypeOK
  <2>4. InterceptsOf(Accepted) = {}
    BY <2>1 DEF InterceptPriority
  <2>5. OnlyTimersTimeOut'
    BY <2>1, <2>3 DEF OnlyTimersTimeOut
  <2>6. \A w \in Waiters : waiting[w] # "returned"
    BY <2>1 DEF WaitersAgree
  <2>7. UnansweredWait' /\ WaitersAgree'
    BY <2>1, <2>6 DEF UnansweredWait, WaitersAgree
  <2>8. CASE EndsTracking(d)
    <3>1. PICK f \in ApplyDecisionRules(decisions') : Complete(f)
      BY <1>2, <2>8
    <3>2. /\ f \in Accepted' /\ f \in Decision
          /\ InterceptsOf(Accepted') # {} => f.action = Intercept
          /\ \A e \in Accepted' :
               e.action = f.action \/ f.action # Intercept => f.ts <= e.ts
      BY <2>2, <2>3, <3>1, RulesSound DEF Accepted
    <3>3. done' /\ finalDecision' = f /\ completeChan' = f
      BY <2>1, <3>1 DEF Complete, Undecided
    <3>4. TypeOK'
      BY <1>2, <2>1, <2>2, <3>2, <3>3 DEF TypeOK
    <3>5. ~f.isTimeout
      BY <2>5, <3>2 DEF OnlyTimersTimeOut
    <3>6. Undecided' /\ Decided' /\ ChannelHoldsFinal'
      BY <3>2, <3>3 DEF Undecided, Decided, ChannelHoldsFinal
    <3>7. InterceptPriority' /\ TimeoutOnlyForSilence' /\ FinalIsEarliest'
      BY <3>2, <3>3, <3>5
         DEF InterceptPriority, TimeoutOnlyForSilence, FinalIsEarliest
    <3>8. QED
      BY <2>5, <2>7, <3>4, <3>6, <3>7
  <2>9. CASE ~EndsTracking(d)
    <3>1. UNCHANGED <<done, finalDecision, completeChan>>
      BY <1>2, <2>9
    <3>2. d.action # Intercept /\ responded' # Expected
      BY <2>1, <2>9 DEF EndsTracking
    <3>3. TypeOK'
      BY <1>2, <2>1, <2>2, <3>1 DEF TypeOK
    <3>4. Undecided' /\ Decided' /\ ChannelHoldsFinal'
      BY <2>1, <3>1, <3>2 DEF Undecided, Decided, ChannelHoldsFinal
    <3>5. InterceptPriority'
      BY <2>3, <2>4, <3>2 DEF InterceptPriority, InterceptsOf
    <3>6. TimeoutOnlyForSilence' /\ FinalIsEarliest'
      BY <2>1, <3>1 DEF TimeoutOnlyForSilence, FinalIsEarliest
    <3>7. QED
      BY <2>5, <2>7, <3>3, <3>4, <3>5, <3>6
  <2>10. QED
    BY <2>8, <2>9
<1>3. QED
  BY <1>1, <1>2

(***************************************************************************)
(* The steps of the waiters.  The last one decides if nobody has.          *)
(***************************************************************************)
LEMMA WaiterIInv ==
  ASSUME IInv, NEW w \in Waiters,
         Wait(w) \/ Receive(w) \/ TimerFires(w) \/ Expire(w)
  PROVE  IInv'
<1> USE DEF IInv, responderVars, trackerVars
<1>1. Accepted' = Accepted
  BY DEF Accepted, Wait, Receive, TimerFires, Expire
<1>2. UNCHANGED <<made, clock, handedIn, responded, decisions>>
  BY DEF Wait, Receive, TimerFires, Expire
<1>3. OnlyTimersTimeOut'
  BY <1>1, <1>2 DEF OnlyTimersTimeOut
<1>4. CASE Wait(w) \/ TimerFires(w)
  <2> USE <1>4 DEF Wait, TimerFires
  <2>1. TypeOK'
    BY <1>2 DEF TypeOK
  <2>2. UnansweredWait' /\ WaitersAgree'
    BY DEF UnansweredWait, WaitersAgree, TypeOK
  <2>3. Undecided' /\ Decided' /\ ChannelHoldsFinal'
    BY DEF Undecided, Decided, ChannelHoldsFinal
  <2>4. InterceptPriority' /\ TimeoutOnlyForSilence' /\ FinalIsEarliest'
    BY <1>1 DEF InterceptPriority, TimeoutOnlyForSilence, FinalIsEarliest
  <2>5. QED
    BY <1>3, <2>1, <2>2, <2>3, <2>4
<1>5. CASE Receive(w)
  <2> USE <1>5 DEF Receive
  <2>1. done /\ completeChan = finalDecision
    BY DEF ChannelHoldsFinal
  <2>2. TypeOK'
    BY <1>2 DEF TypeOK
  <2>3. UnansweredWait' /\ WaitersAgree'
    BY <2>1 DEF UnansweredWait, WaitersAgree, TypeOK
  <2>4. Undecided' /\ Decided' /\ ChannelHoldsFinal'
    BY <2>1 DEF Undecided, Decided, ChannelHoldsFinal
  <2>5. InterceptPriority' /\ TimeoutOnlyForSilence' /\ FinalIsEarliest'
    BY <1>1 DEF InterceptPriority, TimeoutOnlyForSilence, FinalIsEarliest
  <2>6. QED
    BY <1>3, <2>2, <2>3, <2>4, <2>5
<1>6. CASE Expire(w)
  <2> DEFINE t == NewTimeoutDecision(clock)
  <2>1. waiting' = [waiting EXCEPT ![w] = "returned"]
        /\ result' = [result EXCEPT ![w] = finalDecision']
    BY <1>6 DEF Expire
  <2>2. CASE done
    <3>1. UNCHANGED <<done, finalDecision, completeChan>>
      BY <1>6, <2>2 DEF Expire
    <3>2. TypeOK'
      BY <1>2, <2>1, <3>1 DEF TypeOK
    <3>3. UnansweredWait' /\ WaitersAgree'
      BY <2>1, <2>2, <3>1 DEF UnansweredWait, WaitersAgree, TypeOK
    <3>4. Undecided' /\ Decided' /\ ChannelHoldsFinal'
      BY <1>2, <3>1 DEF Undecided, Decided, ChannelHoldsFinal
    <3>5. InterceptPriority' /\ TimeoutOnlyForSilence' /\ FinalIsEarliest'
      BY <1>1, <1>2, <3>1 DEF InterceptPriority, TimeoutOnlyForSilence, FinalIsEarliest
    <3>6. QED
      BY <1>3, <3>2, <3>3, <3>4, <3>5
  <2>3. CASE ~done
    <3>1. done' /\ finalDecision' = t /\ completeChan' = t
      BY <1>6, <2>3 DEF Expire, Complete, Undecided
    <3>2. t \in Decision /\ t.isTimeout
      BY DEF NewTimeoutDecision, Decision, ActionType, TypeOK
    <3>3. TypeOK'
      BY <1>2, <2>1, <3>1, <3>2 DEF TypeOK
    <3>4. UnansweredWait' /\ WaitersAgree'
      BY <2>1, <2>3, <3>1 DEF UnansweredWait, WaitersAgree, TypeOK
    <3>5. Undecided' /\ Decided' /\ ChannelHoldsFinal'
      BY <3>1, <3>2 DEF Undecided, Decided, ChannelHoldsFinal
    <3>6. InterceptsOf(Accepted) = {}
      BY <2>3 DEF InterceptPriority
    <3>7. InterceptPriority' /\ TimeoutOnlyForSilence' /\ FinalIsEarliest'
      BY <1>1, <1>2, <2>3, <3>1, <3>2, <3>6
         DEF InterceptPriority, TimeoutOnlyForSilence, FinalIsEarliest, Undecided
    <3>8. QED
      BY <1>3, <3>3, <3>4, <3>5, <3>7
  <2>4. QED
    BY <2>2, <2>3
<1>7. QED
  BY <1>4, <1>5, <1>6

LEMMA NextIInv == IInv /\ [Next]_vars => IInv'
<1> SUFFICES ASSUME IInv, [Next]_vars PROVE IInv'
  OBVIOUS
<1>1. ASSUME NEW r \in Responders, Create(r) PROVE IInv'
  BY <1>1, CreateIInv
<1>2. ASSUME NEW r \in Responders, AddDecision(r) PROVE IInv'
  BY <1>2, AddDecisionIInv
<1>3. ASSUME NEW w \in Waiters,
             Wait(w) \/ Receive(w) \/ TimerFires(w) \/ Expire(w)
      PROVE IInv'
  BY <1>3, WaiterIInv
<1>4. CASE UNCHANGED vars
  <2>1. Accepted' = Accepted
    BY <1>4 DEF Accepted, vars, trackerVars
  <2>2. QED
    BY <1>4, <2>1
       DEF IInv, vars, trackerVars, responderVars, waiterVars, TypeOK, Undecided,
           Decided, OnlyTimersTimeOut, UnansweredWait, InterceptPriority,
           TimeoutOnlyForSilence, WaitersAgree, ChannelHoldsFinal, FinalIsEarliest
<1>5. QED
  BY <1>1, <1>2, <1>3, <1>4 DEF Next

(***************************************************************************)
(* The inductive invariant holds in every reachable state.                 *)
(***************************************************************************)
THEOREM Invariance == Spec => []IInv
BY InitIInv, NextIInv, PTL DEF Spec

(***************************************************************************)
(* Type correctness of the tracker (all fields of ResponseTracker).        *)
(***************************************************************************)
THEOREM TypeCorrect == Spec => []TypeOK
BY Invariance, PTL DEF IInv

(***************************************************************************)
(* Interception has priority: an accepted interception decides the message *)
(* and the final decision intercepts, for any number of sources,           *)
(* responders and waiters.                                                 *)
(***************************************************************************)
THEOREM InterceptionWins == Spec => []InterceptPriority
BY Invariance, PTL DEF IInv

(***************************************************************************)
(* A timeout lets a message through only while a source is silent and no   *)
(* interception was accepted.                                              *)
(***************************************************************************)
THEOREM TimeoutIsLastResort == Spec => []TimeoutOnlyForSilence
BY Invariance, PTL DEF IInv

(***************************************************************************)
(* Every goroutine that returns from WaitForCompletion returns the final   *)
(* decision.                                                               *)
(***************************************************************************)
THEOREM Agreement == Spec => []WaitersAgree
BY Invariance, PTL DEF IInv

(***************************************************************************)
(* complete never finds the channel full (the branch tracker.go calls      *)
(* impossible is).                                                         *)
(***************************************************************************)
THEOREM ChannelNeverFull == Spec => []ChannelHoldsFinal
BY Invariance, PTL DEF IInv

(***************************************************************************)
(* A final decision not made by a timer is an accepted one with the        *)
(* earliest timestamp of those that compete, which are all of them where   *)
(* none intercepts, unknown ones too (rules.go 45, 64; its comments        *)
(* promise the first received of those that allow, see FirstReceivedWins). *)
(***************************************************************************)
THEOREM EarliestChosen == Spec => []FinalIsEarliest
BY Invariance, PTL DEF IInv

-----------------------------------------------------------------------------
(***************************************************************************)
(* Refinement: the initial states map to initial states of DecisionOnce,   *)
(* and every step to one of its steps or to a stutter.                     *)
(***************************************************************************)
LEMMA InitRefines == Init => Abstract!Init
BY DEF Init, Abstract!Init

LEMMA NextRefines ==
  IInv /\ IInv' /\ [Next]_vars => [Abstract!Next]_Abstract!vars
<1> SUFFICES ASSUME IInv, IInv', [Next]_vars
             PROVE  [Abstract!Next]_Abstract!vars
  OBVIOUS
<1> USE NoDecisionAssumption DEF IInv, Abstract!vars, Abstract!Next
<1>1. ASSUME NEW r \in Responders, Create(r)
      PROVE  [Abstract!Next]_Abstract!vars
  BY <1>1 DEF Create, trackerVars, waiterVars
<1>2. ASSUME NEW r \in Responders, AddDecision(r)
      PROVE  [Abstract!Next]_Abstract!vars
  <2>1. UNCHANGED result
    BY <1>2 DEF AddDecision, waiterVars
  <2>2. CASE finalDecision' = finalDecision
    BY <2>1, <2>2
  <2>3. CASE finalDecision' # finalDecision
    <3>1. ~done
      BY <1>2, <2>3 DEF AddDecision, Accepts, trackerVars
    <3>2. finalDecision' \in Decision
      BY <2>3, <3>1 DEF Decided, Undecided
    <3>3. finalDecision = NoDecision
      BY <3>1 DEF Undecided
    <3>4. QED
      BY <2>1, <3>2, <3>3 DEF Abstract!Decide
  <2>4. QED
    BY <2>2, <2>3
<1>3. ASSUME NEW w \in Waiters, Wait(w) \/ TimerFires(w)
      PROVE  [Abstract!Next]_Abstract!vars
  BY <1>3 DEF Wait, TimerFires, trackerVars
<1>4. ASSUME NEW w \in Waiters, Receive(w)
      PROVE  [Abstract!Next]_Abstract!vars
  <2>1. completeChan = finalDecision /\ finalDecision # NoDecision
    BY <1>4 DEF Receive, ChannelHoldsFinal
  <2>2. result[w] = NoDecision
    BY <1>4 DEF Receive, UnansweredWait
  <2>3. Abstract!Read(w)
    BY <1>4, <2>1, <2>2 DEF Receive, Abstract!Read
  <2>4. QED
    BY <2>3
<1>5. ASSUME NEW w \in Waiters, Expire(w)
      PROVE  [Abstract!Next]_Abstract!vars
  <2>1. result[w] = NoDecision /\ result' = [result EXCEPT ![w] = finalDecision']
    BY <1>5 DEF Expire, UnansweredWait
  <2>2. CASE done
    <3>1. finalDecision' = finalDecision /\ finalDecision # NoDecision
      BY <1>5, <2>2 DEF Expire, Decided
    <3>2. Abstract!Read(w)
      BY <2>1, <3>1 DEF Abstract!Read
    <3>3. QED
      BY <3>2
  <2>3. CASE ~done
    <3>1. finalDecision = NoDecision
      BY <2>3 DEF Undecided
    <3>2. finalDecision' \in Decision
      BY <1>5, <2>3 DEF Expire, Complete, Decided
    <3>3. Abstract!DecideAndRead(w)
      BY <2>1, <3>1, <3>2 DEF Abstract!DecideAndRead
    <3>4. QED
      BY <3>3
  <2>4. QED
    BY <2>2, <2>3
<1>6. CASE UNCHANGED vars
  BY <1>6 DEF vars, trackerVars, waiterVars
<1>7. QED
  BY <1>1, <1>2, <1>3, <1>4, <1>5, <1>6 DEF Next

(***************************************************************************)
(* The tracker implements DecisionOnce: whatever the interleaving, the     *)
(* message is decided at most once and every waiter learns that decision.  *)
(***************************************************************************)
THEOREM Refinement == Spec => ImplementsDecisionOnce
BY InitRefines, NextRefines, Invariance, PTL
   DEF Spec, ImplementsDecisionOnce, Abstract!Spec
-----------------------------------------------------------------------------
(***************************************************************************)
(* The second refinement, to TrackedMessage: the list of decisions becomes *)
(* the set of their actions, the decision kept becomes its action.         *)
(***************************************************************************)
LEMMA InitGist == Init => Gist!Init
<1> SUFFICES ASSUME Init PROVE Gist!Init
  OBVIOUS
<1>1. Accepted = {}
  BY DEF Init, Accepted, ToSet
<1>2. {d.action : d \in Accepted} = {}
  BY <1>1
<1> QED
  BY <1>2, ExpectedAssumption DEF Init, Gist!Init

\* A decision that is accepted is an answer of its source.
LEMMA AddIsRespond ==
  ASSUME IInv, IInv', NEW r \in Responders, AddDecision(r), Accepts(made[r])
  PROVE  Gist!Respond(made[r].source, made[r].action)
<1>d. PICK d : d = made[r]
  OBVIOUS
<1>1. /\ d \in Decision /\ ~d.isTimeout
      /\ ~done /\ d.source \in Expected
      /\ responded' = responded \cup {d.source}
      /\ decisions' = Append(decisions, d)
      /\ IF EndsTracking(d)
           THEN \E f \in ApplyDecisionRules(decisions') : Complete(f)
           ELSE UNCHANGED <<done, finalDecision, completeChan>>
  BY <1>d DEF AddDecision, Accepts, IInv, TypeOK, OnlyTimersTimeOut
<1>2. Accepted' = Accepted \cup {d} /\ decisions' \in Seq(Decision)
  BY <1>1, ToSetAppend DEF Accepted, IInv, TypeOK
<1>3. {e.action : e \in Accepted'} = {e.action : e \in Accepted} \cup {d.action}
  BY <1>2
<1>4. InterceptsOf(Accepted) = {} /\ completeChan = NoDecision
  BY <1>1 DEF IInv, InterceptPriority, Undecided
<1>5. CASE EndsTracking(d)
  <2>1. PICK f \in ApplyDecisionRules(decisions') : Complete(f)
    BY <1>1, <1>5
  <2>2. /\ f \in Accepted' /\ f \in Decision
        /\ InterceptsOf(Accepted') # {} => f.action = Intercept
    BY <1>2, <2>1, RulesSound DEF Accepted
  <2>3. done' /\ finalDecision' = f /\ completeChan' = f /\ f # NoDecision
    BY <1>4, <2>1, <2>2, NoDecisionAssumption DEF Complete
  <2>4. ~f.isTimeout
    BY <2>2 DEF IInv, OnlyTimersTimeOut
  <2>5. f.action \in {e.action : e \in Accepted'}
    BY <2>2
  <2>6. "INTERCEPT" \in {e.action : e \in Accepted'} => f.action = "INTERCEPT"
    BY <2>2 DEF InterceptsOf, Intercept
  <2>7. responded' = Expected \/ d.action = "INTERCEPT"
    BY <1>1, <1>5 DEF EndsTracking, Intercept
  <2> QED
    BY <1>d, <1>1, <1>3, <1>4, <2>3, <2>4, <2>5, <2>6, <2>7 DEF Gist!Respond
<1>6. CASE ~EndsTracking(d)
  <2>1. UNCHANGED <<done, finalDecision, completeChan>>
    BY <1>1, <1>6
  <2>2. responded' # Expected /\ d.action # "INTERCEPT"
    BY <1>1, <1>6 DEF EndsTracking, Intercept
  <2> QED
    BY <1>d, <1>1, <1>3, <2>1, <2>2 DEF Gist!Respond
<1> QED
  BY <1>5, <1>6

LEMMA NextGist ==
  IInv /\ IInv' /\ [Next]_vars => [Gist!Next]_(Gist!vars)
<1> SUFFICES ASSUME IInv, IInv', [Next]_vars
             PROVE  [Gist!Next]_(Gist!vars)
  OBVIOUS
<1>1. CASE UNCHANGED trackerVars
  <2>1. Accepted' = Accepted
    BY <1>1 DEF trackerVars, Accepted
  <2> QED
    BY <1>1, <2>1 DEF trackerVars, Gist!vars
<1>2. ASSUME NEW r \in Responders, Create(r)
      PROVE  [Gist!Next]_(Gist!vars)
  BY <1>1, <1>2 DEF Create
<1>3. ASSUME NEW r \in Responders, AddDecision(r)
      PROVE  [Gist!Next]_(Gist!vars)
  <2>1. CASE Accepts(made[r])
    <3>1. made[r].source \in Sources /\ made[r].action \in ActionType
      BY <1>3, <2>1, ExpectedAssumption DEF AddDecision, Accepts, IInv, TypeOK, Decision
    <3>2. Gist!Respond(made[r].source, made[r].action)
      BY <1>3, <2>1, AddIsRespond
    <3>3. PICK src \in Sources, act \in ActionType :
            src = made[r].source /\ act = made[r].action
      BY <3>1
    <3>4. Gist!Respond(src, act)
      BY <3>2, <3>3 DEF Gist!Respond
    <3> QED
      BY <3>4 DEF Gist!Next
  <2>2. CASE ~Accepts(made[r])
    BY <1>1, <1>3, <2>2 DEF AddDecision
  <2> QED
    BY <2>1, <2>2
<1>4. ASSUME NEW w \in Waiters, Wait(w) \/ TimerFires(w)
      PROVE  [Gist!Next]_(Gist!vars)
  BY <1>1, <1>4 DEF Wait, TimerFires
<1>5. ASSUME NEW w \in Waiters, Receive(w)
      PROVE  [Gist!Next]_(Gist!vars)
  <2>1. /\ completeChan # NoDecision /\ completeChan' = NoDecision
        /\ UNCHANGED <<responded, decisions, done, finalDecision>>
    BY <1>5 DEF Receive
  <2>2. Accepted' = Accepted
    BY <2>1 DEF Accepted
  <2>3. Gist!Take
    BY <2>1, <2>2 DEF Gist!Take
  <2> QED
    BY <2>3 DEF Gist!Next
<1>6. ASSUME NEW w \in Waiters, Expire(w)
      PROVE  [Gist!Next]_(Gist!vars)
  <2>1. UNCHANGED <<responded, decisions>> /\ Accepted' = Accepted
    BY <1>6 DEF Expire, Accepted
  <2>2. CASE done
    <3>1. UNCHANGED trackerVars
      BY <1>6, <2>1, <2>2 DEF Expire, trackerVars
    <3> QED
      BY <1>1, <3>1
  <2>3. CASE ~done
    <3>t. PICK t : t = NewTimeoutDecision(clock)
      OBVIOUS
    <3>1. t \in Decision /\ t.isTimeout /\ t.action = "ALLOW"
      BY <3>t DEF NewTimeoutDecision, Decision, ActionType, Allow, IInv, TypeOK
    <3>2. done' /\ finalDecision' = t /\ completeChan' = t /\ t # NoDecision
      BY <1>6, <2>3, <3>t, <3>1, NoDecisionAssumption DEF Expire, Complete, IInv, Undecided
    <3>3. Gist!Expire
      BY <2>1, <2>3, <3>1, <3>2 DEF Gist!Expire
    <3> QED
      BY <3>3 DEF Gist!Next
  <2> QED
    BY <2>2, <2>3
<1>7. CASE UNCHANGED vars
  BY <1>1, <1>7 DEF vars
<1> QED
  BY <1>2, <1>3, <1>4, <1>5, <1>6, <1>7 DEF Next

(***************************************************************************)
(* The tracker implements TrackedMessage (AddDecision, complete and        *)
(* WaitForCompletion, tracker.go lines 41-113, with rules.go): what        *)
(* ResponseProcessor keeps of a tracker is all that there is to know.      *)
(***************************************************************************)
THEOREM TrackedRefinement == Spec => ImplementsTrackedMessage
BY InitGist, NextGist, Invariance, PTL
   DEF Spec, ImplementsTrackedMessage, Gist!Spec
=============================================================================
