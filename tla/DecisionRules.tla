--------------------------- MODULE DecisionRules ---------------------------
(***************************************************************************)
(* The decision records of internal/processor/decision.go and the rules of *)
(* internal/processor/rules.go that turn the decisions collected for one   *)
(* message into the one that is sent back.                                 *)
(*                                                                         *)
(* A decision keeps what the rules tell apart: which call made it (the     *)
(* identity of the *Decision pointer), its source, its action, the         *)
(* timestamp NewDecision took, and whether a timeout made it.              *)
(***************************************************************************)
EXTENDS Naturals, Sequences, SequencesExt

CONSTANTS Responders,  \* the calls that hand a decision in
          Sources,     \* source ids such calls may carry
          NoDecision   \* the nil *Decision

(***************************************************************************)
(* "system" (DecisionSource.ID of the decisions the processor makes).      *)
(***************************************************************************)
System == "system"

Allow     == "ALLOW"
Intercept == "INTERCEPT"
Unknown   == "UNKNOWN"

ActionType == {Allow, Intercept, Unknown}

Decision == [id        : Responders \cup {System},
             source    : Sources \cup {System},
             action    : ActionType,
             ts        : Nat,
             isTimeout : BOOLEAN]

ASSUME NoDecisionAssumption == NoDecision \notin Decision

NewDecision(r, src, act, now) ==
  [id |-> r, source |-> src, action |-> act, ts |-> now, isTimeout |-> FALSE]

NewTimeoutDecision(now) ==
  [id |-> System, source |-> System, action |-> Allow, ts |-> now,
   isTimeout |-> TRUE]

(***************************************************************************)
(* The default of ApplyDecisionRules for an empty list; its timestamp is   *)
(* Go's zero time.                                                         *)
(***************************************************************************)
DefaultAllow ==
  [id |-> System, source |-> System, action |-> Allow, ts |-> 0,
   isTimeout |-> FALSE]

(***************************************************************************)
(* sort.Slice by timestamp and the head of the result.  sort.Slice is not  *)
(* stable, so among equal timestamps any one may come first.               *)
(***************************************************************************)
FindEarliestDecision(S) == {d \in S : \A e \in S : d.ts <= e.ts}

InterceptsOf(S) == {d \in S : d.action = Intercept}

(***************************************************************************)
(* The decisions ApplyDecisionRules may return for the list ds.            *)
(***************************************************************************)
ApplyDecisionRules(ds) ==
  LET S == ToSet(ds) IN
    IF S = {} THEN {DefaultAllow}
    ELSE IF InterceptsOf(S) # {} THEN FindEarliestDecision(InterceptsOf(S))
    ELSE FindEarliestDecision(S)
=============================================================================
