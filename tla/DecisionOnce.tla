---------------------------- MODULE DecisionOnce ----------------------------
(***************************************************************************)
(* What a response tracker promises to the code that waits on it: the      *)
(* message gets at most one final decision, it never changes, and whoever  *)
(* is answered is answered with it.                                        *)
(***************************************************************************)
CONSTANTS Value,    \* the possible final decisions
          Readers,  \* those who may be answered
          None      \* no decision, no answer

VARIABLES decided,  \* the final decision, or None
          answer    \* what each reader was answered, or None

vars == <<decided, answer>>

Init ==
  /\ decided = None
  /\ answer = [r \in Readers |-> None]

(***************************************************************************)
(* A decision is reached.                                                  *)
(***************************************************************************)
Decide ==
  /\ decided = None
  /\ decided' \in Value
  /\ UNCHANGED answer

(***************************************************************************)
(* A reader is answered with the decision.                                 *)
(***************************************************************************)
Read(r) ==
  /\ decided # None
  /\ answer[r] = None
  /\ answer' = [answer EXCEPT ![r] = decided]
  /\ UNCHANGED decided

(***************************************************************************)
(* A reader out of patience decides and is answered in one step.           *)
(***************************************************************************)
DecideAndRead(r) ==
  /\ decided = None
  /\ answer[r] = None
  /\ decided' \in Value
  /\ answer' = [answer EXCEPT ![r] = decided']

Next == Decide \/ \E r \in Readers : Read(r) \/ DecideAndRead(r)

Spec == Init /\ [][Next]_vars
=============================================================================
