--------------------------- MODULE TrackedMessage ---------------------------
(***************************************************************************)
(* What a response tracker is to those who only keep and ask it: who is    *)
(* expected to answer and who has, which actions the answers ask for, the  *)
(* final action, and whether the channel has an element.  Decisions, their *)
(* order and their timestamps are abstracted away: the final action is any *)
(* that the rules leave possible.                                          *)
(***************************************************************************)
CONSTANTS Source,  \* who may be expected to answer
          Action   \* what an answer may ask for

VARIABLES expected,   \* the sources that are to answer
          responded,  \* those that have
          actions,    \* what they asked for
          final,      \* the final action, or "none" while there is no decision
          byTimeout,  \* a timer made the decision
          element     \* the channel holds the decision

vars == <<expected, responded, actions, final, byTimeout, element>>

Init ==
  /\ expected \in SUBSET Source
  /\ responded = {} /\ actions = {}
  /\ final = "none"
  /\ byTimeout = FALSE /\ element = FALSE

(***************************************************************************)
(* The message is sent to some sources.                                    *)
(***************************************************************************)
Track ==
  /\ expected = {} /\ final = "none"
  /\ expected' \in SUBSET Source
  /\ UNCHANGED <<responded, actions, final, byTimeout, element>>

(***************************************************************************)
(* An expected source answers an undecided message.  The last of them, or  *)
(* one that intercepts, decides it: an interception wins.                  *)
(***************************************************************************)
Respond(src, act) ==
  /\ final = "none" /\ src \in expected
  /\ responded' = responded \cup {src}
  /\ actions' = actions \cup {act}
  /\ IF responded' = expected \/ act = "INTERCEPT"
       THEN /\ final' \in (IF "INTERCEPT" \in actions' THEN {"INTERCEPT"} ELSE actions')
            /\ element' = TRUE
       ELSE UNCHANGED <<final, element>>
  /\ UNCHANGED <<expected, byTimeout>>

(***************************************************************************)
(* A timer decides a message nobody has decided.                           *)
(***************************************************************************)
Expire ==
  /\ final = "none"
  /\ final' = "ALLOW" /\ byTimeout' = TRUE /\ element' = TRUE
  /\ UNCHANGED <<expected, responded, actions>>

(***************************************************************************)
(* One waiter takes the element of the channel.                            *)
(***************************************************************************)
Take ==
  /\ element
  /\ element' = FALSE
  /\ UNCHANGED <<expected, responded, actions, final, byTimeout>>

Next == Track \/ Expire \/ Take \/ \E src \in Source, act \in Action : Respond(src, act)

Spec == Init /\ [][Next]_vars
=============================================================================
