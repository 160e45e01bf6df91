----------------------------- MODULE Membership -----------------------------
(***************************************************************************)
(* What a server of sessions promises, whoever ends them: peers are        *)
(* admitted up to a limit; one that was admitted may become a member, and  *)
(* one that has left does not come back; a message goes to those who were  *)
(* members when it came and are when their turn comes, to each at most     *)
(* once and never after it has gone; and a server that has shut has nobody *)
(* in it and admits nobody.                                                *)
(***************************************************************************)
EXTENDS Naturals, FiniteSets

CONSTANTS Peers, Nobody,
          Limit      \* how many may be in at once, 0 for no limit

VARIABLES
  place,      \* peer -> "outside", "admitted", "member", "left", "gone"
  audience,   \* those the current message has still to be offered to
  chosen,     \* whose turn it is, or Nobody
  reached,    \* those who have got it
  shut

vars == <<place, audience, chosen, reached, shut>>

Init ==
  /\ place = [p \in Peers |-> "outside"]
  /\ audience = {} /\ chosen = Nobody /\ reached = {}
  /\ shut = FALSE

Inside == {p \in Peers : place[p] \in {"admitted", "member", "left"}}

Moves(p, from, to) ==
  /\ place[p] \in from
  /\ place' = [place EXCEPT ![p] = to]
  /\ UNCHANGED <<audience, reached, shut>>

Admit(p) ==
  /\ ~shut
  /\ Limit > 0 => Cardinality(Inside) < Limit
  /\ Moves(p, {"outside"}, "admitted")
  /\ UNCHANGED chosen

Join(p) == Moves(p, {"admitted"}, "member") /\ UNCHANGED chosen

\* A member leaves, or is made to; or one that was admitted is refused.
Leave(p) == Moves(p, {"admitted", "member"}, "left") /\ UNCHANGED chosen

Go(p) ==
  /\ Moves(p, {"left"}, "gone")
  /\ chosen' = IF chosen = p THEN Nobody ELSE chosen

(***************************************************************************)
(* A message comes once the last one is done with.                         *)
(***************************************************************************)
Announce ==
  /\ audience = {} /\ chosen = Nobody
  /\ audience' = {p \in Peers : place[p] = "member"}
  /\ reached' = {}
  /\ UNCHANGED <<place, chosen, shut>>

(***************************************************************************)
(* One of its audience has its turn, if it is still a member, or is passed *)
(* over.                                                                   *)
(***************************************************************************)
Turn(p) ==
  /\ p \in audience /\ chosen = Nobody
  /\ audience' = audience \ {p}
  /\ UNCHANGED chosen \/ (place[p] = "member" /\ chosen' = p)
  /\ UNCHANGED <<place, reached, shut>>

(***************************************************************************)
(* It gets the message, or does not.                                       *)
(***************************************************************************)
Give ==
  /\ chosen # Nobody
  /\ chosen' = Nobody
  /\ reached' \in {reached, reached \cup {chosen}}
  /\ UNCHANGED <<place, audience, shut>>

Shut ==
  /\ ~shut /\ shut' = TRUE
  /\ Inside = {}
  /\ UNCHANGED <<place, audience, chosen, reached>>

Next ==
  \/ \E p \in Peers : Admit(p) \/ Join(p) \/ Leave(p) \/ Go(p) \/ Turn(p)
  \/ Announce \/ Give \/ Shut

Spec == Init /\ [][Next]_vars
=============================================================================
