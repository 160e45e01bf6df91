------------------------------ MODULE HandOut ------------------------------
(***************************************************************************)
(* What a dispatcher promises to those whose messages it accepts: they     *)
(* wait in the order of their acceptance, each is handed to one worker,    *)
(* once, which calls handlers for it once and only then lets go of it.     *)
(* How fast, in which order the workers finish, and how the pool of        *)
(* workers is started and stopped is left open.                            *)
(***************************************************************************)
EXTENDS Naturals, Sequences

CONSTANTS Messages, Workers, Handlers,
          Capacity,   \* how many messages may wait
          Nobody      \* no message

VARIABLES
  waiting,   \* the accepted messages that wait, oldest first
  hand,      \* worker -> the message in its hands, or Nobody
  started,   \* the messages whose handlers have been called
  called,    \* message -> the handlers called for it
  finished   \* the messages their worker has let go of

vars == <<waiting, hand, started, called, finished>>

Init ==
  /\ waiting = <<>>
  /\ hand = [w \in Workers |-> Nobody]
  /\ started = {} /\ finished = {}
  /\ called = [m \in Messages |-> {}]

(***************************************************************************)
(* A message is accepted, unless it was before or the queue is full.       *)
(***************************************************************************)
Accept(m) ==
  /\ Len(waiting) < Capacity
  /\ \A i \in DOMAIN waiting : waiting[i] # m
  /\ \A w \in Workers : hand[w] # m
  /\ m \notin finished
  /\ waiting' = Append(waiting, m)
  /\ UNCHANGED <<hand, started, called, finished>>

(***************************************************************************)
(* A worker with empty hands takes the message that has waited longest.    *)
(***************************************************************************)
Take(w) ==
  /\ waiting # <<>> /\ hand[w] = Nobody
  /\ hand' = [hand EXCEPT ![w] = Head(waiting)]
  /\ waiting' = Tail(waiting)
  /\ UNCHANGED <<started, called, finished>>

(***************************************************************************)
(* It calls the handlers there are, each once.                             *)
(***************************************************************************)
Call(w) ==
  /\ hand[w] # Nobody /\ hand[w] \notin started
  /\ \E S \in SUBSET Handlers : called' = [called EXCEPT ![hand[w]] = S]
  /\ started' = started \cup {hand[w]}
  /\ UNCHANGED <<waiting, hand, finished>>

(***************************************************************************)
(* Then it lets go of the message.                                         *)
(***************************************************************************)
LetGo(w) ==
  /\ hand[w] \in started
  /\ hand' = [hand EXCEPT ![w] = Nobody]
  /\ finished' = finished \cup {hand[w]}
  /\ UNCHANGED <<waiting, started, called>>

Next ==
  \/ \E m \in Messages : Accept(m)
  \/ \E w \in Workers : Take(w) \/ Call(w) \/ LetGo(w)

Spec == Init /\ [][Next]_vars
=============================================================================
