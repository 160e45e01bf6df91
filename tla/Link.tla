-------------------------------- MODULE Link --------------------------------
(***************************************************************************)
(* What a client that keeps one connection promises: the first connection  *)
(* is tried once; one that is lost is closed, and forgotten, before        *)
(* another is tried, at most MaxRetries times until one is up again; and   *)
(* it says that it is connected from then on until it has closed the       *)
(* connection.  When it is stopped it comes to its end, and no more is     *)
(* promised of sockets.                                                    *)
(***************************************************************************)
EXTENDS Naturals

CONSTANTS Socket, MaxRetries

VARIABLES
  phase,      \* "starting", "down", "up", "over"
  attempts,   \* how many have failed since the connection was last up
  held,       \* the sockets it has open
  says,       \* it says that it is connected
  stopped

vars == <<phase, attempts, held, says, stopped>>

Init ==
  /\ phase = "starting" /\ attempts = 0
  /\ held = {} /\ says = FALSE
  /\ stopped = FALSE

Connecting == phase \in {"starting", "down"}

Open ==
  /\ Connecting
  /\ stopped \/ (held = {} /\ ~says /\ says' = FALSE /\ \E s \in Socket : held' = {s})
  /\ UNCHANGED <<phase, attempts, stopped>>

Bind ==
  /\ Connecting
  /\ phase' = "up" /\ attempts' = 0
  /\ stopped \/ (held # {} /\ held' = held /\ says' = TRUE)
  /\ UNCHANGED stopped

(***************************************************************************)
(* An attempt fails and leaves no socket behind.                           *)
(***************************************************************************)
Fail ==
  /\ Connecting
  /\ IF phase = "starting"
     THEN phase' = "over" /\ UNCHANGED attempts
     ELSE /\ attempts' = attempts + 1
          /\ phase' = IF attempts' < MaxRetries THEN "down" ELSE "over"
  /\ stopped \/ (held' = {} /\ says' = FALSE)
  /\ UNCHANGED stopped

Lose ==
  /\ phase = "up" /\ phase' = "down"
  /\ stopped \/ UNCHANGED <<held, says>>
  /\ UNCHANGED <<attempts, stopped>>

Close ==
  /\ phase = "down" /\ attempts = 0
  /\ held # {} /\ held' = {}
  /\ UNCHANGED <<phase, attempts, says, stopped>>

Forget ==
  /\ phase = "down" /\ attempts = 0
  /\ held = {} /\ held' = {} /\ says' = FALSE
  /\ phase' = IF MaxRetries > 0 THEN "down" ELSE "over"
  /\ UNCHANGED <<attempts, stopped>>

Stop ==
  /\ ~stopped /\ stopped' = TRUE
  /\ UNCHANGED <<phase, attempts, held, says>>

(***************************************************************************)
(* Stopped, it ends, and closes and says what it likes meanwhile.          *)
(***************************************************************************)
WindUp ==
  /\ stopped /\ stopped' = TRUE
  /\ phase' \in {phase, "over"}
  /\ UNCHANGED attempts

Next == Open \/ Bind \/ Fail \/ Lose \/ Close \/ Forget \/ Stop \/ WindUp

Spec == Init /\ [][Next]_vars
=============================================================================
