------------------------------ MODULE Framing ------------------------------
(***************************************************************************)
(* How messages are cut out of the byte stream of one connection, by the    *)
(* SMMC server (readMessage and the loop of handleSession) or by the SMSC   *)
(* client (readMessage and readLoop).  Bytes arrive in pieces of any size,  *)
(* and a read whose deadline passes has taken what had arrived: the server  *)
(* goes on reading on the same connection, the client gives it up.          *)
(*                                                                         *)
(* A message is a header of FrHeader bytes that announces the length of the *)
(* body, and the body.  The bytes in the middle of a message announce any   *)
(* length when they are read as a header.                                   *)
(***************************************************************************)
EXTENDS Integers, Sequences, FiniteSets

CONSTANTS
    FrHeader,    \* bytes of a header, 16 in the code
    FrMaxBody,   \* the longest body accepted, 4096 - 16 in the code
    FrMaxFrames  \* bound: messages the far end sends

ASSUME FramingAssumption ==
    /\ FrHeader \in Nat \ {0}
    /\ FrMaxBody \in Nat
    /\ FrMaxFrames \in Nat

VARIABLES
    frReader, \* "server" or "client"
    frames,   \* what the far end has sent: where each message begins, its body's length
    end,      \* bytes sent
    arrived,  \* bytes that have arrived
    taken,    \* bytes the reader has taken
    part,     \* what the reader waits for: "header", "body"; or "closed"
    from,     \* where the message being read began
    want,     \* the announced length of its body
    got,      \* the messages handed on
    torn      \* history: a read timed out inside a message and reading went on

frVars == <<frReader, frames, end, arrived, taken, part, from, want, got, torn>>

FrInit ==
    /\ frReader \in {"server", "client"}
    /\ frames = {} /\ end = 0
    /\ arrived = 0 /\ taken = 0
    /\ part = "header" /\ from = 0 /\ want = 0
    /\ got = <<>>
    /\ torn = FALSE

-----------------------------------------------------------------------------
\* The far end writes a message; a body beyond the limit may be announced.
PeerSends(n) ==
    /\ Cardinality(frames) < FrMaxFrames
    /\ frames' = frames \cup {[at |-> end, body |-> n]}
    /\ end' = end + FrHeader + n
    /\ UNCHANGED <<frReader, arrived, taken, part, from, want, got, torn>>

Arrive ==
    /\ arrived' \in arrived + 1 .. end
    /\ UNCHANGED <<frReader, frames, end, taken, part, from, want, got, torn>>

\* What the bytes at a position announce when they are parsed as a header.
Announced(p) ==
    IF \E f \in frames : f.at = p
    THEN {f.body : f \in {g \in frames : g.at = p}}
    ELSE 0 .. FrMaxBody + 1

\* ParseMessage of the bytes read, which the handler is given.
HandOn(start, n) ==
    /\ got' = Append(got, [at |-> start, body |-> n])
    /\ part' = "header"

\* The header is there: an abnormal length ends the connection, a message
\* without a body is complete.
ReadHeader ==
    /\ part = "header"
    /\ arrived - taken >= FrHeader
    /\ taken' = taken + FrHeader
    /\ from' = taken
    /\ \E n \in Announced(taken) :
        /\ want' = n
        /\ IF n = 0 THEN HandOn(taken, 0)
           ELSE /\ part' = IF n > FrMaxBody THEN "closed" ELSE "body"
                /\ UNCHANGED got
    /\ UNCHANGED <<frReader, frames, end, arrived, torn>>

ReadBody ==
    /\ part = "body"
    /\ arrived - taken >= want
    /\ taken' = taken + want
    /\ HandOn(from, want)
    /\ UNCHANGED <<frReader, frames, end, arrived, from, want, torn>>

\* The deadline passes before all the bytes asked for have arrived.
Starved ==
    \/ part = "header" /\ arrived - taken < FrHeader
    \/ part = "body" /\ arrived - taken < want

\* The bug of a client that takes a timeout for normal and reads on.
DeadlinePassesForBoth ==
    /\ Starved
    /\ taken' = arrived
    /\ torn' = (torn \/ part = "body" \/ arrived # taken)
    /\ part' = "header"
    /\ UNCHANGED <<frReader, frames, end, arrived, from, want, got>>

\* The server continues its loop; the client reconnects, whatever was read.
DeadlinePasses ==
    /\ Starved
    /\ taken' = arrived
    /\ IF frReader = "server"
       THEN /\ part' = "header"
            /\ torn' = (torn \/ part = "body" \/ arrived # taken)
       ELSE part' = "closed" /\ UNCHANGED torn
    /\ UNCHANGED <<frReader, frames, end, arrived, from, want, got>>

\* Any other error of a read ends the connection.
FrReadFails ==
    /\ part # "closed"
    /\ part' = "closed"
    /\ UNCHANGED <<frReader, frames, end, arrived, taken, from, want, got, torn>>

FrNext ==
    \/ \E n \in 0 .. FrMaxBody + 1 : PeerSends(n)
    \/ Arrive \/ ReadHeader \/ ReadBody \/ DeadlinePasses \/ FrReadFails

FrSpec == FrInit /\ [][FrNext]_frVars

-----------------------------------------------------------------------------
\* Type invariant of the framing.
FrTypeOK ==
    /\ frReader \in {"server", "client"}
    /\ frames \subseteq [at : Nat, body : 0 .. FrMaxBody + 1]
    /\ 0 <= taken /\ taken <= arrived /\ arrived <= end
    /\ part \in {"header", "body", "closed"}
    /\ torn \in BOOLEAN

\* The messages handed on are the first ones that were sent, each once and in
\* order, however the bytes are cut: always for the client, and for the server
\* until a deadline has passed in the middle of a message.  After that it may
\* hand on anything.
\* (smmc_server.go:335-341 goes on after a timeout, smsc_client.go:335-347
\* reconnects after every error.)
FramesAsSent ==
    frReader = "client" \/ ~torn =>
        \A i \in 1 .. Len(got) :
            /\ got[i] \in frames
            /\ got[i].at = IF i = 1 THEN 0 ELSE got[i-1].at + FrHeader + got[i-1].body
=============================================================================
