----------------------------- MODULE MCSMSCClient -----------------------------
(***************************************************************************)
(* Three sockets: the one that is closed, the current one and one that a   *)
(* reconnection opens while the first two are still held; or two.          *)
(***************************************************************************)
EXTENDS SMSCClient

CONSTANTS s1, s2, s3

ThreeSockets == {s1, s2, s3}
TwoSockets == {s1, s2}
=============================================================================
