----------------------------- MODULE MCSMMCServer -----------------------------
(***************************************************************************)
(* c1 and c2 are interchangeable in the run without liveness; there c3     *)
(* only contends with them for a place: its bind is refused, and it has    *)
(* come and gone before a message is delivered.                            *)
(***************************************************************************)
EXTENDS SMMCServer, TLC

CONSTANTS c1, c2, c3

ThreeConns == {c1, c2, c3}
OneConn == {c1}
Symmetry == Permutations({c1, c2})

Contends ==
  /\ pc'[c3] # "register"
  /\ call'.made > 0 => pc[c3] = "end"
=============================================================================
