-------------------------- MODULE MCResponseTracker ---------------------------
(***************************************************************************)
(* Two calls of AddDecision, from two expected network elements or from    *)
(* another one, and two waiters.  (The theorems of ResponseTrackerProofs   *)
(* hold for any number of them.)                                           *)
(***************************************************************************)
EXTENDS ResponseTracker

CONSTANTS r1, r2, w1, w2, ne1, ne2, other

MCResponders == {r1, r2}
MCWaiters == {w1, w2}
MCExpected == {ne1, ne2}
MCSources == MCExpected \cup {other}
=============================================================================
