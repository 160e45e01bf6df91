----------------------------- MODULE MCDispatcher -----------------------------
(***************************************************************************)
(* Two messages for a queue of one, two workers and two handlers; or one  *)
(* of each, which is enough for Stop to block.                             *)
(***************************************************************************)
EXTENDS Dispatcher

CONSTANTS m1, m2, w1, w2, h1, h2

TwoMessages == {m1, m2}
TwoWorkers == {w1, w2}
TwoHandlers == {h1, h2}
OneMessage == {m1}
OneWorker == {w1}
OneHandler == {h1}
=============================================================================
