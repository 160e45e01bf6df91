------------------------- MODULE MCResponseProcessor --------------------------
(***************************************************************************)
(* Two message ids for a map of one tracker.  Every response is given the  *)
(* source "unknown": in WithUnknown an account has that name, so that      *)
(* responses are added; in NamedSystems, as in the field, none has.        *)
(***************************************************************************)
EXTENDS ResponseProcessor

CONSTANTS m1, m2, p1, c1

TwoMessages == {m1, m2}
OneMessage == {m1}
OneResponse == {p1}
OneGetter == {c1}
WithUnknown == {"unknown", "ne1"}
NamedSystems == {"ne1", "ne2"}
=============================================================================
