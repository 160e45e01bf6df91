------------------------------ MODULE MCSupport ------------------------------
(***************************************************************************)
(* The parts around the message path share no state, so one run explores   *)
(* them one at a time: "subject" is chosen at the start and only that part *)
(* moves, the others stay as they began.  Where the operations are those   *)
(* the program does not use ("library"), there are no restarts of the       *)
(* accounts, which can be loaded again, and no messages for the tracer.     *)
(***************************************************************************)
EXTENDS ConnectionPool, Logger, Accounts, MainProgram, Service, Tracer, Framing

VARIABLE subject

supportVars == <<subject, poolVars, logVars, accVars, mainVars, svVars, trVars, frVars>>

SupportInit ==
    /\ subject \in {"pool", "logger", "accounts", "main", "service", "tracer", "framing"}
    /\ PoolInit /\ LogInit /\ AccInit /\ MainInit /\ SvInit /\ TrInit /\ FrInit
    /\ subject # "accounts" => accCallers = "api"
    /\ subject # "tracer" => trCallers = "api"
    /\ subject # "framing" => frReader = "server"

\* While a message is traced, one request at a time changes the settings, and
\* no statement has failed.
QuietRequests ==
    /\ apart' = {}
    /\ \A r, q \in TrRequests :
          trRequest'[r] # NoRequest /\ trRequest'[q] # NoRequest => r = q

SupportNext ==
    /\ UNCHANGED subject
    /\ \/ /\ subject = "pool" /\ PoolNext
          /\ UNCHANGED <<logVars, accVars, mainVars, svVars, trVars, frVars>>
       \/ /\ subject = "logger" /\ LogNext
          /\ UNCHANGED <<poolVars, accVars, mainVars, svVars, trVars, frVars>>
       \/ /\ subject = "accounts" /\ AccNext
          /\ accCallers = "library" => UNCHANGED restarts
          /\ UNCHANGED <<poolVars, logVars, mainVars, svVars, trVars, frVars>>
       \/ /\ subject = "main" /\ MainNext
          /\ UNCHANGED <<poolVars, logVars, accVars, svVars, trVars, frVars>>
       \/ /\ subject = "service" /\ SvNext
          /\ UNCHANGED <<poolVars, logVars, accVars, mainVars, trVars, frVars>>
       \/ /\ subject = "tracer" /\ TrNext
          /\ trCallers = "library" => UNCHANGED checkVars
          /\ (\E g \in TraceGoroutines : at'[g] # "idle") => QuietRequests
          /\ UNCHANGED <<poolVars, logVars, accVars, mainVars, svVars, frVars>>
       \/ /\ subject = "framing" /\ FrNext
          /\ UNCHANGED <<poolVars, logVars, accVars, mainVars, svVars, trVars>>

SupportSpec == SupportInit /\ [][SupportNext]_supportVars /\ LogFairness /\ SvFairness

OneMessage == {<<"n1", "n2">>}
=============================================================================
