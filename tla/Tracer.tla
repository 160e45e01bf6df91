------------------------------- MODULE Tracer -------------------------------
(***************************************************************************)
(* The protocol tracer: the switch and the traced numbers in memory         *)
(* (internal/tracer/config.go), their copies in the tables system_config    *)
(* and traced_numbers, the requests that change either (api/handlers/       *)
(* trace.go, internal/tracer/storage.go), and the goroutines that decide,   *)
(* over several reads of the settings, whether a message is logged.         *)
(*                                                                         *)
(* A statement of SQL and a section under the configuration's lock are one  *)
(* step each.  "trCallers" says whether requests come by the web API ("api")*)
(* or by the operations of the package that the program does not use but    *)
(* for its test commands ("library").  The records are their two numbers;   *)
(* what is parsed of a message's content is left out.                       *)
(***************************************************************************)
EXTENDS Integers, Sequences, FiniteSets

CONSTANTS
    Numbers,     \* numbers that can be traced
    TraceMessages, \* messages: pairs of source and destination number
    TrRequests,  \* goroutines that serve requests
    TraceGoroutines, \* goroutines that pass messages to the tracer
    MaxRecent,   \* maxRecentLogs
    LogToDatabase \* TracerConfig.LogToDatabase; NewTracerConfig says FALSE

ASSUME TracerAssumption ==
    /\ TraceMessages \subseteq Numbers \X Numbers
    /\ "none" \notin Numbers
    /\ MaxRecent \in Nat \ {0}
    /\ LogToDatabase \in BOOLEAN

NoNumber == "none"
NoRequest == [op |-> "idle", number |-> NoNumber]
NoMessage == <<NoNumber, NoNumber>>

VARIABLES
    trCallers,
    enabled, traced,     \* TracerConfig.Enabled, TracedNumbers
    savedEnabled, table, \* system_config's trace_enabled, traced_numbers
    logged,              \* protocol_logs is not empty
    recent,              \* recentLogs
    trRequest,           \* what each request has still to do
    apart,               \* history: numbers whose copies may differ
    at, message,         \* where each tracing goroutine is, and its message
    seen,                \* history: whether the message was due, at each instant of its check
    changes              \* history: changes of the settings during the check, up to 2

trVars == <<trCallers, enabled, traced, savedEnabled, table, logged, recent, trRequest,
            apart, at, message, seen, changes>>
checkVars == <<at, message, seen, changes>>
memoryVars == <<enabled, traced>>
savedVars == <<savedEnabled, table>>

TrInit ==
    /\ trCallers \in {"api", "library"}
    /\ enabled = TRUE /\ traced = {}
    /\ savedEnabled = TRUE /\ table = {}
    /\ logged = FALSE
    /\ recent = <<>>
    /\ trRequest = [r \in TrRequests |-> NoRequest]
    /\ apart = {}
    /\ at = [g \in TraceGoroutines |-> "idle"]
    /\ message = [g \in TraceGoroutines |-> NoMessage]
    /\ seen = [g \in TraceGoroutines |-> {}]
    /\ changes = [g \in TraceGoroutines |-> 0]

\* A message is due for tracing while the settings are e and S.
Due(e, S, m) == e /\ (S = {} \/ m[1] \in S \/ m[2] \in S)

\* What each check that is under way sees of a change of the settings.
Witnessed ==
    LET checking(g) == at[g] # "idle" IN
    /\ seen' = [g \in TraceGoroutines |->
         IF checking(g) THEN seen[g] \cup {Due(enabled', traced', message[g])} ELSE {}]
    /\ changes' = [g \in TraceGoroutines |->
         IF checking(g) /\ memoryVars' # memoryVars /\ changes[g] < 2
         THEN changes[g] + 1 ELSE changes[g]]
    /\ UNCHANGED <<at, message>>

-----------------------------------------------------------------------------
\* Requests that change the settings.

\* UpdateSettings: the switch in memory; the table is not written.
UpdateSettings(r, e) ==
    /\ trRequest[r] = NoRequest
    /\ enabled' = e
    /\ UNCHANGED <<trCallers, traced, savedVars, logged, recent, trRequest, apart>>
    /\ Witnessed

\* SaveConfigToDB, which nothing but a test command calls.
SaveConfig(r) ==
    /\ trCallers = "library" /\ trRequest[r] = NoRequest
    /\ savedEnabled' = enabled
    /\ UNCHANGED <<trCallers, memoryVars, table, logged, recent, trRequest, apart, checkVars>>

Overlaps(r, n) == \E q \in TrRequests \ {r} : trRequest[q].number = n
Mark(r, n) == apart' = IF Overlaps(r, n) THEN apart \cup {n} ELSE apart
Pending(r, op, n) == trRequest' = [trRequest EXCEPT ![r] = [op |-> op, number |-> n]]

\* AddTracedNumber and RemoveTracedNumber of the API change memory first.
ApiChange(r, n) ==
    /\ trCallers = "api" /\ trRequest[r] = NoRequest
    /\ \/ traced' = traced \cup {n} /\ Pending(r, "insert", n)
       \/ traced' = traced \ {n} /\ Pending(r, "delete", n)
    /\ Mark(r, n)
    /\ UNCHANGED <<trCallers, enabled, savedVars, logged, recent>>
    /\ Witnessed

\* The bug of a removal that forgets its statement.
ApiStatementInsertOnly(r) ==
    LET n == trRequest[r].number IN
    /\ trCallers = "api"
    /\ \/ trRequest[r].op = "insert" /\ table' = table \cup {n}
       \/ trRequest[r].op = "delete" /\ UNCHANGED table
    /\ trRequest' = [trRequest EXCEPT ![r] = NoRequest]
    /\ UNCHANGED <<trCallers, memoryVars, savedEnabled, logged, recent, apart, checkVars>>

\* Then the table: a second INSERT of a number is an error that changes nothing.
ApiStatement(r) ==
    LET n == trRequest[r].number IN
    /\ trCallers = "api"
    /\ \/ trRequest[r].op = "insert" /\ table' = table \cup {n}
       \/ trRequest[r].op = "delete" /\ table' = table \ {n}
    /\ trRequest' = [trRequest EXCEPT ![r] = NoRequest]
    /\ UNCHANGED <<trCallers, memoryVars, savedEnabled, logged, recent, apart, checkVars>>

\* SaveTracedNumber counts, ...
SaveTracedNumber(r, n) ==
    /\ trCallers = "library" /\ trRequest[r] = NoRequest
    /\ Pending(r, IF n \in table THEN "add" ELSE "insert", n)
    /\ Mark(r, n)
    /\ UNCHANGED <<trCallers, memoryVars, savedVars, logged, recent, checkVars>>

\* ... inserts, unless the number has come meanwhile, which is an error, ...
SaveInserts(r) ==
    LET n == trRequest[r].number IN
    /\ trCallers = "library" /\ trRequest[r].op = "insert"
    /\ table' = table \cup {n}
    /\ IF n \in table
       THEN trRequest' = [trRequest EXCEPT ![r] = NoRequest]
       ELSE Pending(r, "add", n)
    /\ UNCHANGED <<trCallers, memoryVars, savedEnabled, logged, recent, apart, checkVars>>

\* (DeleteTracedNumber deletes)
DeleteTracedNumber(r, n) ==
    /\ trCallers = "library" /\ trRequest[r] = NoRequest
    /\ table' = table \ {n}
    /\ Pending(r, "remove", n)
    /\ Mark(r, n)
    /\ UNCHANGED <<trCallers, memoryVars, savedEnabled, logged, recent, checkVars>>

\* ... and changes memory.
LibraryChange(r) ==
    LET n == trRequest[r].number IN
    /\ \/ trRequest[r].op = "add" /\ traced' = traced \cup {n}
       \/ trRequest[r].op = "remove" /\ traced' = traced \ {n}
    /\ trRequest' = [trRequest EXCEPT ![r] = NoRequest]
    /\ UNCHANGED <<trCallers, enabled, savedVars, logged, recent, apart>>
    /\ Witnessed

\* A statement fails: the request ends, and what it has changed stays.
StatementFails(r) ==
    /\ trRequest[r].op \in {"insert", "delete"}
    /\ apart' = IF trCallers = "api" THEN apart \cup {trRequest[r].number} ELSE apart
    /\ trRequest' = [trRequest EXCEPT ![r] = NoRequest]
    /\ UNCHANGED <<trCallers, memoryVars, savedVars, logged, recent, checkVars>>

\* LoadTracedNumbersFromDB: all of them, or those read before it fails.
LoadTracedNumbers ==
    /\ traced' \in SUBSET table
    /\ apart' = table \ traced'

\* LoadConfigFromDB: the saved switch, or the default if it fails.
LoadConfig == enabled' \in {savedEnabled, TRUE}

\* The process ends and starts again; the records in memory are lost.
TracerRestarts ==
    /\ LoadTracedNumbers
    /\ LoadConfig
    /\ recent' = <<>>
    /\ trRequest' = [r \in TrRequests |-> NoRequest]
    /\ at' = [g \in TraceGoroutines |-> "idle"]
    /\ message' = [g \in TraceGoroutines |-> NoMessage]
    /\ seen' = [g \in TraceGoroutines |-> {}]
    /\ changes' = [g \in TraceGoroutines |-> 0]
    /\ UNCHANGED <<trCallers, savedVars, logged>>

-----------------------------------------------------------------------------
\* Tracing a message: LogProtocol and shouldTraceMessage.

Step(g, from, to) == at[g] = from /\ at' = [at EXCEPT ![g] = to]
TraceStep == UNCHANGED <<trCallers, memoryVars, savedVars, logged, recent, trRequest, apart,
                         message, seen, changes>>

\* extractMessageInfo: the two numbers of a DELIVER_SM.  Of another message, or
\* of one cut short, both or the second are empty, which no traced number is.
ExtractMessageInfo(m) == {m, <<m[1], NoNumber>>, NoMessage}

\* A message comes to the tracer.
TraceMessage(g, msg) ==
    /\ Step(g, "idle", "enabled")
    /\ \E m \in ExtractMessageInfo(msg) :
        /\ message' = [message EXCEPT ![g] = m]
        /\ seen' = [seen EXCEPT ![g] = {Due(enabled, traced, m)}]
    /\ changes' = [changes EXCEPT ![g] = 0]
    /\ UNCHANGED <<trCallers, memoryVars, savedVars, logged, recent, trRequest, apart>>

\* IsEnabled, asked several times before the numbers are looked at.
CheckEnabled(g) ==
    /\ Step(g, "enabled", IF enabled THEN "empty" ELSE "untraced")
    /\ TraceStep

\* len(TracedNumbers), read without the lock.
CheckEmpty(g) ==
    /\ Step(g, "empty", IF traced = {} THEN "traced" ELSE "source")
    /\ TraceStep

\* ShouldTrace, which asks for the switch and the empty set again.
ShouldTrace(n) == enabled /\ (traced = {} \/ n \in traced)

\* The bug of a source that decides alone.
CheckSourceOnly(g) ==
    /\ Step(g, "source", IF ShouldTrace(message[g][1]) THEN "traced" ELSE "untraced")
    /\ TraceStep

CheckSource(g) ==
    /\ Step(g, "source", IF ShouldTrace(message[g][1]) THEN "traced" ELSE "dest")
    /\ TraceStep

CheckDest(g) ==
    /\ Step(g, "dest", IF ShouldTrace(message[g][2]) THEN "traced" ELSE "untraced")
    /\ TraceStep

\* addToRecentLogs: the oldest of the recent records goes.
AddToRecentLogs(m) ==
    LET longer == Append(recent, m) IN
    recent' = IF Len(longer) > MaxRecent THEN Tail(longer) ELSE longer

\* Store of the database's storage, which is used only if LogToDatabase.
Store == logged' = (logged \/ LogToDatabase)

\* The record goes to the storage and to the recent ones.
Record(g) ==
    /\ Step(g, "traced", "idle")
    /\ Store
    /\ AddToRecentLogs(message[g])
    /\ message' = [message EXCEPT ![g] = NoMessage]
    /\ seen' = [seen EXCEPT ![g] = {}]
    /\ changes' = [changes EXCEPT ![g] = 0]
    /\ UNCHANGED <<trCallers, memoryVars, savedVars, trRequest, apart>>

NotTraced(g) ==
    /\ Step(g, "untraced", "idle")
    /\ message' = [message EXCEPT ![g] = NoMessage]
    /\ seen' = [seen EXCEPT ![g] = {}]
    /\ changes' = [changes EXCEPT ![g] = 0]
    /\ UNCHANGED <<trCallers, memoryVars, savedVars, logged, recent, trRequest, apart>>

TrNext ==
    \/ TracerRestarts
    \/ \E r \in TrRequests :
        \/ \E e \in BOOLEAN : UpdateSettings(r, e)
        \/ \E n \in Numbers : ApiChange(r, n) \/ SaveTracedNumber(r, n) \/ DeleteTracedNumber(r, n)
        \/ SaveConfig(r) \/ ApiStatement(r) \/ SaveInserts(r) \/ LibraryChange(r) \/ StatementFails(r)
    \/ \E g \in TraceGoroutines :
        \/ \E m \in TraceMessages : TraceMessage(g, m)
        \/ CheckEnabled(g) \/ CheckEmpty(g) \/ CheckSource(g) \/ CheckDest(g)
        \/ Record(g) \/ NotTraced(g)

TrSpec == TrInit /\ [][TrNext]_trVars

-----------------------------------------------------------------------------
\* Type invariant of the tracer.
TrTypeOK ==
    /\ enabled \in BOOLEAN /\ savedEnabled \in BOOLEAN /\ logged \in BOOLEAN
    /\ traced \subseteq Numbers /\ table \subseteq Numbers /\ apart \subseteq Numbers
    /\ Len(recent) <= MaxRecent
    /\ \A g \in TraceGoroutines : seen[g] \subseteq BOOLEAN /\ changes[g] \in 0..2

\* The reads of a check are separate, yet its verdict is the right one for
\* some instant of the check, as long as the settings change at most once
\* meanwhile.  With two changes a message can be missed that was due throughout.
\* (logger.go:196-217 reads the switch, the length and each number by itself.)
VerdictWasTrue ==
    \A g \in TraceGoroutines :
        changes[g] <= 1 =>
            /\ at[g] = "traced" => TRUE \in seen[g]
            /\ at[g] = "untraced" => FALSE \in seen[g]

\* The numbers in memory are those in the table once the requests about them
\* have ended, unless two overlapped, a statement failed after memory had
\* been changed, or the load at start-up failed.
\* (trace.go:180-222 changes memory first, storage.go:285-327 the table.)
NumbersFollowTable ==
    \A n \in Numbers \ apart :
        (\A r \in TrRequests : trRequest[r].number # n) => (n \in traced <=> n \in table)
=============================================================================
