---------------------------- MODULE SupportProofs ----------------------------
(***************************************************************************)
(* Proofs about the process around the message path: its database          *)
(* (MainProgram), its parts from their start to their stop (Service), the  *)
(* tracer's settings and checks (Tracer),                                  *)
(* where lines of the log go and who locks himself out (Logger), and the   *)
(* start of high availability (HANode).                                    *)
(***************************************************************************)
EXTENDS MainProgram, Service, Tracer, Logger, HANode, FiniteSetTheorems, TLAPS

(***************************************************************************)
(* MainProgram, for any set of default keys and any number of processes    *)
(* that end before their time.  The invariant says, for each place main    *)
(* can be in, what the database holds by then, which survives the process. *)
(***************************************************************************)
AfterMigration == {"accounts", "service"}
Creating == {"tables", "admin", "defaults"}

\* The tables before the nth are there; so are the first rows, which follow
\* the second table and the sixth.
TablesUpTo(n) == \A i \in 1 .. Len(TableOrder) : i < n => TableOrder[i] \in tables
MadeUpTo(n) == TablesUpTo(n) /\ (n > 2 => admin) /\ (n > 6 => defaults = ConfigKeys)

SchemaTypes ==
    /\ recorded \subseteq {1, 2}
    /\ nextTable \in 1 .. Len(TableOrder) + 1
    /\ left \subseteq ConfigKeys /\ defaults \subseteq ConfigKeys

\* What CreateTables has done by where it is.
CreatingInv ==
    /\ phase \notin Creating => nextTable = 1
    /\ phase = "tables" => MadeUpTo(nextTable)
    /\ phase = "admin" => nextTable = 3 /\ TablesUpTo(3)
    /\ phase = "defaults" => /\ nextTable = 7 /\ TablesUpTo(7) /\ admin
                             /\ ConfigKeys \subseteq defaults \cup left
    /\ phase = "record1" => MadeUpTo(8)

\* What is recorded by where main is.
RecordingInv ==
    /\ 1 \in recorded => MadeUpTo(8)
    /\ 2 \in recorded => column
    /\ phase = "record2" => column
    /\ phase \in {"check2", "alter", "record2"} => 1 \in recorded
    /\ phase \in {"alter", "record2"} => 2 \notin recorded
    /\ phase \in AfterMigration => recorded = {1, 2}
    /\ stuckOn # "none" => phase = "down"
    /\ OnlyColumnSticks

SchemaInv == SchemaTypes /\ CreatingInv /\ RecordingInv

-----------------------------------------------------------------------------
\* The order of the tables.
LEMMA TableFacts ==
    /\ Len(TableOrder) = 7
    /\ \A i \in 1 .. 7 : /\ TableOrder[i] = "users" <=> i = 2
                         /\ TableOrder[i] = "system_config" <=> i = 6
BY DEF TableOrder

LEMMA MadeIsAll ==
    MadeUpTo(8) => AllTables \subseteq tables /\ admin /\ defaults = ConfigKeys
BY TableFacts DEF MadeUpTo, TablesUpTo, AllTables

LEMMA MainInitInv == MainInit => SchemaInv
<1> SUFFICES ASSUME MainInit PROVE SchemaInv
  OBVIOUS
<1>1. SchemaTypes
  BY TableFacts DEF MainInit, SchemaTypes
<1>2. CreatingInv
  BY DEF MainInit, CreatingInv, Creating
<1>3. RecordingInv
  BY DEF MainInit, RecordingInv, AfterMigration, OnlyColumnSticks
<1> QED
  BY <1>1, <1>2, <1>3 DEF SchemaInv

-----------------------------------------------------------------------------
\* The migration.

\* A process that ends leaves the database, and a new one begins from nothing.
LEMMA GoneInv ==
    ASSUME SchemaInv, ProcessGone, UNCHANGED <<schemaVars, stuckOn>>
    PROVE  SchemaInv'
<1>1. SchemaTypes'
  BY TableFacts DEF SchemaInv, SchemaTypes, ProcessGone, schemaVars
<1>2. CreatingInv'
  BY DEF CreatingInv, Creating, ProcessGone
<1>3. RecordingInv'
  BY DEF SchemaInv, RecordingInv, AfterMigration, ProcessGone, schemaVars, MadeUpTo,
         TablesUpTo, OnlyColumnSticks
<1> QED
  BY <1>1, <1>2, <1>3 DEF SchemaInv

\* From one place to another without a statement that writes.
LEMMA ReadingStepsInv ==
    ASSUME SchemaInv, Begin \/ Connect \/ CheckApplied
    PROVE  SchemaInv'
<1> USE DEF Begin, Connect, CheckApplied, Advance, schemaVars
<1>1. SchemaTypes'
  BY DEF SchemaInv, SchemaTypes
<1>2. CreatingInv'
  BY DEF SchemaInv, CreatingInv, Creating, MadeUpTo, TablesUpTo, SchemaTypes
<1>3. RecordingInv'
  BY DEF SchemaInv, RecordingInv, SchemaTypes, AfterMigration, MadeUpTo, TablesUpTo,
         OnlyColumnSticks
<1> QED
  BY <1>1, <1>2, <1>3 DEF SchemaInv

LEMMA CreateMigrationsTableInv ==
    ASSUME SchemaInv, CreateMigrationsTable
    PROVE  SchemaInv'
<1> USE DEF CreateMigrationsTable, Advance
<1>1. SchemaTypes'
  BY DEF SchemaInv, SchemaTypes
<1>2. CreatingInv'
  BY DEF SchemaInv, CreatingInv, Creating
<1>3. RecordingInv'
  BY DEF SchemaInv, RecordingInv, AfterMigration, MadeUpTo, TablesUpTo, OnlyColumnSticks
<1> QED
  BY <1>1, <1>2, <1>3 DEF SchemaInv

\* One more table is there; the two with first rows are followed by them.
LEMMA CreateTableInv ==
    ASSUME SchemaInv, CreateTable
    PROVE  SchemaInv'
<1> DEFINE made == TableOrder[nextTable]
<1>1. /\ phase = "tables" /\ nextTable \in 1 .. 7
      /\ phase' = IF made = "users" THEN "admin"
                  ELSE IF made = "system_config" THEN "defaults" ELSE "tables"
      /\ tables' = tables \cup {made}
      /\ nextTable' = nextTable + 1
      /\ left' = IF made = "system_config" THEN ConfigKeys ELSE left
      /\ UNCHANGED <<admin, defaults, column, recorded, stuckOn>>
  BY TableFacts DEF CreateTable, Advance, SchemaInv, SchemaTypes
<1>2. /\ made = "users" <=> nextTable = 2
      /\ made = "system_config" <=> nextTable = 6
  BY <1>1, TableFacts
<1>3. TablesUpTo(nextTable) /\ (nextTable > 2 => admin) /\ (nextTable > 6 => defaults = ConfigKeys)
  BY <1>1 DEF SchemaInv, CreatingInv, MadeUpTo
<1>4. TablesUpTo(nextTable)'
  BY <1>1, <1>3, TableFacts DEF TablesUpTo
<1>5. SchemaTypes'
  BY <1>1, TableFacts DEF SchemaInv, SchemaTypes
<1>6. CreatingInv'
  <2>1. CASE nextTable = 2
    BY <1>1, <1>2, <1>4, <2>1 DEF CreatingInv, Creating
  <2>2. CASE nextTable = 6
    BY <1>1, <1>2, <1>3, <1>4, <2>2 DEF CreatingInv, Creating
  <2>3. CASE nextTable \notin {2, 6}
    BY <1>1, <1>2, <1>3, <1>4, <2>3 DEF CreatingInv, Creating, MadeUpTo
  <2> QED
    BY <2>1, <2>2, <2>3
<1>7. RecordingInv'
  BY <1>1 DEF SchemaInv, RecordingInv, AfterMigration, MadeUpTo, TablesUpTo, OnlyColumnSticks
<1> QED
  BY <1>5, <1>6, <1>7 DEF SchemaInv

LEMMA SeedAdminInv ==
    ASSUME SchemaInv, SeedAdmin
    PROVE  SchemaInv'
<1> USE DEF SeedAdmin, Advance
<1>1. SchemaTypes'
  BY DEF SchemaInv, SchemaTypes
<1>2. CreatingInv'
  BY DEF SchemaInv, CreatingInv, Creating, MadeUpTo, TablesUpTo
<1>3. RecordingInv'
  BY DEF SchemaInv, RecordingInv, AfterMigration, MadeUpTo, TablesUpTo, OnlyColumnSticks
<1> QED
  BY <1>1, <1>2, <1>3 DEF SchemaInv

\* The loop has visited every key when none is left.
LEMMA SeedDefaultInv ==
    ASSUME SchemaInv, NEW key \in ConfigKeys, SeedDefault(key)
    PROVE  SchemaInv'
<1>1. /\ phase = "defaults" /\ phase' = IF left' = {} THEN "tables" ELSE "defaults"
      /\ left' = left \ {key} /\ defaults' = defaults \cup {key}
      /\ UNCHANGED <<tables, admin, column, recorded, nextTable, stuckOn>>
  BY DEF SeedDefault, Advance
<1>2. SchemaTypes'
  BY <1>1 DEF SchemaInv, SchemaTypes
<1>3. nextTable = 7 /\ TablesUpTo(7) /\ admin /\ ConfigKeys \subseteq defaults \cup left
  BY <1>1 DEF SchemaInv, CreatingInv
<1>4. left' = {} => defaults' = ConfigKeys
  BY <1>1, <1>2, <1>3 DEF SchemaTypes
<1>5. CreatingInv'
  BY <1>1, <1>3, <1>4 DEF CreatingInv, Creating, MadeUpTo, TablesUpTo
<1>6. RecordingInv'
  <2>1. 1 \in recorded => MadeUpTo(8)'
    BY <1>1, <1>2 DEF SchemaInv, RecordingInv, MadeUpTo, TablesUpTo, SchemaTypes
  <2> QED
    BY <1>1, <2>1 DEF SchemaInv, RecordingInv, AfterMigration, OnlyColumnSticks
<1> QED
  BY <1>2, <1>5, <1>6 DEF SchemaInv

LEMMA TablesMadeInv ==
    ASSUME SchemaInv, TablesMade
    PROVE  SchemaInv'
<1> USE DEF TablesMade, Advance, schemaVars
<1>1. SchemaTypes' /\ nextTable = 8
  BY TableFacts DEF SchemaInv, SchemaTypes
<1>2. CreatingInv'
  BY <1>1 DEF SchemaInv, CreatingInv, Creating, MadeUpTo, TablesUpTo
<1>3. RecordingInv'
  BY DEF SchemaInv, RecordingInv, AfterMigration, MadeUpTo, TablesUpTo, OnlyColumnSticks
<1> QED
  BY <1>1, <1>2, <1>3 DEF SchemaInv

\* The column is added, or was there and the process gives up.
LEMMA AddColumnInv ==
    ASSUME SchemaInv, AddColumn
    PROVE  SchemaInv'
<1> USE DEF AddColumn, Advance, ProcessGone
<1>1. SchemaTypes'
  BY TableFacts DEF SchemaInv, SchemaTypes
<1>2. CreatingInv'
  BY DEF SchemaInv, CreatingInv, Creating
<1>3. 1 \in recorded /\ 2 \notin recorded /\ MadeUpTo(8)
  BY DEF SchemaInv, RecordingInv
<1>4. MadeUpTo(8)'
  BY <1>3 DEF MadeUpTo, TablesUpTo
<1>5. RecordingInv'
  BY <1>3, <1>4 DEF SchemaInv, RecordingInv, AfterMigration, OnlyColumnSticks
<1> QED
  BY <1>1, <1>2, <1>5 DEF SchemaInv

LEMMA RecordMigrationInv ==
    ASSUME SchemaInv, RecordMigration
    PROVE  SchemaInv'
<1> USE DEF RecordMigration, Advance
<1>1. SchemaTypes'
  BY DEF SchemaInv, SchemaTypes
<1>2. CreatingInv'
  BY DEF SchemaInv, CreatingInv, Creating
<1>3. MadeUpTo(8) => MadeUpTo(8)'
  BY DEF MadeUpTo, TablesUpTo
<1>4. stuckOn = "none"
  BY DEF SchemaInv, RecordingInv
<1>5. RecordingInv'
  <2>1. CASE phase = "record1"
    BY <1>3, <1>4, <2>1
       DEF SchemaInv, CreatingInv, RecordingInv, AfterMigration, OnlyColumnSticks
  <2>2. CASE phase = "record2"
    <3>1. recorded' = {1, 2}
      BY <2>2 DEF SchemaInv, SchemaTypes, RecordingInv
    <3> QED
      BY <1>3, <1>4, <2>2, <3>1 DEF SchemaInv, RecordingInv, AfterMigration, OnlyColumnSticks
  <2> QED
    BY <2>1, <2>2
<1> QED
  BY <1>1, <1>2, <1>5 DEF SchemaInv

\* No statement: the accounts are loaded, or nothing happens.
LEMMA NoStatementInv ==
    ASSUME SchemaInv, Load \/ UNCHANGED mainVars
    PROVE  SchemaInv'
<1> USE DEF Load, Advance, mainVars, schemaVars
<1>1. SchemaTypes'
  BY DEF SchemaInv, SchemaTypes
<1>2. CreatingInv'
  BY DEF SchemaInv, CreatingInv, Creating, MadeUpTo, TablesUpTo
<1>3. RecordingInv'
  BY DEF SchemaInv, RecordingInv, AfterMigration, MadeUpTo, TablesUpTo, OnlyColumnSticks
<1> QED
  BY <1>1, <1>2, <1>3 DEF SchemaInv

-----------------------------------------------------------------------------
LEMMA MainInvariant == MainSpec => []SchemaInv
<1>1. SchemaInv /\ [MainNext]_mainVars => SchemaInv'
  <2> SUFFICES ASSUME SchemaInv, [MainNext]_mainVars
               PROVE  SchemaInv'
    OBVIOUS
  <2>1. CASE Begin \/ Connect \/ CheckApplied
    BY <2>1, ReadingStepsInv
  <2>2. CASE CreateMigrationsTable \/ CreateTable \/ SeedAdmin
    BY <2>2, CreateMigrationsTableInv, CreateTableInv, SeedAdminInv
  <2>3. ASSUME NEW key \in ConfigKeys, SeedDefault(key)
        PROVE  SchemaInv'
    BY <2>3, SeedDefaultInv
  <2>4. CASE TablesMade \/ AddColumn \/ RecordMigration
    BY <2>4, TablesMadeInv, AddColumnInv, RecordMigrationInv
  <2>5. CASE Close \/ ProcessEnds
    BY <2>5, GoneInv DEF Close, ProcessEnds
  <2>6. CASE Load \/ UNCHANGED mainVars
    BY <2>6, NoStatementInv
  <2> QED
    BY <2>1, <2>2, <2>3, <2>4, <2>5, <2>6 DEF MainNext, MainStep
<1> QED
  BY MainInitInv, <1>1, PTL DEF MainSpec

\* A recorded migration is complete in the database, whichever processes ended
\* between whichever statements of it (migration.go:56-74).
THEOREM RecordedIsMadeAlways == MainSpec => []RecordedIsMade
<1>1. SchemaInv => RecordedIsMade
  BY MadeIsAll DEF SchemaInv, RecordingInv, RecordedIsMade, AfterMigration
<1> QED
  BY MainInvariant, <1>1, PTL

\* A process gives up by itself in one case alone: the column of the second
\* migration is there, and not recorded (migration.go:38, 59-66).
THEOREM OnlyColumnSticksAlways == MainSpec => []OnlyColumnSticks
<1>1. SchemaInv => OnlyColumnSticks
  BY DEF SchemaInv, RecordingInv
<1> QED
  BY MainInvariant, <1>1, PTL

-----------------------------------------------------------------------------
(***************************************************************************)
(* Service, for any number of workers and connections and any queue.  The  *)
(* invariant says where each goroutine is that has begun something since   *)
(* the cancellation: past the point from which it could begin more, so     *)
(* that its way leads over its top, where it looks at the context.         *)
(***************************************************************************)
AfterCancel == {"stop server", "await server", "stop processor", "stop dispatcher",
                "await workers", "stop client", "close", "over"}

SvTypes ==
    /\ late \in [Beginners -> Nat]
    /\ worker \in [SvWorkers -> {"off", "top", "dequeueing", "copying", "handing"}]
    /\ queued \in Nat /\ queuedAtCancel \in Nat /\ inVain \in Nat
    /\ cancelled => stage \in AfterCancel

\* Only after the cancellation is anything late, and once.
LateOnce ==
    /\ \A b \in Beginners : late[b] = 0 \/ (cancelled /\ late[b] = 1)
    /\ inVain = 0 \/ cancelled

\* Who was late once is on the way to the end.
LateIsLeaving ==
    /\ late["client"] = 1 => reader \in {"answering", "top", "off"}
    /\ late["acceptor"] = 1 => acceptor \in {"top", "off"}
    /\ \A w \in SvWorkers : late[w] = 1 => worker[w] # "dequeueing"

Lost == cancelled => queued + inVain <= queuedAtCancel + late["client"]

SvInv == SvTypes /\ LateOnce /\ LateIsLeaving /\ Lost

LEMMA BeginnersDiffer ==
    /\ "client" \in Beginners /\ "acceptor" \in Beginners /\ SvWorkers \subseteq Beginners
    /\ \A w \in SvWorkers : w # "client" /\ w # "acceptor"
BY ServiceAssumption DEF Beginners

LEMMA SvInitInv == SvInit => SvInv
BY BeginnersDiffer
   DEF SvInit, SvInv, SvTypes, AfterCancel, LateOnce, LateIsLeaving, Lost

\* One more thing is begun by who has begun nothing late.
LEMMA BeginsOnce ==
    ASSUME SvTypes, LateOnce, NEW b \in Beginners, Begins(b), UNCHANGED cancelled, late[b] = 0
    PROVE  /\ late' \in [Beginners -> Nat]
           /\ late'[b] = IF cancelled THEN 1 ELSE 0
           /\ \A c \in Beginners : c # b => late'[c] = late[c]
           /\ \A c \in Beginners : late'[c] = 0 \/ (cancelled /\ late'[c] = 1)
BY DEF SvTypes, LateOnce, Begins

\* main starts a part, when nothing is late yet.
LEMMA StartingInv ==
    ASSUME SvInv, Starting
    PROVE  SvInv'
<1>1. /\ UNCHANGED <<cancelled, queued, historyVars>> /\ ~cancelled
      /\ worker' \in {worker, [w \in SvWorkers |-> "top"]}
  BY DEF Starting, StartClient, StartDispatcher, StartServer, StartWeb, Moves, Exits, SvInv,
         SvTypes, AfterCancel, dispatcherVars, historyVars
<1> QED
  BY <1>1, BeginnersDiffer DEF SvInv, SvTypes, LateOnce, LateIsLeaving, Lost, historyVars

\* A step of main, or of the web server's starter, that begins nothing.
LEMMA PassingInv ==
    ASSUME SvInv, cancelled => stage' \in AfterCancel,
           UNCHANGED <<cancelled, queued, worker, reader, acceptor, historyVars>>
    PROVE  SvInv'
BY DEF SvInv, SvTypes, LateOnce, LateIsLeaving, Lost, historyVars

LEMMA StoppingInv ==
    ASSUME SvInv, Stopping \/ PassProcessor \/ Signal \/ WebStarts
    PROVE  SvInv'
<1>1. CASE Cancel
  <2>1. /\ ~cancelled /\ cancelled' /\ stage' \in AfterCancel /\ queuedAtCancel' = queued
        /\ UNCHANGED <<queued, worker, reader, acceptor, late, inVain>>
    BY <1>1 DEF Cancel, Moves, SvInv, SvTypes, AfterCancel, clientVars, dispatcherVars, serverVars
  <2> QED
    BY <2>1, BeginnersDiffer DEF SvInv, SvTypes, LateOnce, LateIsLeaving, Lost
<1>2. CASE ~Cancel
  <2>1. UNCHANGED <<cancelled, queued, worker, reader, acceptor, historyVars>>
    BY <1>2 DEF Stopping, StopWeb, StopServer, ServerStopped, StopDispatcher, DispatcherStopped,
       StopClient, PassProcessor, Signal, WebStarts, clientVars, dispatcherVars, serverVars,
       historyVars
  <2>2. cancelled => stage' \in AfterCancel
    BY <1>2 DEF SvInv, SvTypes, AfterCancel, Moves, Exits, Stopping, StopWeb, StopServer,
       ServerStopped, StopDispatcher, DispatcherStopped, StopClient, PassProcessor, Signal, WebStarts
  <2> QED
    BY <2>1, <2>2, PassingInv
<1> QED
  BY <1>1, <1>2

\* The read loop: it hands on a message once after the cancellation, and comes
\* to its top before it could read another.
LEMMA ReaderInv ==
    ASSUME SvInv, ReaderStep
    PROVE  SvInv'
<1>1. UNCHANGED <<stage, cancelled, worker, acceptor, queuedAtCancel>>
  BY DEF ReaderStep, ReaderLoops, Reads, Reconnects, ParseFails, DispatchChecks, Enqueues,
         Answers, dispatcherVars, serverVars, historyVars
<1>2. CASE UNCHANGED <<queued, late, inVain>>
  <2>1. late["client"] = 1 => reader' \in {"answering", "top", "off"}
    <3>1. late["client"] = 1 => cancelled /\ reader \in {"answering", "top", "off"}
      BY BeginnersDiffer DEF SvInv, LateOnce, LateIsLeaving
    <3> QED
      BY <3>1 DEF ReaderStep, ReaderLoops, Reads, Reconnects, ParseFails, DispatchChecks,
         Enqueues, Answers, Read
  <2> QED
    BY <1>1, <1>2, <2>1 DEF SvInv, SvTypes, LateOnce, LateIsLeaving, Lost
<1>3. CASE ~UNCHANGED <<queued, late, inVain>>
  <2>1. /\ Begins("client") /\ reader \in {"message", "enqueueing"} /\ reader' = "answering"
        /\ \/ UNCHANGED <<queued, inVain>>
           \/ queued' = queued + 1 /\ UNCHANGED inVain
           \/ inVain' = (IF cancelled THEN inVain + 1 ELSE inVain) /\ UNCHANGED queued
    BY <1>3 DEF ReaderStep, ReaderLoops, Reads, Reconnects, ParseFails, DispatchChecks, Enqueues,
         Answers, Read, dispatcherVars, historyVars
  <2>2. late["client"] = 0
    BY <2>1, BeginnersDiffer DEF SvInv, LateOnce, LateIsLeaving
  <2>3. /\ late' \in [Beginners -> Nat]
        /\ late'["client"] = IF cancelled THEN 1 ELSE 0
        /\ \A c \in Beginners : c # "client" => late'[c] = late[c]
        /\ \A c \in Beginners : late'[c] = 0 \/ (cancelled /\ late'[c] = 1)
    BY <1>1, <2>1, <2>2, BeginsOnce, BeginnersDiffer DEF SvInv
  <2>4. SvTypes'
    BY <1>1, <2>1, <2>3 DEF SvInv, SvTypes
  <2>5. LateOnce'
    BY <1>1, <2>1, <2>3 DEF SvInv, LateOnce
  <2>6. LateIsLeaving'
    BY <1>1, <2>1, <2>3, BeginnersDiffer DEF SvInv, LateIsLeaving
  <2>7. Lost'
    BY <1>1, <2>1, <2>2, <2>3 DEF SvInv, SvTypes, Lost
  <2> QED
    BY <2>4, <2>5, <2>6, <2>7 DEF SvInv
<1> QED
  BY <1>2, <1>3

\* A worker takes one message after the cancellation, and then sees it.
LEMMA WorkerInv ==
    ASSUME SvInv, NEW w \in SvWorkers, WorkerStep(w)
    PROVE  SvInv'
<1>1. UNCHANGED <<stage, cancelled, reader, acceptor, queuedAtCancel, inVain>>
  BY DEF WorkerStep, WorkerLoops, Dequeues, DequeueTimesOut, DispatchSync, clientVars, serverVars,
         historyVars
<1>2. PICK to \in {"off", "top", "dequeueing", "copying", "handing"} :
        /\ worker' = [worker EXCEPT ![w] = to]
        /\ to = "dequeueing" => ~cancelled
  BY DEF WorkerStep, WorkerLoops, Dequeues, DequeueTimesOut, DispatchSync, Work
<1>3. /\ worker' \in [SvWorkers -> {"off", "top", "dequeueing", "copying", "handing"}]
      /\ worker'[w] = to
      /\ \A v \in SvWorkers : v # w => worker'[v] = worker[v]
  BY <1>2 DEF SvInv, SvTypes
<1>4. CASE Dequeues(w)
  <2>1. queued > 0 /\ queued' = queued - 1 /\ Begins(w) /\ worker[w] = "dequeueing" /\ to = "copying"
    BY <1>2, <1>3, <1>4 DEF Dequeues, Work, SvInv, SvTypes
  <2>2. late[w] = 0
    BY <2>1, BeginnersDiffer DEF SvInv, LateOnce, LateIsLeaving
  <2>3. /\ late' \in [Beginners -> Nat]
        /\ \A c \in Beginners : c # w => late'[c] = late[c]
        /\ \A c \in Beginners : late'[c] = 0 \/ (cancelled /\ late'[c] = 1)
    BY <1>1, <2>1, <2>2, BeginsOnce, BeginnersDiffer DEF SvInv
  <2>4. SvTypes'
    BY <1>1, <1>3, <2>1, <2>3 DEF SvInv, SvTypes
  <2>5. LateOnce'
    BY <1>1, <2>3 DEF SvInv, LateOnce
  <2>6. LateIsLeaving'
    BY <1>1, <1>3, <2>1, <2>3, BeginnersDiffer DEF SvInv, LateIsLeaving
  <2>7. Lost'
    BY <1>1, <2>1, <2>3, BeginnersDiffer DEF SvInv, SvTypes, Lost
  <2> QED
    BY <2>4, <2>5, <2>6, <2>7 DEF SvInv
<1>5. CASE ~Dequeues(w)
  <2>1. UNCHANGED <<queued, late>>
    BY <1>5 DEF WorkerStep, WorkerLoops, DequeueTimesOut, DispatchSync, historyVars
  <2>2. LateIsLeaving'
    BY <1>1, <1>2, <1>3, <2>1, BeginnersDiffer DEF SvInv, LateOnce, LateIsLeaving
  <2> QED
    BY <1>1, <1>3, <2>1, <2>2 DEF SvInv, SvTypes, LateOnce, Lost
<1> QED
  BY <1>4, <1>5

\* The accept loop takes one connection after the cancellation, and then sees it.
LEMMA ServerInv ==
    ASSUME SvInv, ServerStep
    PROVE  SvInv'
<1>1. UNCHANGED <<stage, cancelled, reader, worker, queued, queuedAtCancel, inVain>>
  BY DEF ServerStep, AcceptorLoops, Accepts, AcceptFails, HandlerEnds, clientVars, dispatcherVars,
         historyVars
<1>2. CASE Accepts
  <2>1. Begins("acceptor") /\ acceptor = "accepting" /\ acceptor' = "top"
    BY <1>2 DEF Accepts, Accept
  <2>2. late["acceptor"] = 0
    BY <2>1, BeginnersDiffer DEF SvInv, LateOnce, LateIsLeaving
  <2>3. /\ late' \in [Beginners -> Nat]
        /\ \A c \in Beginners : c # "acceptor" => late'[c] = late[c]
        /\ \A c \in Beginners : late'[c] = 0 \/ (cancelled /\ late'[c] = 1)
    BY <1>1, <2>1, <2>2, BeginsOnce, BeginnersDiffer DEF SvInv
  <2> QED
    BY <1>1, <2>1, <2>3, BeginnersDiffer DEF SvInv, SvTypes, LateOnce, LateIsLeaving, Lost
<1>3. CASE ~Accepts
  <2>1. UNCHANGED late
    BY <1>3 DEF ServerStep, AcceptorLoops, AcceptFails, HandlerEnds, historyVars
  <2>2. late["acceptor"] = 1 => acceptor' \in {"top", "off"}
    BY <1>3, BeginnersDiffer DEF SvInv, LateOnce, LateIsLeaving, ServerStep, AcceptorLoops,
       AcceptFails, HandlerEnds, Accept
  <2> QED
    BY <1>1, <2>1, <2>2 DEF SvInv, SvTypes, LateOnce, LateIsLeaving, Lost
<1> QED
  BY <1>2, <1>3

LEMMA SvInvariant == SvSpec => []SvInv
<1>1. SvInv /\ [SvNext]_svVars => SvInv'
  <2> SUFFICES ASSUME SvInv, [SvNext]_svVars
               PROVE  SvInv'
    OBVIOUS
  <2>1. CASE Starting
    BY <2>1, StartingInv
  <2>2. CASE Stopping \/ PassProcessor \/ Signal \/ WebStarts
    BY <2>2, StoppingInv
  <2>3. CASE ReaderStep
    BY <2>3, ReaderInv
  <2>4. CASE \E w \in SvWorkers : WorkerStep(w)
    BY <2>4, WorkerInv
  <2>5. CASE ServerStep
    BY <2>5, ServerInv
  <2>6. CASE UNCHANGED svVars
    BY <2>6 DEF svVars, clientVars, dispatcherVars, serverVars, historyVars, SvInv, SvTypes,
       LateOnce, LateIsLeaving, Lost
  <2> QED
    BY <2>1, <2>2, <2>3, <2>4, <2>5, <2>6 DEF SvNext
<1> QED
  BY SvInitInv, <1>1, PTL DEF SvSpec

\* After the cancellation nobody begins more than one thing, so a shutdown
\* loses the queue as it is then and one message more, for any number of
\* workers and any queue (main.go:344-359).
THEOREM AtMostOneMoreAlways == SvSpec => []AtMostOneMore
<1>1. SvInv => AtMostOneMore
  BY DEF SvInv, LateOnce, Lost, AtMostOneMore
<1> QED
  BY SvInvariant, <1>1, PTL

\* Once the Stop of the dispatcher meets a worker that waits for d.mu, the
\* process never ends by itself, and no step of any part helps
\* (dispatcher.go:95-111, 192).
THEOREM HungForEver == SvSpec => [][Hung => Hung']_svVars
<1>1. SvInv /\ [SvNext]_svVars => [Hung => Hung']_svVars
  <2> SUFFICES ASSUME SvInv, SvNext, NEW w \in SvWorkers,
                      stage = "await workers", worker[w] = "copying"
               PROVE  stage' = "await workers" /\ worker'[w] = "copying"
    BY DEF Hung
  <2>1. CASE Starting \/ PassProcessor \/ Signal \/ Stopping \/ WebStarts
    BY <2>1 DEF Starting, StartClient, StartDispatcher, StartServer, StartWeb, PassProcessor,
       Signal, Stopping, StopWeb, Cancel, StopServer, ServerStopped, StopDispatcher,
       DispatcherStopped, StopClient, WebStarts, Moves, dispatcherVars
  <2>2. CASE ReaderStep \/ ServerStep
    BY <2>2 DEF ReaderStep, ReaderLoops, Reads, Reconnects, ParseFails, DispatchChecks, Enqueues,
       Answers, ServerStep, AcceptorLoops, Accepts, AcceptFails, HandlerEnds, dispatcherVars
  <2>3. ASSUME NEW v \in SvWorkers, WorkerStep(v)
        PROVE  stage' = "await workers" /\ worker'[w] = "copying"
    <3>1. stage' = stage
      BY <2>3 DEF WorkerStep, WorkerLoops, Dequeues, DequeueTimesOut, DispatchSync
    <3>2. v # w
      BY <2>3 DEF WorkerStep, WorkerLoops, Dequeues, DequeueTimesOut, DispatchSync, Work
    <3>3. worker'[w] = worker[w]
      BY <2>3, <3>2 DEF WorkerStep, WorkerLoops, Dequeues, DequeueTimesOut, DispatchSync, Work,
         SvInv, SvTypes
    <3> QED
      BY <3>1, <3>3
  <2> QED
    BY <2>1, <2>2, <2>3 DEF SvNext
<1> QED
  BY SvInvariant, <1>1, PTL DEF SvSpec

-----------------------------------------------------------------------------
(***************************************************************************)
(* Tracer, for any numbers, messages, requests and checks.  Of the         *)
(* settings, the invariant says what a request has done so far; of a       *)
(* check, what its reads so far are worth, now or at an instant it has     *)
(* seen.                                                                   *)
(***************************************************************************)
Pairs == (Numbers \cup {NoNumber}) \X (Numbers \cup {NoNumber})
Places == {"idle", "enabled", "empty", "source", "dest", "traced", "untraced"}

\* The types of the settings and the requests, and of the checks.
SettingTypes ==
    /\ trCallers \in {"api", "library"}
    /\ enabled \in BOOLEAN /\ savedEnabled \in BOOLEAN /\ logged \in BOOLEAN
    /\ traced \subseteq Numbers /\ table \subseteq Numbers /\ apart \subseteq Numbers
    /\ trRequest \in [TrRequests -> [op : {"idle", "insert", "delete", "add", "remove"},
                                     number : Numbers \cup {NoNumber}]]
    /\ recent \in Seq(Pairs) /\ Len(recent) <= MaxRecent
CheckTypes ==
    /\ at \in [TraceGoroutines -> Places]
    /\ message \in [TraceGoroutines -> Pairs]
    /\ seen \in [TraceGoroutines -> SUBSET BOOLEAN]
    /\ changes \in [TraceGoroutines -> 0..2]

\* A request about a number in step has it to itself, and what it has done so
\* far is half of what it is for.
Half(r) ==
    LET n == trRequest[r].number  op == trRequest[r].op IN
    /\ op = "idle" <=> n = NoNumber
    /\ op = "delete" => trCallers = "api"
    /\ op \in {"add", "remove"} => trCallers = "library"
    /\ n \in Numbers \ apart =>
        /\ \A q \in TrRequests \ {r} : trRequest[q].number # n
        /\ op = "insert" => IF trCallers = "api" THEN n \in traced ELSE n \in traced <=> n \in table
        /\ op = "delete" => n \notin traced
        /\ op = "add" => n \in table
        /\ op = "remove" => n \notin table

SettingsInv ==
    /\ SettingTypes
    /\ \A r \in TrRequests : Half(r)
    /\ NumbersFollowTable

\* A check has seen whether its message is due now; what it went by is still
\* so, or was so at an instant it has seen.
Checked(g) ==
    LET m == message[g] IN
    /\ at[g] # "idle" =>
        /\ Due(enabled, traced, m) => TRUE \in seen[g]
        /\ ~Due(enabled, traced, m) => FALSE \in seen[g]
    /\ at[g] = "empty" =>
        /\ changes[g] = 0 => enabled
        /\ changes[g] <= 1 => enabled \/ (Due(TRUE, traced, m) => TRUE \in seen[g])
    /\ at[g] = "dest" =>
        /\ changes[g] = 0 =>
             FALSE \in seen[g] \/ (enabled /\ m[2] \in traced /\ m[1] \notin traced)
        /\ changes[g] <= 1 => FALSE \in seen[g] \/ ShouldTrace(m[2])
    /\ changes[g] <= 1 =>
        /\ at[g] = "traced" => TRUE \in seen[g]
        /\ at[g] = "untraced" => FALSE \in seen[g]

ChecksInv == CheckTypes /\ \A g \in TraceGoroutines : Checked(g)

-----------------------------------------------------------------------------
LEMMA SettingsInit == TrInit => SettingsInv
<1> SUFFICES ASSUME TrInit PROVE SettingsInv
  OBVIOUS
<1>1. \A r \in TrRequests : trRequest[r].op = "idle" /\ trRequest[r].number = NoNumber
  BY DEF TrInit, NoRequest
<1>2. NoNumber \notin Numbers
  BY TracerAssumption DEF TracerAssumption, NoNumber
<1>3. recent \in Seq(Pairs) /\ Len(recent) <= MaxRecent
  BY TracerAssumption DEF TracerAssumption, TrInit
<1>4. SettingTypes
  BY <1>3 DEF TrInit, SettingTypes, NoRequest
<1>5. \A r \in TrRequests : Half(r)
  BY <1>1, <1>2 DEF Half
<1> QED
  BY <1>4, <1>5 DEF TrInit, SettingsInv, NumbersFollowTable

\* While request r changes to q, or stays, the others are as they were.
LEMMA RequestMoves ==
    ASSUME SettingTypes, NEW r \in TrRequests,
           NEW q \in [op : {"idle", "insert", "delete", "add", "remove"}, number : Numbers \cup {NoNumber}],
           trRequest' = [trRequest EXCEPT ![r] = q]
    PROVE  /\ trRequest'[r] = q
           /\ \A s \in TrRequests \ {r} : trRequest'[s] = trRequest[s]
           /\ trRequest' \in [TrRequests -> [op : {"idle", "insert", "delete", "add", "remove"},
                                             number : Numbers \cup {NoNumber}]]
BY DEF SettingTypes

\* A request begins: the number is apart from now on if another is about it.
LEMMA RequestBegins ==
    ASSUME SettingsInv, NEW r \in TrRequests, NEW n \in Numbers,
           NEW op \in {"insert", "delete", "add", "remove"},
           Pending(r, op, n), Mark(r, n), UNCHANGED <<trCallers, enabled, savedEnabled, logged, recent>>,
           traced' \subseteq Numbers, table' \subseteq Numbers,
           \A k \in Numbers \ {n} : (k \in traced' <=> k \in traced) /\ (k \in table' <=> k \in table),
           op = "delete" => trCallers = "api",
           op \in {"add", "remove"} => trCallers = "library",
           ~Overlaps(r, n) /\ n \notin apart =>
             /\ op = "insert" => IF trCallers = "api" THEN n \in traced' ELSE n \in traced' <=> n \in table'
             /\ op = "delete" => n \notin traced'
             /\ op = "add" => n \in table'
             /\ op = "remove" => n \notin table',
           trRequest[r] = NoRequest
    PROVE  SettingsInv'
<1>q. PICK q : q = [op |-> op, number |-> n]
  OBVIOUS
<1>1. /\ q \in [op : {"idle", "insert", "delete", "add", "remove"}, number : Numbers \cup {NoNumber}]
      /\ q.op = op /\ q.number = n /\ n # NoNumber
  BY <1>q, TracerAssumption DEF TracerAssumption, NoNumber
<1>t. SettingTypes
  BY DEF SettingsInv
<1>2. /\ trRequest'[r] = q
      /\ \A s \in TrRequests \ {r} : trRequest'[s] = trRequest[s]
      /\ trRequest' \in [TrRequests -> [op : {"idle", "insert", "delete", "add", "remove"},
                                        number : Numbers \cup {NoNumber}]]
  BY <1>q, <1>1, <1>t, RequestMoves DEF Pending
<1>3. /\ apart \subseteq apart' /\ apart' \subseteq Numbers
      /\ Overlaps(r, n) => n \in apart'
      /\ \A k \in Numbers \ {n} : k \in apart' <=> k \in apart
      /\ n \notin apart' => n \notin apart
  BY <1>t DEF Mark, SettingTypes
<1>4. SettingTypes'
  BY <1>2, <1>3, <1>t DEF SettingTypes
<1>5. ASSUME NEW s \in TrRequests PROVE Half(s)'
  <2>1. CASE s = r
    BY <1>1, <1>2, <1>3, <2>1 DEF Half, Overlaps
  <2>2. CASE s # r
    <3>1. Half(s) /\ trRequest'[s] = trRequest[s]
      BY <1>2, <2>2 DEF SettingsInv
    <3>2. CASE trRequest[s].number = n
      <4>1. n \in apart'
        BY <1>3, <2>2, <3>2 DEF Overlaps
      <4> QED
        BY <3>1, <3>2, <4>1 DEF Half
    <3>3. CASE trRequest[s].number # n
      BY <1>1, <1>2, <1>3, <3>1, <3>3 DEF Half
    <3> QED
      BY <3>2, <3>3
  <2> QED
    BY <2>1, <2>2
<1>6. NumbersFollowTable'
  <2> SUFFICES ASSUME NEW k \in Numbers \ apart', \A s \in TrRequests : trRequest'[s].number # k
               PROVE  k \in traced' <=> k \in table'
    BY DEF NumbersFollowTable
  <2>1. k # n /\ k \notin apart /\ k # NoNumber
    BY <1>1, <1>2, <1>3, TracerAssumption DEF TracerAssumption, NoNumber
  <2>2. \A s \in TrRequests : trRequest[s].number # k
    BY <1>2, <2>1 DEF NoRequest
  <2> QED
    BY <2>1, <2>2 DEF SettingsInv, NumbersFollowTable
<1> QED
  BY <1>4, <1>5, <1>6 DEF SettingsInv

\* A request goes on or ends: it changes nothing but its number, and it leaves
\* it in step or apart.
LEMMA RequestGoesOn ==
    ASSUME SettingsInv, NEW r \in TrRequests, NEW n \in Numbers, trRequest[r].number = n,
           NEW q \in [op : {"idle", "insert", "delete", "add", "remove"}, number : Numbers \cup {NoNumber}],
           trRequest' = [trRequest EXCEPT ![r] = q],
           UNCHANGED <<trCallers, enabled, savedEnabled, logged, recent>>,
           traced' \subseteq Numbers, table' \subseteq Numbers,
           \A k \in Numbers \ {n} : (k \in traced' <=> k \in traced) /\ (k \in table' <=> k \in table),
           apart \subseteq apart', apart' \subseteq apart \cup {n},
           \/ q.op = "idle" /\ q.number = NoNumber /\ (n \notin apart' => (n \in traced' <=> n \in table'))
           \/ q.op = "add" /\ q.number = n /\ trCallers = "library" /\ (n \notin apart' => n \in table')
    PROVE  SettingsInv'
<1>1. NoNumber \notin Numbers
  BY TracerAssumption DEF TracerAssumption, NoNumber
<1>t. SettingTypes
  BY DEF SettingsInv
<1>2. /\ trRequest'[r] = q
      /\ \A s \in TrRequests \ {r} : trRequest'[s] = trRequest[s]
      /\ trRequest' \in [TrRequests -> [op : {"idle", "insert", "delete", "add", "remove"},
                                        number : Numbers \cup {NoNumber}]]
  BY <1>t, RequestMoves
<1>3. /\ apart \subseteq apart' /\ apart' \subseteq Numbers
      /\ \A k \in Numbers \ {n} : k \in apart' <=> k \in apart
  BY <1>t DEF SettingTypes
<1>4. SettingTypes'
  BY <1>2, <1>3, <1>t DEF SettingTypes
<1>r. n \in Numbers \ apart => \A s \in TrRequests \ {r} : trRequest[s].number # n
  BY DEF SettingsInv, Half
<1>5. ASSUME NEW s \in TrRequests PROVE Half(s)'
  <2>1. CASE s = r /\ q.op = "idle"
    BY <1>1, <1>2, <2>1 DEF Half
  <2>2. CASE s = r /\ q.op = "add"
    BY <1>1, <1>2, <1>3, <1>r, <2>2 DEF Half
  <2>3. CASE s # r
    <3>1. Half(s) /\ trRequest'[s] = trRequest[s]
      BY <1>2, <2>3 DEF SettingsInv
    <3>2. CASE trRequest[s].number = n
      <4>1. n \in apart'
        BY <1>3, <1>r, <2>3, <3>2
      <4> QED
        BY <3>1, <3>2, <4>1 DEF Half
    <3>3. CASE trRequest[s].number # n
      BY <1>1, <1>2, <1>3, <3>1, <3>3 DEF Half
    <3> QED
      BY <3>2, <3>3
  <2> QED
    BY <2>1, <2>2, <2>3
<1>6. NumbersFollowTable'
  <2> SUFFICES ASSUME NEW k \in Numbers \ apart', \A s \in TrRequests : trRequest'[s].number # k
               PROVE  k \in traced' <=> k \in table'
    BY DEF NumbersFollowTable
  <2>1. CASE k = n
    BY <1>2, <2>1
  <2>2. CASE k # n
    <3>1. \A s \in TrRequests : trRequest[s].number # k
      BY <1>2, <2>2
    <3> QED
      BY <1>3, <2>2, <3>1 DEF SettingsInv, NumbersFollowTable
  <2> QED
    BY <2>1, <2>2
<1> QED
  BY <1>4, <1>5, <1>6 DEF SettingsInv

LEMMA RequestEnds ==
    ASSUME SettingsInv, NEW r \in TrRequests, NEW n \in Numbers, trRequest[r].number = n,
           trRequest' = [trRequest EXCEPT ![r] = NoRequest],
           UNCHANGED <<trCallers, enabled, savedEnabled, logged, recent>>,
           traced' \subseteq Numbers, table' \subseteq Numbers,
           \A k \in Numbers \ {n} : (k \in traced' <=> k \in traced) /\ (k \in table' <=> k \in table),
           apart \subseteq apart', apart' \subseteq apart \cup {n},
           n \notin apart' => (n \in traced' <=> n \in table')
    PROVE  SettingsInv'
<1>q. PICK q : q = NoRequest
  OBVIOUS
<1>1. q \in [op : {"idle", "insert", "delete", "add", "remove"}, number : Numbers \cup {NoNumber}]
  BY <1>q DEF NoRequest
<1>2. trRequest' = [trRequest EXCEPT ![r] = q]
  BY <1>q
<1>3. q.op = "idle" /\ q.number = NoNumber
  BY <1>q DEF NoRequest
<1> QED
  BY <1>1, <1>2, <1>3, RequestGoesOn

LEMMA ApiChangeInv ==
    ASSUME SettingsInv, NEW r \in TrRequests, NEW n \in Numbers, ApiChange(r, n)
    PROVE  SettingsInv'
<1>1. /\ trCallers = "api" /\ trRequest[r] = NoRequest /\ Mark(r, n)
      /\ UNCHANGED <<trCallers, enabled, savedEnabled, table, logged, recent>>
  BY DEF ApiChange, savedVars
<1>2. traced \subseteq Numbers /\ table \subseteq Numbers
  BY DEF SettingsInv, SettingTypes
<1>3. CASE traced' = traced \cup {n} /\ Pending(r, "insert", n)
  BY <1>1, <1>2, <1>3, RequestBegins
<1>4. CASE traced' = traced \ {n} /\ Pending(r, "delete", n)
  BY <1>1, <1>2, <1>4, RequestBegins
<1> QED
  BY <1>3, <1>4 DEF ApiChange

LEMMA LibraryBeginsInv ==
    ASSUME SettingsInv, NEW r \in TrRequests, NEW n \in Numbers,
           SaveTracedNumber(r, n) \/ DeleteTracedNumber(r, n)
    PROVE  SettingsInv'
<1>1. /\ trCallers = "library" /\ trRequest[r] = NoRequest /\ Mark(r, n)
      /\ UNCHANGED <<trCallers, enabled, savedEnabled, traced, logged, recent>>
  BY DEF SaveTracedNumber, DeleteTracedNumber, savedVars, memoryVars
<1>2. traced \subseteq Numbers /\ table \subseteq Numbers
  BY DEF SettingsInv, SettingTypes
<1>3. CASE DeleteTracedNumber(r, n)
  <2>1. table' = table \ {n} /\ Pending(r, "remove", n)
    BY <1>3 DEF DeleteTracedNumber
  <2> QED
    BY <1>1, <1>2, <2>1, RequestBegins
<1>4. CASE SaveTracedNumber(r, n) /\ n \in table
  <2>1. table' = table /\ Pending(r, "add", n)
    BY <1>4 DEF SaveTracedNumber, savedVars
  <2> QED
    BY <1>1, <1>2, <1>4, <2>1, RequestBegins
<1>5. CASE SaveTracedNumber(r, n) /\ n \notin table
  <2>1. table' = table /\ Pending(r, "insert", n)
    BY <1>5 DEF SaveTracedNumber, savedVars
  <2>2. ~Overlaps(r, n) /\ n \notin apart => (n \in traced <=> n \in table)
    <3>1. trRequest[r].number # n
      BY <1>1, TracerAssumption DEF TracerAssumption, NoRequest, NoNumber
    <3> QED
      BY <3>1 DEF Overlaps, SettingsInv, NumbersFollowTable
  <2> QED
    BY <1>1, <1>2, <2>1, <2>2, RequestBegins
<1> QED
  BY <1>3, <1>4, <1>5

LEMMA RequestEndsInv ==
    ASSUME SettingsInv, NEW r \in TrRequests,
           ApiStatement(r) \/ SaveInserts(r) \/ LibraryChange(r) \/ StatementFails(r)
    PROVE  SettingsInv'
<1>n. PICK n : n = trRequest[r].number
  OBVIOUS
<1>o. PICK op : op = trRequest[r].op
  OBVIOUS
<1>1. /\ n \in Numbers \cup {NoNumber} /\ op \in {"idle", "insert", "delete", "add", "remove"}
      /\ traced \subseteq Numbers /\ table \subseteq Numbers /\ trCallers \in {"api", "library"}
  BY <1>n, <1>o DEF SettingsInv, SettingTypes
<1>h. Half(r)
  BY DEF SettingsInv
<1>3. ASSUME n \in Numbers PROVE SettingsInv'
  <2>1. CASE ApiStatement(r)
    <3>1. /\ trRequest' = [trRequest EXCEPT ![r] = NoRequest]
          /\ UNCHANGED <<trCallers, enabled, traced, savedEnabled, logged, recent, apart>>
          /\ trCallers = "api"
          /\ \/ op = "insert" /\ table' = table \cup {n}
             \/ op = "delete" /\ table' = table \ {n}
      BY <1>n, <1>o, <2>1 DEF ApiStatement, memoryVars
    <3>2. n \notin apart => (n \in traced <=> n \in table')
      BY <1>n, <1>o, <1>h, <1>3, <3>1 DEF Half
    <3>3. /\ traced' \subseteq Numbers /\ table' \subseteq Numbers
          /\ \A k \in Numbers \ {n} : (k \in traced' <=> k \in traced) /\ (k \in table' <=> k \in table)
          /\ n \notin apart' => (n \in traced' <=> n \in table')
          /\ apart \subseteq apart' /\ apart' \subseteq apart \cup {n}
      BY <1>1, <1>3, <3>1, <3>2
    <3> QED
      BY <1>n, <1>3, <3>1, <3>3, RequestEnds
  <2>2. CASE SaveInserts(r) /\ n \in table
    <3>1. /\ trRequest' = [trRequest EXCEPT ![r] = NoRequest]
          /\ UNCHANGED <<trCallers, enabled, traced, savedEnabled, logged, recent, apart>>
          /\ trCallers = "library" /\ op = "insert" /\ table' = table
      BY <1>n, <1>o, <2>2 DEF SaveInserts, memoryVars
    <3>2. n \notin apart => (n \in traced <=> n \in table')
      BY <1>n, <1>o, <1>h, <1>3, <3>1 DEF Half
    <3>3. /\ traced' \subseteq Numbers /\ table' \subseteq Numbers
          /\ \A k \in Numbers \ {n} : (k \in traced' <=> k \in traced) /\ (k \in table' <=> k \in table)
          /\ n \notin apart' => (n \in traced' <=> n \in table')
          /\ apart \subseteq apart' /\ apart' \subseteq apart \cup {n}
      BY <1>1, <1>3, <3>1, <3>2
    <3> QED
      BY <1>n, <1>3, <3>1, <3>3, RequestEnds
  <2>3. CASE SaveInserts(r) /\ n \notin table
    <3>q. PICK q : q = [op |-> "add", number |-> n]
      OBVIOUS
    <3>1. /\ trRequest' = [trRequest EXCEPT ![r] = q]
          /\ UNCHANGED <<trCallers, enabled, traced, savedEnabled, logged, recent, apart>>
          /\ trCallers = "library" /\ table' = table \cup {n}
      BY <1>n, <2>3, <3>q DEF SaveInserts, Pending, memoryVars
    <3>2. /\ q \in [op : {"idle", "insert", "delete", "add", "remove"}, number : Numbers \cup {NoNumber}]
          /\ q.op = "add" /\ q.number = n
      BY <1>1, <3>q
    <3> QED
      BY <1>n, <1>1, <1>3, <3>1, <3>2, RequestGoesOn
  <2>4. CASE LibraryChange(r)
    <3>1. /\ trRequest' = [trRequest EXCEPT ![r] = NoRequest]
          /\ UNCHANGED <<trCallers, enabled, savedEnabled, table, logged, recent, apart>>
          /\ \/ op = "add" /\ traced' = traced \cup {n}
             \/ op = "remove" /\ traced' = traced \ {n}
      BY <1>n, <1>o, <2>4 DEF LibraryChange, savedVars
    <3>2. n \notin apart => (n \in traced' <=> n \in table)
      BY <1>n, <1>o, <1>h, <1>3, <3>1 DEF Half
    <3>3. /\ traced' \subseteq Numbers /\ table' \subseteq Numbers
          /\ \A k \in Numbers \ {n} : (k \in traced' <=> k \in traced) /\ (k \in table' <=> k \in table)
          /\ n \notin apart' => (n \in traced' <=> n \in table')
          /\ apart \subseteq apart' /\ apart' \subseteq apart \cup {n}
      BY <1>1, <1>3, <3>1, <3>2
    <3> QED
      BY <1>n, <1>3, <3>1, <3>3, RequestEnds
  <2>5. CASE StatementFails(r)
    <3>1. /\ trRequest' = [trRequest EXCEPT ![r] = NoRequest]
          /\ UNCHANGED <<trCallers, enabled, traced, savedEnabled, table, logged, recent>>
          /\ apart' = IF trCallers = "api" THEN apart \cup {n} ELSE apart
          /\ op \in {"insert", "delete"}
      BY <1>n, <1>o, <2>5 DEF StatementFails, savedVars, memoryVars
    <3>2. n \notin apart' => (n \in traced <=> n \in table)
      BY <1>n, <1>o, <1>1, <1>h, <1>3, <3>1 DEF Half
    <3>3. /\ traced' \subseteq Numbers /\ table' \subseteq Numbers
          /\ \A k \in Numbers \ {n} : (k \in traced' <=> k \in traced) /\ (k \in table' <=> k \in table)
          /\ n \notin apart' => (n \in traced' <=> n \in table')
          /\ apart \subseteq apart' /\ apart' \subseteq apart \cup {n}
      BY <1>1, <1>3, <3>1, <3>2
    <3> QED
      BY <1>n, <1>3, <3>1, <3>3, RequestEnds
  <2> QED
    BY <2>1, <2>2, <2>3, <2>4, <2>5
<1>4. n \in Numbers
  <2>1. op # "idle"
    BY <1>o DEF ApiStatement, SaveInserts, LibraryChange, StatementFails
  <2> QED
    BY <1>n, <1>o, <1>1, <1>h, <2>1 DEF Half
<1> QED
  BY <1>3, <1>4

LEMMA RestartInv ==
    ASSUME SettingsInv, TracerRestarts
    PROVE  SettingsInv'
<1>1. /\ traced' \subseteq table /\ apart' = table \ traced' /\ table' = table
      /\ enabled' \in BOOLEAN /\ savedEnabled' = savedEnabled /\ trCallers' = trCallers /\ logged' = logged
      /\ recent' = <<>> /\ trRequest' = [r \in TrRequests |-> NoRequest]
  BY DEF TracerRestarts, LoadTracedNumbers, LoadConfig, savedVars, SettingsInv, SettingTypes
<1>2. recent' \in Seq(Pairs) /\ Len(recent') <= MaxRecent
  BY <1>1, TracerAssumption DEF TracerAssumption
<1>3. \A r \in TrRequests : trRequest'[r].op = "idle" /\ trRequest'[r].number = NoNumber
  BY <1>1 DEF NoRequest
<1>4. NoNumber \notin Numbers
  BY TracerAssumption DEF TracerAssumption, NoNumber
<1>5. trRequest' \in [TrRequests -> [op : {"idle", "insert", "delete", "add", "remove"},
                                     number : Numbers \cup {NoNumber}]]
  BY <1>1 DEF NoRequest
<1>6. SettingTypes'
  BY <1>1, <1>2, <1>5 DEF SettingsInv, SettingTypes
<1>7. \A r \in TrRequests : Half(r)'
  BY <1>3, <1>4 DEF Half
<1> QED
  BY <1>1, <1>6, <1>7 DEF SettingsInv, NumbersFollowTable

\* The numbers and the requests about them stay as they are.
LEMMA OtherSettings ==
    ASSUME SettingsInv, UNCHANGED <<trCallers, traced, table, trRequest, apart>>,
           enabled' \in BOOLEAN, savedEnabled' \in BOOLEAN, logged' \in BOOLEAN,
           recent' \in Seq(Pairs), Len(recent') <= MaxRecent
    PROVE  SettingsInv'
<1>1. SettingTypes'
  BY DEF SettingsInv, SettingTypes
<1>2. (\A r \in TrRequests : Half(r)') /\ NumbersFollowTable'
  BY DEF SettingsInv, Half, NumbersFollowTable
<1> QED
  BY <1>1, <1>2 DEF SettingsInv

LEMMA RecordSettings ==
    ASSUME SettingsInv, ChecksInv, NEW g \in TraceGoroutines, Record(g)
    PROVE  SettingsInv'
<1>m. PICK m : m = message[g]
  OBVIOUS
<1>1. /\ m \in Pairs /\ recent \in Seq(Pairs) /\ Len(recent) <= MaxRecent /\ MaxRecent \in Nat \ {0}
      /\ logged' \in BOOLEAN
      /\ recent' = IF Len(Append(recent, m)) > MaxRecent THEN Tail(Append(recent, m)) ELSE Append(recent, m)
      /\ UNCHANGED <<trCallers, enabled, savedEnabled, traced, table, trRequest, apart>>
  BY <1>m, TracerAssumption
     DEF TracerAssumption, Record, Store, AddToRecentLogs, memoryVars, savedVars,
         SettingsInv, SettingTypes, ChecksInv, CheckTypes
<1>l. PICK l : l = Append(recent, m)
  OBVIOUS
<1>2. l \in Seq(Pairs) /\ Len(l) = Len(recent) + 1 /\ Len(recent) \in Nat
  BY <1>1, <1>l
<1>3. l # <<>> /\ Tail(l) \in Seq(Pairs) /\ Len(Tail(l)) = Len(l) - 1
  BY <1>2
<1>4. recent' \in Seq(Pairs) /\ Len(recent') <= MaxRecent
  BY <1>1, <1>l, <1>2, <1>3
<1> QED
  BY <1>1, <1>4, OtherSettings DEF SettingsInv, SettingTypes

LEMMA SettingsStep == SettingsInv /\ ChecksInv /\ [TrNext]_trVars => SettingsInv'
<1> SUFFICES ASSUME SettingsInv, ChecksInv, [TrNext]_trVars PROVE SettingsInv'
  OBVIOUS
<1>t. /\ enabled \in BOOLEAN /\ savedEnabled \in BOOLEAN /\ logged \in BOOLEAN
      /\ recent \in Seq(Pairs) /\ Len(recent) <= MaxRecent
  BY DEF SettingsInv, SettingTypes
<1>1. CASE UNCHANGED trVars
  BY <1>1, <1>t, OtherSettings DEF trVars
<1>2. ASSUME NEW r \in TrRequests, NEW e \in BOOLEAN, UpdateSettings(r, e) PROVE SettingsInv'
  BY <1>2, <1>t, OtherSettings DEF UpdateSettings, savedVars
<1>3. ASSUME NEW r \in TrRequests, SaveConfig(r) PROVE SettingsInv'
  BY <1>3, <1>t, OtherSettings DEF SaveConfig, memoryVars
<1>4. ASSUME NEW g \in TraceGoroutines,
             \/ \E m \in TraceMessages : TraceMessage(g, m)
             \/ CheckEnabled(g) \/ CheckEmpty(g) \/ CheckSource(g) \/ CheckDest(g) \/ NotTraced(g)
      PROVE  SettingsInv'
  <2>1. UNCHANGED <<trCallers, memoryVars, savedVars, logged, recent, trRequest, apart>>
    BY <1>4 DEF TraceMessage, CheckEnabled, CheckEmpty, CheckSource, CheckDest, NotTraced, TraceStep
  <2> QED
    BY <2>1, <1>t, OtherSettings DEF memoryVars, savedVars
<1> QED
  BY <1>1, <1>2, <1>3, <1>4, ApiChangeInv, LibraryBeginsInv, RequestEndsInv, RestartInv, RecordSettings
     DEF TrNext

-----------------------------------------------------------------------------
\* The settings change under a check: one of them at most, and it sees so.
LEMMA WitnessedStep ==
    ASSUME CheckTypes, Witnessed, NEW g \in TraceGoroutines, at[g] # "idle"
    PROVE  /\ at' = at /\ message' = message /\ seen[g] \subseteq seen'[g]
           /\ Due(enabled', traced', message[g]) => TRUE \in seen'[g]
           /\ ~Due(enabled', traced', message[g]) => FALSE \in seen'[g]
           /\ changes[g] \in 0..2 /\ changes'[g] \in 0..2
           /\ \/ enabled' = enabled /\ traced' = traced /\ changes'[g] = changes[g]
              \/ changes[g] < 2 /\ changes'[g] = changes[g] + 1
              \/ changes'[g] = 2
<1>d. PICK d : d = Due(enabled', traced', message[g])
  OBVIOUS
<1>1. /\ at' = at /\ message' = message /\ seen'[g] = seen[g] \cup {d}
      /\ changes'[g] = IF memoryVars' # memoryVars /\ changes[g] < 2 THEN changes[g] + 1 ELSE changes[g]
  BY <1>d DEF Witnessed
<1>2. d \in BOOLEAN
  BY <1>d DEF Due
<1>3. changes[g] \in 0..2
  BY DEF CheckTypes
<1>4. d = TRUE \/ d = FALSE
  BY <1>2
<1>5. (d = TRUE => TRUE \in seen'[g]) /\ (d = FALSE => FALSE \in seen'[g])
  BY <1>1
<1>6. changes'[g] \in 0..2
  BY <1>1, <1>3
<1>7. \/ memoryVars' = memoryVars /\ changes'[g] = changes[g]
      \/ changes[g] < 2 /\ changes'[g] = changes[g] + 1
      \/ changes'[g] = 2
  BY <1>1, <1>3
<1> QED
  BY <1>d, <1>1, <1>3, <1>4, <1>5, <1>6, <1>7 DEF memoryVars

LEMMA WitnessedTypes ==
    ASSUME CheckTypes, Witnessed
    PROVE  CheckTypes'
<1>1. \A g \in TraceGoroutines : Due(enabled', traced', message[g]) \in BOOLEAN
  BY DEF Due
<1>2. seen' \in [TraceGoroutines -> SUBSET BOOLEAN]
  BY <1>1 DEF CheckTypes, Witnessed
<1>3. changes' \in [TraceGoroutines -> 0..2]
  BY DEF CheckTypes, Witnessed
<1> QED
  BY <1>2, <1>3 DEF CheckTypes, Witnessed

\* One request changes the switch, or one number, under the checks.
LEMMA ChangeChecked ==
    ASSUME ChecksInv, Witnessed, NEW n,
           \/ traced' = traced
           \/ enabled' = enabled /\ \A k : k # n => (k \in traced' <=> k \in traced)
    PROVE  ChecksInv'
<1>t. CheckTypes
  BY DEF ChecksInv
<1>1. ASSUME NEW g \in TraceGoroutines PROVE Checked(g)'
  <2>m. PICK m : m = message[g]
    OBVIOUS
  <2>c. Checked(g)
    BY DEF ChecksInv
  <2>1. CASE at[g] = "idle"
    <3>1. at'[g] = "idle"
      BY <2>1 DEF Witnessed
    <3> QED
      BY <3>1 DEF Checked
  <2>2. CASE at[g] # "idle"
    <3>1. /\ at'[g] = at[g] /\ message'[g] = m /\ seen[g] \subseteq seen'[g]
          /\ Due(enabled', traced', m) => TRUE \in seen'[g]
          /\ ~Due(enabled', traced', m) => FALSE \in seen'[g]
          /\ changes[g] \in 0..2 /\ changes'[g] \in 0..2
          /\ \/ enabled' = enabled /\ traced' = traced /\ changes'[g] = changes[g]
             \/ changes[g] < 2 /\ changes'[g] = changes[g] + 1
             \/ changes'[g] = 2
      BY <1>t, <2>m, <2>2, WitnessedStep
    <3>2. /\ Due(enabled, traced, m) => TRUE \in seen[g]
          /\ ~Due(enabled, traced, m) => FALSE \in seen[g]
      BY <2>m, <2>2, <2>c DEF Checked
    <3>3. at[g] = "empty" =>
            /\ changes'[g] = 0 => enabled'
            /\ changes'[g] <= 1 => enabled' \/ (Due(TRUE, traced', m) => TRUE \in seen'[g])
      <4>1. CASE enabled' = enabled /\ traced' = traced /\ changes'[g] = changes[g]
        BY <2>m, <2>c, <3>1, <4>1 DEF Checked
      <4>2. CASE changes[g] < 2 /\ changes'[g] = changes[g] + 1
        <5>1. ASSUME at[g] = "empty", changes[g] = 0, ~enabled' PROVE Due(TRUE, traced', m) => TRUE \in seen'[g]
          <6>1. enabled
            BY <2>c, <5>1 DEF Checked
          <6>2. traced' = traced
            BY <5>1, <6>1
          <6>3. Due(TRUE, traced, m) => Due(enabled, traced, m)
            BY <6>1 DEF Due
          <6> QED
            BY <3>1, <3>2, <6>2, <6>3
        <5>2. changes'[g] # 0 /\ (changes'[g] <= 1 => changes[g] = 0)
          BY <3>1, <4>2
        <5> QED
          BY <5>1, <5>2
      <4>3. CASE changes'[g] = 2
        BY <4>3
      <4> QED
        BY <3>1, <4>1, <4>2, <4>3
    <3>4. at[g] = "dest" /\ FALSE \notin seen'[g] =>
            /\ changes'[g] = 0 => enabled' /\ m[2] \in traced' /\ m[1] \notin traced'
            /\ changes'[g] <= 1 => ShouldTrace(m[2])'
      <4>1. CASE enabled' = enabled /\ traced' = traced /\ changes'[g] = changes[g]
        BY <2>m, <2>c, <3>1, <4>1 DEF Checked, ShouldTrace
      <4>2. CASE changes[g] < 2 /\ changes'[g] = changes[g] + 1
        <5>1. ASSUME at[g] = "dest", FALSE \notin seen'[g], changes[g] = 0 PROVE ShouldTrace(m[2])'
          <6>1. enabled /\ m[2] \in traced /\ m[1] \notin traced
            BY <2>m, <2>c, <3>1, <5>1 DEF Checked
          <6>2. Due(enabled', traced', m)
            BY <3>1, <5>1
          <6>3. enabled' /\ (traced' = {} \/ m[1] \in traced' \/ m[2] \in traced')
            BY <6>2 DEF Due
          <6>4. m[1] \in traced' => m[2] \in traced'
            BY <6>1
          <6> QED
            BY <6>3, <6>4 DEF ShouldTrace
        <5> QED
          BY <3>1, <4>2, <5>1
      <4> QED
        BY <3>1, <4>1, <4>2
    <3>5. changes'[g] <= 1 =>
            /\ at[g] = "traced" => TRUE \in seen'[g]
            /\ at[g] = "untraced" => FALSE \in seen'[g]
      <4>1. changes'[g] <= 1 => changes[g] <= 1
        BY <3>1
      <4> QED
        BY <2>c, <3>1, <4>1 DEF Checked
    <3> QED
      BY <2>m, <3>1, <3>3, <3>4, <3>5 DEF Checked
  <2> QED
    BY <2>1, <2>2
<1>2. CheckTypes'
  BY <1>t, WitnessedTypes
<1> QED
  BY <1>1, <1>2 DEF ChecksInv

\* One check goes on from what it has read; the others do nothing.
LEMMA CheckGoesOn ==
    ASSUME ChecksInv, UNCHANGED memoryVars, NEW g \in TraceGoroutines, NEW place \in Places,
           at' = [at EXCEPT ![g] = place], UNCHANGED <<message, seen, changes>>, Checked(g)'
    PROVE  ChecksInv'
<1>1. CheckTypes'
  BY DEF ChecksInv, CheckTypes
<1>2. ASSUME NEW h \in TraceGoroutines \ {g} PROVE Checked(h)'
  <2>1. at'[h] = at[h] /\ Checked(h)
    BY DEF ChecksInv, CheckTypes
  <2> QED
    BY <2>1 DEF Checked, memoryVars, ShouldTrace
<1> QED
  BY <1>1, <1>2 DEF ChecksInv

\* Each read leads to a place that what was seen by then justifies.
LEMMA ReadsJustified ==
    ASSUME ChecksInv, NEW g \in TraceGoroutines,
           CheckEnabled(g) \/ CheckEmpty(g) \/ CheckSource(g) \/ CheckDest(g)
    PROVE  ChecksInv'
<1>m. PICK m : m = message[g]
  OBVIOUS
<1>u. UNCHANGED <<message, seen, changes>> /\ UNCHANGED memoryVars
  BY DEF CheckEnabled, CheckEmpty, CheckSource, CheckDest, TraceStep
<1>u2. message'[g] = m /\ seen' = seen /\ changes' = changes /\ enabled' = enabled /\ traced' = traced
  BY <1>m, <1>u DEF memoryVars
<1>c. Checked(g) /\ changes[g] \in 0..2 /\ at \in [TraceGoroutines -> Places]
  BY DEF ChecksInv, CheckTypes
<1>1. CASE CheckEnabled(g)
  <2>p. PICK place : place = IF enabled THEN "empty" ELSE "untraced"
    OBVIOUS
  <2>1. at[g] = "enabled" /\ at' = [at EXCEPT ![g] = place] /\ place \in Places
    BY <1>1, <2>p DEF CheckEnabled, Step, Places
  <2>2. at'[g] = place
    BY <1>c, <2>1
  <2>3. /\ Due(enabled, traced, m) => TRUE \in seen[g]
        /\ ~Due(enabled, traced, m) => FALSE \in seen[g]
    BY <1>m, <1>c, <2>1 DEF Checked
  <2>6. Checked(g)'
    <3>4. CASE enabled
      BY <1>u2, <2>p, <2>2, <2>3, <3>4 DEF Checked
    <3>5. CASE ~enabled
      <4>1. FALSE \in seen[g] /\ place = "untraced"
        BY <2>p, <2>3, <3>5 DEF Due
      <4> QED
        BY <1>u2, <2>2, <2>3, <4>1 DEF Checked
    <3> QED
      BY <3>4, <3>5
  <2> QED
    BY <1>u, <2>1, <2>6, CheckGoesOn
<1>2. CASE CheckEmpty(g)
  <2>p. PICK place : place = IF traced = {} THEN "traced" ELSE "source"
    OBVIOUS
  <2>1. at[g] = "empty" /\ at' = [at EXCEPT ![g] = place] /\ place \in Places
    BY <1>2, <2>p DEF CheckEmpty, Step, Places
  <2>2. at'[g] = place
    BY <1>c, <2>1
  <2>3. /\ Due(enabled, traced, m) => TRUE \in seen[g]
        /\ ~Due(enabled, traced, m) => FALSE \in seen[g]
        /\ changes[g] <= 1 => enabled \/ (Due(TRUE, traced, m) => TRUE \in seen[g])
    BY <1>m, <1>c, <2>1 DEF Checked
  <2>4. traced = {} /\ changes[g] <= 1 => TRUE \in seen[g]
    BY <2>3 DEF Due
  <2>5. place \in {"traced", "source"} /\ (place = "traced" => traced = {})
    BY <2>p
  <2>6. Checked(g)'
    BY <1>u2, <2>2, <2>3, <2>4, <2>5 DEF Checked
  <2> QED
    BY <1>u, <2>1, <2>6, CheckGoesOn
<1>3. CASE CheckSource(g)
  <2>p. PICK place : place = IF ShouldTrace(m[1]) THEN "traced" ELSE "dest"
    OBVIOUS
  <2>1. at[g] = "source" /\ at' = [at EXCEPT ![g] = place] /\ place \in Places
    BY <1>m, <1>3, <2>p DEF CheckSource, Step, Places
  <2>2. at'[g] = place
    BY <1>c, <2>1
  <2>3. /\ Due(enabled, traced, m) => TRUE \in seen[g]
        /\ ~Due(enabled, traced, m) => FALSE \in seen[g]
    BY <1>m, <1>c, <2>1 DEF Checked
  <2>6. Checked(g)'
    <3>4. CASE ShouldTrace(m[1])
      <4>1. TRUE \in seen[g] /\ place = "traced"
        BY <2>p, <2>3, <3>4 DEF ShouldTrace, Due
      <4> QED
        BY <1>u2, <2>2, <2>3, <4>1 DEF Checked
    <3>5. CASE ~ShouldTrace(m[1])
      <4>1. place = "dest" /\ (FALSE \in seen[g] \/ (enabled /\ m[2] \in traced /\ m[1] \notin traced))
        BY <2>p, <2>3, <3>5 DEF ShouldTrace, Due
      <4>2. FALSE \in seen[g] \/ ShouldTrace(m[2])
        BY <4>1 DEF ShouldTrace
      <4> QED
        BY <1>u2, <2>2, <2>3, <4>1, <4>2 DEF Checked, ShouldTrace
    <3> QED
      BY <3>4, <3>5
  <2> QED
    BY <1>u, <2>1, <2>6, CheckGoesOn
<1>4. CASE CheckDest(g)
  <2>p. PICK place : place = IF ShouldTrace(m[2]) THEN "traced" ELSE "untraced"
    OBVIOUS
  <2>1. at[g] = "dest" /\ at' = [at EXCEPT ![g] = place] /\ place \in Places
    BY <1>m, <1>4, <2>p DEF CheckDest, Step, Places
  <2>2. at'[g] = place
    BY <1>c, <2>1
  <2>3. /\ Due(enabled, traced, m) => TRUE \in seen[g]
        /\ ~Due(enabled, traced, m) => FALSE \in seen[g]
        /\ changes[g] <= 1 => FALSE \in seen[g] \/ ShouldTrace(m[2])
    BY <1>m, <1>c, <2>1 DEF Checked
  <2>4. /\ place = "traced" => TRUE \in seen[g]
        /\ place = "untraced" /\ changes[g] <= 1 => FALSE \in seen[g]
        /\ place \in {"traced", "untraced"}
    BY <2>p, <2>3 DEF ShouldTrace, Due
  <2>6. Checked(g)'
    BY <1>u2, <2>2, <2>3, <2>4 DEF Checked
  <2> QED
    BY <1>u, <2>1, <2>6, CheckGoesOn
<1> QED
  BY <1>1, <1>2, <1>3, <1>4

\* A check begins or ends.
LEMMA CheckBeginsEnds ==
    ASSUME ChecksInv, NEW g \in TraceGoroutines,
           (\E m \in TraceMessages : TraceMessage(g, m)) \/ Record(g) \/ NotTraced(g)
    PROVE  ChecksInv'
<1>1. \E m \in Pairs, place \in {"idle", "enabled"}, S \in SUBSET BOOLEAN :
        /\ at' = [at EXCEPT ![g] = place] /\ message' = [message EXCEPT ![g] = m]
        /\ seen' = [seen EXCEPT ![g] = S] /\ changes' = [changes EXCEPT ![g] = 0]
        /\ place = "enabled" => S = {Due(enabled, traced, m)}
  <2>1. CASE Record(g) \/ NotTraced(g)
    <3>1. NoMessage \in Pairs
      BY DEF NoMessage, Pairs
    <3> QED
      BY <2>1, <3>1 DEF Record, NotTraced, Step
  <2>2. CASE \E m \in TraceMessages : TraceMessage(g, m)
    <3>1. PICK msg \in TraceMessages : TraceMessage(g, msg)
      BY <2>2
    <3>2. PICK m \in ExtractMessageInfo(msg) :
            /\ message' = [message EXCEPT ![g] = m]
            /\ seen' = [seen EXCEPT ![g] = {Due(enabled, traced, m)}]
      BY <3>1 DEF TraceMessage
    <3>3. m \in Pairs
      BY <3>2, TracerAssumption DEF TracerAssumption, ExtractMessageInfo, Pairs, NoMessage
    <3>4. {Due(enabled, traced, m)} \in SUBSET BOOLEAN
      BY DEF Due
    <3> QED
      BY <3>1, <3>2, <3>3, <3>4 DEF TraceMessage, Step
  <2> QED
    BY <2>1, <2>2
<1>2. PICK m \in Pairs, place \in {"idle", "enabled"}, S \in SUBSET BOOLEAN :
        /\ at' = [at EXCEPT ![g] = place] /\ message' = [message EXCEPT ![g] = m]
        /\ seen' = [seen EXCEPT ![g] = S] /\ changes' = [changes EXCEPT ![g] = 0]
        /\ place = "enabled" => S = {Due(enabled, traced, m)}
  BY <1>1
<1>u. enabled' = enabled /\ traced' = traced
  BY DEF TraceMessage, Record, NotTraced, memoryVars
<1>3. CheckTypes'
  BY <1>2 DEF ChecksInv, CheckTypes, Places
<1>4. Checked(g)'
  <2>1. at'[g] = place /\ message'[g] = m /\ seen'[g] = S
    BY <1>2 DEF ChecksInv, CheckTypes
  <2>2. place = "enabled" => /\ Due(enabled, traced, m) => TRUE \in S
                             /\ ~Due(enabled, traced, m) => FALSE \in S
    <3>1. Due(enabled, traced, m) \in BOOLEAN
      BY DEF Due
    <3> QED
      BY <1>2, <3>1
  <2> QED
    BY <1>u, <2>1, <2>2 DEF Checked
<1>5. ASSUME NEW h \in TraceGoroutines \ {g} PROVE Checked(h)'
  <2>1. at'[h] = at[h] /\ message'[h] = message[h] /\ seen'[h] = seen[h] /\ changes'[h] = changes[h]
    BY <1>2 DEF ChecksInv, CheckTypes
  <2>2. Checked(h)
    BY DEF ChecksInv
  <2> QED
    BY <1>u, <2>1, <2>2 DEF Checked, ShouldTrace
<1> QED
  BY <1>3, <1>4, <1>5 DEF ChecksInv

LEMMA ChecksStep == SettingsInv /\ ChecksInv /\ [TrNext]_trVars => ChecksInv'
<1> SUFFICES ASSUME SettingsInv, ChecksInv, [TrNext]_trVars PROVE ChecksInv'
  OBVIOUS
<1>u. ASSUME UNCHANGED <<memoryVars, checkVars>> PROVE ChecksInv'
  BY <1>u DEF memoryVars, checkVars, ChecksInv, CheckTypes, Checked, ShouldTrace
<1>1. CASE UNCHANGED trVars
  BY <1>1, <1>u DEF trVars, memoryVars, checkVars
<1>2. CASE TracerRestarts
  <2>1. CheckTypes'
    BY <1>2 DEF TracerRestarts, CheckTypes, Places, NoMessage, Pairs
  <2>2. \A g \in TraceGoroutines : at'[g] = "idle"
    BY <1>2 DEF TracerRestarts
  <2> QED
    BY <2>1, <2>2 DEF ChecksInv, Checked
<1>3. ASSUME NEW r \in TrRequests, NEW e \in BOOLEAN, UpdateSettings(r, e) PROVE ChecksInv'
  BY <1>3, ChangeChecked DEF UpdateSettings
<1>4. ASSUME NEW r \in TrRequests, NEW n \in Numbers, ApiChange(r, n) PROVE ChecksInv'
  <2>1. enabled' = enabled /\ Witnessed /\ \A k : k # n => (k \in traced' <=> k \in traced)
    BY <1>4 DEF ApiChange
  <2> QED
    BY <2>1, ChangeChecked
<1>5. ASSUME NEW r \in TrRequests, LibraryChange(r) PROVE ChecksInv'
  <2>n. PICK n : n = trRequest[r].number
    OBVIOUS
  <2>1. enabled' = enabled /\ Witnessed /\ \A k : k # n => (k \in traced' <=> k \in traced)
    BY <1>5, <2>n DEF LibraryChange
  <2> QED
    BY <2>1, ChangeChecked
<1>6. ASSUME NEW r \in TrRequests,
             \/ \E n \in Numbers : SaveTracedNumber(r, n) \/ DeleteTracedNumber(r, n)
             \/ SaveConfig(r) \/ ApiStatement(r) \/ SaveInserts(r) \/ StatementFails(r)
      PROVE  ChecksInv'
  <2>1. UNCHANGED memoryVars /\ UNCHANGED checkVars
    BY <1>6 DEF SaveTracedNumber, DeleteTracedNumber, SaveConfig, ApiStatement, SaveInserts, StatementFails
  <2> QED
    BY <2>1, <1>u
<1> QED
  BY <1>1, <1>2, <1>3, <1>4, <1>5, <1>6, ReadsJustified, CheckBeginsEnds DEF TrNext

LEMMA ChecksInit == TrInit => ChecksInv
<1> SUFFICES ASSUME TrInit PROVE ChecksInv
  OBVIOUS
<1>1. CheckTypes /\ \A g \in TraceGoroutines : at[g] = "idle"
  BY DEF TrInit, CheckTypes, Places, NoMessage, Pairs
<1> QED
  BY <1>1 DEF ChecksInv, Checked

LEMMA TracerInvariant == TrSpec => [](SettingsInv /\ ChecksInv)
BY SettingsInit, ChecksInit, SettingsStep, ChecksStep, PTL DEF TrSpec

(***************************************************************************)
(* The types of the tracer's settings and of the checks under way.         *)
(***************************************************************************)
THEOREM TracerTypeCorrect == TrSpec => []TrTypeOK
<1>1. SettingsInv /\ ChecksInv => TrTypeOK
  BY DEF SettingsInv, SettingTypes, ChecksInv, CheckTypes, TrTypeOK
<1> QED
  BY <1>1, TracerInvariant, PTL

(***************************************************************************)
(* The verdict on a message is right for some instant of its check, if the *)
(* settings change once at most meanwhile (logger.go:196-217).             *)
(***************************************************************************)
THEOREM VerdictAlwaysTrue == TrSpec => []VerdictWasTrue
<1>1. ChecksInv => VerdictWasTrue
  BY DEF ChecksInv, Checked, VerdictWasTrue
<1> QED
  BY <1>1, TracerInvariant, PTL

(***************************************************************************)
(* The numbers in memory and in the table agree but for what is apart      *)
(* (trace.go:180-222, storage.go:285-327).                                 *)
(***************************************************************************)
THEOREM NumbersAlwaysFollow == TrSpec => []NumbersFollowTable
<1>1. SettingsInv => NumbersFollowTable
  BY DEF SettingsInv
<1> QED
  BY <1>1, TracerInvariant, PTL

-----------------------------------------------------------------------------
(***************************************************************************)
(* Logger, for any number of goroutines and files.  A reconfiguration      *)
(* holds loggerMu while the instance still has the file that it closed;    *)
(* nobody can get to the instance then but those it has overtaken.         *)
(***************************************************************************)
LogPlaces == {"idle", "get", "self-locked", "enter", "formatted", "output",
              "configure", "reconfigure", "install"}

\* The types, with those of the goroutines; handles are given out in order.
LogTypes ==
    /\ LogTypeOK
    /\ \E n \in Nat : opened = 1..n
    /\ sink = file
    /\ logPc \in [LogThreads -> LogPlaces]
    /\ call \in [LogThreads -> Levels \cup Outputs]
    /\ target \in [LogThreads -> opened \cup {NoFile}]
    /\ overtaken \in [LogThreads -> BOOLEAN]

OnTheWay(t) == logPc[t] \in {"enter", "formatted", "output"}
Configures(t) == logPc[t] \in {"configure", "reconfigure", "install"}

\* A reconfiguration holds loggerMu, has overtaken every line on the way, and
\* the handle it will open, or has opened, is nobody else's.
Configuration(t) ==
    Configures(t) =>
        /\ loggerMu = t
        /\ call[t] \in Outputs
        /\ logPc[t] \in {"reconfigure", "install"} => \A u \in LogThreads : OnTheWay(u) => overtaken[u]
        /\ logPc[t] \in {"configure", "reconfigure"} /\ call[t] # "console" => CanOpen
        /\ logPc[t] = "install" /\ call[t] # "console" =>
             Cardinality(opened) \in opened \ closedFiles

LogInv ==
    /\ LogTypes
    /\ \A t \in LogThreads : Configuration(t)
    /\ (\A t \in LogThreads : logPc[t] # "install") => sink \notin closedFiles \ closedByCall
    /\ LinesReachOutput

-----------------------------------------------------------------------------
\* What the number of handles says.
LEMMA HandlesInOrder ==
    ASSUME LogTypes
    PROVE  /\ Cardinality(opened) \in Nat /\ opened = 1 .. Cardinality(opened)
           /\ NextHandle = Cardinality(opened) + 1 /\ NextHandle \notin opened /\ NextHandle # NoFile
           /\ opened \cup {NextHandle} = 1 .. NextHandle
           /\ Cardinality(opened \cup {NextHandle}) = NextHandle /\ NextHandle \in Nat
           /\ NoFile \notin opened
           /\ CanOpen => NextHandle \in Handles
<1>1. PICK n \in Nat : opened = 1..n
  BY DEF LogTypes
<1>2. Cardinality(1..n) = n
  BY FS_Interval
<1>3. Cardinality(1..(n + 1)) = n + 1
  BY FS_Interval
<1>4. 1..(n + 1) = (1..n) \cup {n + 1}
  OBVIOUS
<1>5. Cardinality(opened) = n /\ NextHandle = n + 1
  BY <1>1, <1>2 DEF NextHandle
<1>6. NextHandle \notin opened /\ NextHandle # NoFile /\ NoFile \notin opened
  BY <1>1, <1>5 DEF NoFile
<1>7. opened \cup {NextHandle} = 1..(n + 1)
  BY <1>1, <1>4, <1>5
<1>8. Cardinality(opened \cup {NextHandle}) = n + 1
  BY <1>3, <1>7
<1> QED
  BY <1>1, <1>5, <1>6, <1>7, <1>8 DEF CanOpen

LEMMA LogInitInv == LogInit => LogInv
<1> SUFFICES ASSUME LogInit PROVE LogInv
  OBVIOUS
<1>1. opened = 1..0
  BY DEF LogInit
<1>o. \E n \in Nat : opened = 1..n
  BY <1>1
<1>c. call \in [LogThreads -> Levels \cup Outputs]
  BY DEF LogInit, Levels, InfoLevel
<1>k. LogTypeOK
  <2>1. level \in Levels
    BY DEF LogInit, Levels, InfoLevel
  <2>2. sink = NoFile /\ file = NoFile /\ opened = {} /\ closedFiles = {} /\ closedByCall = {}
    BY DEF LogInit
  <2>3. /\ initialized \in BOOLEAN /\ exited \in BOOLEAN /\ loggerMu = NoThread /\ logMu = NoThread
        /\ \A t \in LogThreads : target[t] = NoFile
    BY DEF LogInit
  <2> QED
    BY <2>1, <2>2, <2>3 DEF LogTypeOK
<1>2. LogTypes
  BY <1>o, <1>c, <1>k DEF LogInit, LogTypes, LogPlaces
<1> QED
  BY <1>2 DEF LogInit, LogInv, Configuration, Configures, LinesReachOutput

\* A goroutine goes on with its line, while loggerMu and the instance stay.
LEMMA LineGoesOn ==
    ASSUME LogInv, NEW t \in LogThreads, NEW place \in LogPlaces, Goto(t, place),
           ~Configures(t), place \notin {"configure", "reconfigure", "install"},
           UNCHANGED <<initialized, loggerMu, level, sink, file, opened, closedFiles, closedByCall>>,
           logMu' \in LogThreads \cup {NoThread}, exited' \in BOOLEAN,
           call' \in [LogThreads -> Levels \cup Outputs],
           \A u \in LogThreads \ {t} : /\ call'[u] = call[u] /\ target'[u] = target[u]
                                       /\ overtaken'[u] = overtaken[u],
           target' \in [LogThreads -> opened \cup {NoFile}], overtaken' \in [LogThreads -> BOOLEAN],
           place \in {"enter", "formatted", "output"} =>
             \/ OnTheWay(t) /\ overtaken'[t] = overtaken[t]
             \/ loggerMu = NoThread,
           place = "output" /\ ~overtaken'[t] => target'[t] \notin closedFiles \ closedByCall
    PROVE  LogInv'
<1>1. logPc'[t] = place /\ logPc' \in [LogThreads -> LogPlaces]
      /\ \A u \in LogThreads \ {t} : logPc'[u] = logPc[u]
  BY DEF Goto, LogInv, LogTypes
<1>2. LogTypes'
  BY <1>1 DEF LogInv, LogTypes, LogTypeOK
<1>3. ASSUME NEW u \in LogThreads PROVE Configuration(u)'
  <2> SUFFICES ASSUME Configures(u)' PROVE Configuration(u)'
    BY DEF Configuration
  <2>1. u # t /\ logPc'[u] = logPc[u] /\ Configures(u) /\ Configuration(u) /\ call'[u] = call[u]
    BY <1>1 DEF Configures, LogInv
  <2>2. loggerMu = u /\ loggerMu # NoThread
    BY <2>1, LogAssumption DEF Configuration, LogAssumption, NoThread
  <2>3. ASSUME logPc[u] \in {"reconfigure", "install"}, NEW v \in LogThreads, OnTheWay(v)'
        PROVE  overtaken'[v]
    <3>1. OnTheWay(v) => overtaken[v]
      BY <2>1, <2>3 DEF Configuration
    <3>2. CASE v = t
      BY <1>1, <2>2, <2>3, <3>1, <3>2 DEF OnTheWay
    <3>3. CASE v # t
      BY <1>1, <2>3, <3>1, <3>3 DEF OnTheWay
    <3> QED
      BY <3>2, <3>3
  <2> QED
    BY <2>1, <2>2, <2>3 DEF Configuration, CanOpen, NextHandle
<1>4. (\A u \in LogThreads : logPc'[u] # "install") => sink' \notin closedFiles' \ closedByCall'
  <2>1. (\A u \in LogThreads : logPc'[u] # "install") => \A u \in LogThreads : logPc[u] # "install"
    BY <1>1 DEF Configures
  <2> QED
    BY <2>1 DEF LogInv
<1>5. LinesReachOutput'
  BY <1>1 DEF LogInv, LinesReachOutput
<1> QED
  BY <1>2, <1>3, <1>4, <1>5 DEF LogInv

\* Debug to Fatal, from the call to the line.
LEMMA LinesInv ==
    ASSUME LogInv, NEW t \in LogThreads,
           \/ \E l \in Levels : LogCall(t, l)
           \/ GetLogger(t) /\ initialized
           \/ LogDrops(t) \/ LogEnters(t) \/ LogTakesWriter(t) \/ LogOutputs(t)
    PROVE  LogInv'
<1>t. /\ logMu \in LogThreads \cup {NoThread} /\ exited \in BOOLEAN
      /\ call \in [LogThreads -> Levels \cup Outputs]
      /\ target \in [LogThreads -> opened \cup {NoFile}] /\ overtaken \in [LogThreads -> BOOLEAN]
      /\ sink \in opened \cup {NoFile}
  BY DEF LogInv, LogTypes, LogTypeOK
<1>1. CASE \E l \in Levels : LogCall(t, l)
  <2>1. PICK l \in Levels : LogCall(t, l)
    BY <1>1
  <2>2. /\ logPc[t] = "idle" /\ call' = [call EXCEPT ![t] = l] /\ Goto(t, "get")
        /\ UNCHANGED <<initialized, loggerMu, logMu, level, sink, file, opened, closedFiles,
                       closedByCall, target, overtaken, exited>>
    BY <2>1 DEF LogCall, instanceVars
  <2> QED
    BY <1>t, <2>2, LineGoesOn DEF Configures, LogPlaces
<1>2. CASE GetLogger(t) /\ initialized
  <2>1. /\ logPc[t] = "get" /\ loggerMu = NoThread /\ Goto(t, "enter")
        /\ UNCHANGED <<initialized, loggerMu, logMu, level, sink, file, opened, closedFiles,
                       closedByCall, call, target, overtaken, exited>>
    BY <1>2 DEF GetLogger, instanceVars
  <2> QED
    BY <1>t, <2>1, LineGoesOn DEF Configures, LogPlaces
<1>3. CASE LogDrops(t)
  <2>1. /\ logPc[t] = "enter" /\ Goto(t, "idle") /\ overtaken' = [overtaken EXCEPT ![t] = FALSE]
        /\ UNCHANGED <<initialized, loggerMu, logMu, level, sink, file, opened, closedFiles,
                       closedByCall, call, target, exited>>
    BY <1>3 DEF LogDrops, instanceVars
  <2> QED
    BY <1>t, <2>1, LineGoesOn DEF Configures, LogPlaces
<1>4. CASE LogEnters(t)
  <2>1. /\ logPc[t] = "enter" /\ Goto(t, "formatted") /\ logMu' = t
        /\ UNCHANGED <<initialized, loggerMu, level, sink, file, opened, closedFiles,
                       closedByCall, call, target, overtaken, exited>>
    BY <1>4 DEF LogEnters, instanceVars
  <2> QED
    BY <1>t, <2>1, LineGoesOn DEF Configures, LogPlaces, OnTheWay
<1>5. CASE LogTakesWriter(t)
  <2>1. /\ logPc[t] = "formatted" /\ Goto(t, "output") /\ target' = [target EXCEPT ![t] = sink]
        /\ UNCHANGED <<initialized, loggerMu, logMu, level, sink, file, opened, closedFiles,
                       closedByCall, call, overtaken, exited>>
    BY <1>5 DEF LogTakesWriter, instanceVars
  <2>2. ~overtaken[t] => sink \notin closedFiles \ closedByCall
    <3> SUFFICES ASSUME ~overtaken[t], NEW u \in LogThreads, logPc[u] = "install" PROVE FALSE
      BY DEF LogInv
    <3>1. Configuration(u)
      BY DEF LogInv
    <3> QED
      BY <2>1, <3>1 DEF Configuration, Configures, OnTheWay
  <2>3. ~overtaken'[t] => target'[t] \notin closedFiles \ closedByCall
    BY <1>t, <2>1, <2>2
  <2> QED
    BY <1>t, <2>1, <2>3, LineGoesOn DEF Configures, LogPlaces, OnTheWay
<1>6. CASE LogOutputs(t)
  <2>1. /\ logPc[t] = "output" /\ Goto(t, "idle") /\ overtaken' = [overtaken EXCEPT ![t] = FALSE]
        /\ logMu' = NoThread /\ exited' \in BOOLEAN
        /\ UNCHANGED <<initialized, loggerMu, level, sink, file, opened, closedFiles,
                       closedByCall, call, target>>
    BY <1>6 DEF LogOutputs, instanceVars
  <2> QED
    BY <1>t, <2>1, LineGoesOn DEF Configures, LogPlaces
<1> QED
  BY <1>1, <1>2, <1>3, <1>4, <1>5, <1>6

\* GetLogger without an instance keeps loggerMu and goes no further.
LEMMA SelfLockInv ==
    ASSUME LogInv, NEW t \in LogThreads, GetLogger(t), ~initialized
    PROVE  LogInv'
<1>1. /\ logPc[t] = "get" /\ loggerMu = NoThread /\ loggerMu' = t
      /\ logPc' = [logPc EXCEPT ![t] = "self-locked"]
      /\ UNCHANGED <<initialized, logMu, level, sink, file, opened, closedFiles,
                     closedByCall, call, target, overtaken, exited>>
  BY DEF GetLogger, instanceVars, Goto
<1>2. ASSUME NEW u \in LogThreads PROVE ~Configures(u)
  BY <1>1, LogAssumption DEF LogAssumption, NoThread, LogInv, Configuration
<1>3. /\ logPc' \in [LogThreads -> LogPlaces] /\ logPc'[t] = "self-locked"
      /\ \A u \in LogThreads \ {t} : logPc'[u] = logPc[u]
  BY <1>1 DEF LogInv, LogTypes, LogPlaces
<1>4. LogTypes'
  BY <1>1, <1>3 DEF LogInv, LogTypes, LogTypeOK
<1>5. \A u \in LogThreads : Configuration(u)'
  BY <1>2, <1>3 DEF Configuration, Configures
<1>6. \A u \in LogThreads : logPc[u] # "install"
  BY <1>2 DEF Configures
<1>7. LinesReachOutput'
  BY <1>1, <1>3 DEF LogInv, LinesReachOutput
<1> QED
  BY <1>1, <1>4, <1>5, <1>6, <1>7 DEF LogInv

-----------------------------------------------------------------------------
\* While loggerMu is free, nobody configures.
LEMMA FreeMeansNone ==
    ASSUME LogInv, loggerMu = NoThread
    PROVE  \A u \in LogThreads : ~Configures(u) /\ logPc[u] # "install"
<1> SUFFICES ASSUME NEW u \in LogThreads, Configures(u) PROVE FALSE
  BY DEF Configures
<1>1. Configuration(u)
  BY DEF LogInv
<1> QED
  BY <1>1, LogAssumption DEF LogAssumption, NoThread, Configuration

\* While t configures nobody else does.
LEMMA OneConfigures ==
    ASSUME LogInv, NEW t \in LogThreads, Configures(t)
    PROVE  loggerMu = t /\ \A u \in LogThreads \ {t} : ~Configures(u) /\ logPc[u] # "install"
<1>1. loggerMu = t
  BY DEF LogInv, Configuration
<1> SUFFICES ASSUME NEW u \in LogThreads \ {t}, Configures(u) PROVE FALSE
  BY <1>1 DEF Configures
<1>2. Configuration(u)
  BY DEF LogInv
<1> QED
  BY <1>1, <1>2 DEF Configuration

\* The instance changes while loggerMu is free and stays free.
LEMMA FreeChange ==
    ASSUME LogInv, loggerMu = NoThread, LogTypes',
           UNCHANGED <<loggerMu, logPc, target, overtaken>>,
           closedFiles' \ closedByCall' \subseteq closedFiles \ closedByCall,
           sink' \notin closedFiles' \ closedByCall'
    PROVE  LogInv'
<1>1. \A u \in LogThreads : ~Configures(u)
  BY FreeMeansNone
<1>2. \A u \in LogThreads : Configuration(u)'
  BY <1>1 DEF Configuration, Configures
<1>3. LinesReachOutput'
  BY DEF LogInv, LinesReachOutput
<1> QED
  BY <1>2, <1>3 DEF LogInv

LEMMA FreeChanges ==
    ASSUME LogInv, NEW t \in LogThreads,
           InitDefault(t) \/ (\E l \in {1, 2} : SetLevel(t, l)) \/ LogClose(t)
    PROVE  LogInv'
<1>1. loggerMu = NoThread /\ UNCHANGED <<loggerMu, logMu, logPc, call, target, overtaken, exited, opened>>
  BY DEF InitDefault, New, SetLevel, LogClose
<1>2. sink \notin closedFiles \ closedByCall /\ NoFile \notin opened /\ NoFile \notin closedFiles
  <2>1. LogTypes
    BY DEF LogInv
  <2>2. sink \notin closedFiles \ closedByCall
    BY <1>1, FreeMeansNone DEF LogInv
  <2> QED
    BY <2>1, <2>2, HandlesInOrder DEF LogTypes, LogTypeOK
<1>3. /\ LogTypes'
      /\ closedFiles' \ closedByCall' \subseteq closedFiles \ closedByCall
      /\ sink' \notin closedFiles' \ closedByCall'
  <2>1. CASE InitDefault(t)
    <3>1. UNCHANGED <<closedFiles, closedByCall>> /\ sink' = NoFile /\ file' = NoFile
          /\ level' \in Levels /\ initialized' \in BOOLEAN
      BY <2>1 DEF InitDefault, New, Levels, InfoLevel
    <3>2. LogTypes'
      BY <1>1, <3>1 DEF LogInv, LogTypes, LogTypeOK
    <3> QED
      BY <1>2, <3>1, <3>2
  <2>2. CASE \E l \in {1, 2} : SetLevel(t, l)
    <3>1. UNCHANGED <<closedFiles, closedByCall, sink, file, initialized>> /\ level' \in Levels
      BY <2>2 DEF SetLevel, Levels
    <3>2. LogTypes'
      BY <1>1, <3>1 DEF LogInv, LogTypes, LogTypeOK
    <3> QED
      BY <1>2, <3>1, <3>2
  <2>3. CASE LogClose(t)
    <3>1. /\ UNCHANGED <<initialized, level, sink, file>> /\ file # NoFile
          /\ closedFiles' = closedFiles \cup {file} /\ closedByCall' = closedByCall \cup {file}
      BY <2>3 DEF LogClose
    <3>2. LogTypes'
      BY <1>1, <3>1 DEF LogInv, LogTypes, LogTypeOK
    <3> QED
      BY <1>2, <3>1, <3>2
  <2> QED
    BY <2>1, <2>2, <2>3
<1> QED
  BY <1>1, <1>3, FreeChange

-----------------------------------------------------------------------------
\* A reconfiguration begins: whatever is on the way is overtaken.
LEMMA BeginConfigInv ==
    ASSUME LogInv, NEW t \in LogThreads, NEW o \in Outputs, NEW l \in {1, 2}, BeginConfig(t, o, l)
    PROVE  LogInv'
<1>p. PICK place : place = IF initialized THEN "reconfigure" ELSE "configure"
  OBVIOUS
<1>1. /\ loggerMu = NoThread /\ loggerMu' = t /\ call' = [call EXCEPT ![t] = o] /\ level' = l
      /\ overtaken' = [u \in LogThreads |-> overtaken[u] \/ logPc[u] \in {"enter", "formatted", "output"}]
      /\ logPc' = [logPc EXCEPT ![t] = place] /\ place \in {"configure", "reconfigure"}
      /\ o \in {"file", "both"} => CanOpen
      /\ UNCHANGED <<initialized, logMu, sink, file, opened, closedFiles, closedByCall, target, exited>>
  BY <1>p DEF BeginConfig, Goto
<1>2. /\ logPc'[t] = place /\ logPc' \in [LogThreads -> LogPlaces] /\ call'[t] = o
      /\ call' \in [LogThreads -> Levels \cup Outputs]
      /\ \A u \in LogThreads \ {t} : logPc'[u] = logPc[u]
  BY <1>1 DEF LogInv, LogTypes, LogPlaces
<1>3. \A u \in LogThreads : ~Configures(u) /\ logPc[u] # "install"
  BY <1>1, FreeMeansNone
<1>4. overtaken' \in [LogThreads -> BOOLEAN]
      /\ \A u \in LogThreads : overtaken'[u] <=> overtaken[u] \/ OnTheWay(u)
  BY <1>1 DEF LogInv, LogTypes, OnTheWay
<1>5. LogTypes'
  <2>1. LogTypeOK'
    BY <1>1 DEF LogInv, LogTypes, LogTypeOK, Levels
  <2> QED
    BY <1>1, <1>2, <1>4, <2>1 DEF LogInv, LogTypes
<1>6. ASSUME NEW u \in LogThreads PROVE Configuration(u)'
  <2>1. CASE u # t
    BY <1>2, <1>3, <2>1 DEF Configuration, Configures
  <2>2. CASE u = t
    <3>1. \A v \in LogThreads : OnTheWay(v)' => overtaken'[v]
      BY <1>1, <1>2, <1>4 DEF OnTheWay
    <3>2. o # "console" => CanOpen'
      BY <1>1 DEF Outputs, CanOpen, NextHandle
    <3> QED
      BY <1>1, <1>2, <2>2, <3>1, <3>2 DEF Configuration
  <2> QED
    BY <2>1, <2>2
<1>7. sink' \notin closedFiles' \ closedByCall'
  BY <1>1, <1>3 DEF LogInv
<1>8. LinesReachOutput'
  BY <1>1, <1>2, <1>4 DEF LogInv, LinesReachOutput
<1> QED
  BY <1>5, <1>6, <1>7, <1>8 DEF LogInv

\* A configuration ends, and with it all of them.
LEMMA ConfigEnds ==
    ASSUME LogInv, NEW t \in LogThreads, Configures(t), loggerMu' = NoThread, Goto(t, "idle"),
           UNCHANGED <<level, logMu, closedFiles, closedByCall, call, target, overtaken, exited>>,
           initialized' \in BOOLEAN, sink' = file', sink' \in opened' \cup {NoFile},
           opened \subseteq opened', opened' \subseteq Handles, \E n \in Nat : opened' = 1..n,
           sink' \notin closedFiles \ closedByCall
    PROVE  LogInv'
<1>1. logPc'[t] = "idle" /\ logPc' \in [LogThreads -> LogPlaces]
      /\ \A u \in LogThreads \ {t} : logPc'[u] = logPc[u]
  BY DEF Goto, LogInv, LogTypes, LogPlaces
<1>2. \A u \in LogThreads : ~Configures(u)'
  BY <1>1, OneConfigures DEF Configures
<1>3. LogTypes'
  <2>1. target \in [LogThreads -> opened' \cup {NoFile}]
    BY DEF LogInv, LogTypes
  <2>2. LogTypeOK'
    BY <2>1 DEF LogInv, LogTypes, LogTypeOK
  <2> QED
    BY <1>1, <2>1, <2>2 DEF LogInv, LogTypes
<1>4. LinesReachOutput'
  BY <1>1 DEF LogInv, LinesReachOutput
<1> QED
  BY <1>2, <1>3, <1>4 DEF LogInv, Configuration

LEMMA ConfigEndsInv ==
    ASSUME LogInv, NEW t \in LogThreads, ConfigCreates(t) \/ ConfigFails(t) \/ ConfigInstalls(t)
    PROVE  LogInv'
<1>t. /\ LogTypes /\ LogTypeOK /\ Configuration(t) /\ initialized \in BOOLEAN /\ sink = file
      /\ sink \in opened \cup {NoFile} /\ opened \subseteq Handles /\ closedFiles \subseteq opened
      /\ \E n \in Nat : opened = 1..n
  BY DEF LogInv, LogTypes, LogTypeOK
<1>o. NoFile \notin closedFiles /\ NextHandle \notin closedFiles
      /\ (CanOpen => opened \cup {NextHandle} \subseteq Handles)
      /\ \E n \in Nat : opened \cup {NextHandle} = 1..n
  BY <1>t, HandlesInOrder
<1>1. CASE ConfigCreates(t)
  <2>1. /\ logPc[t] = "configure" /\ loggerMu' = NoThread /\ Goto(t, "idle") /\ initialized' \in BOOLEAN
        /\ UNCHANGED <<level, logMu, closedFiles, closedByCall, call, target, overtaken, exited>>
    BY <1>1 DEF ConfigCreates
  <2>c. Configures(t)
    BY <2>1 DEF Configures
  <2>2. CASE call[t] = "console"
    <3>1. sink' = NoFile /\ file' = NoFile /\ opened' = opened
      BY <1>1, <2>2 DEF ConfigCreates, New
    <3> QED
      BY <1>t, <1>o, <2>1, <2>c, <3>1, ConfigEnds
  <2>3. CASE call[t] # "console"
    <3>1. sink' = NextHandle /\ file' = NextHandle /\ opened' = opened \cup {NextHandle}
      BY <1>1, <2>3 DEF ConfigCreates, NewFileLogger
    <3>2. CanOpen
      BY <1>t, <2>1, <2>3, <2>c DEF Configuration
    <3> QED
      BY <1>t, <1>o, <2>1, <2>c, <3>1, <3>2, ConfigEnds
  <2> QED
    BY <2>2, <2>3
<1>2. CASE ConfigFails(t)
  <2>1. /\ logPc[t] \in {"configure", "reconfigure"} /\ loggerMu' = NoThread /\ Goto(t, "idle")
        /\ UNCHANGED <<initialized, level, sink, file, opened,
                       logMu, closedFiles, closedByCall, call, target, overtaken, exited>>
    BY <1>2 DEF ConfigFails, instanceVars
  <2>c. Configures(t)
    BY <2>1 DEF Configures
  <2>2. \A u \in LogThreads : logPc[u] # "install"
    BY <2>1, <2>c, OneConfigures
  <2>3. sink \notin closedFiles \ closedByCall
    BY <2>2 DEF LogInv
  <2> QED
    BY <1>t, <2>1, <2>c, <2>3, ConfigEnds
<1>3. CASE ConfigInstalls(t)
  <2>1. /\ logPc[t] = "install" /\ loggerMu' = NoThread /\ Goto(t, "idle") /\ sink' = file'
        /\ UNCHANGED <<initialized, level, opened,
                       logMu, closedFiles, closedByCall, call, target, overtaken, exited>>
    BY <1>3 DEF ConfigInstalls
  <2>c. Configures(t)
    BY <2>1 DEF Configures
  <2>2. CASE call[t] = "console"
    <3>1. file' = NoFile
      BY <1>3, <2>2 DEF ConfigInstalls
    <3> QED
      BY <1>t, <1>o, <2>1, <2>c, <3>1, ConfigEnds
  <2>3. CASE call[t] # "console"
    <3>1. file' = Cardinality(opened)
      BY <1>3, <2>3 DEF ConfigInstalls
    <3>2. Cardinality(opened) \in opened \ closedFiles
      BY <1>t, <2>1, <2>3, <2>c DEF Configuration
    <3> QED
      BY <1>t, <2>1, <2>c, <3>1, <3>2, ConfigEnds
  <2> QED
    BY <2>2, <2>3
<1> QED
  BY <1>1, <1>2, <1>3

\* The old file is closed under lines that are all overtaken.
LEMMA ConfigClosesInv ==
    ASSUME LogInv, NEW t \in LogThreads, ConfigCloses(t)
    PROVE  LogInv'
<1>t. /\ LogTypes /\ LogTypeOK /\ Configuration(t) /\ file \in opened \cup {NoFile}
      /\ opened \subseteq Handles /\ closedFiles \subseteq opened /\ closedByCall \subseteq closedFiles
      /\ \E n \in Nat : opened = 1..n
  BY DEF LogInv, LogTypes, LogTypeOK
<1>1. /\ logPc[t] = "reconfigure" /\ logPc' = [logPc EXCEPT ![t] = "install"]
      /\ closedFiles' = closedFiles \cup ({file} \ {NoFile})
      /\ opened' = IF call[t] = "console" THEN opened ELSE opened \cup {NextHandle}
      /\ UNCHANGED <<initialized, loggerMu, logMu, level, sink, file, closedByCall,
                     call, target, overtaken, exited>>
  BY DEF ConfigCloses, Goto
<1>c. Configures(t)
  BY <1>1 DEF Configures
<1>2. /\ logPc'[t] = "install" /\ logPc' \in [LogThreads -> LogPlaces]
      /\ \A u \in LogThreads \ {t} : logPc'[u] = logPc[u]
  BY <1>1, <1>t DEF LogTypes, LogPlaces
<1>3. /\ loggerMu = t /\ call[t] \in Outputs /\ (call[t] # "console" => CanOpen)
      /\ \A u \in LogThreads : OnTheWay(u) => overtaken[u]
  BY <1>1, <1>c, <1>t DEF Configuration
<1>4. /\ opened \subseteq opened' /\ opened' \subseteq Handles /\ \E n \in Nat : opened' = 1..n
      /\ call[t] # "console" => Cardinality(opened') \in opened' \ closedFiles'
  <2>1. CASE call[t] = "console"
    BY <1>1, <1>t, <2>1
  <2>2. CASE call[t] # "console"
    <3>1. opened' = opened \cup {NextHandle} /\ CanOpen
      BY <1>1, <1>3, <2>2
    <3>2. Cardinality(opened') = NextHandle /\ NextHandle \notin opened /\ NextHandle # NoFile
          /\ NextHandle \in Handles /\ NextHandle \in Nat /\ opened' = 1..NextHandle
      BY <1>t, <3>1, HandlesInOrder
    <3>3. NextHandle \notin closedFiles'
      BY <1>1, <1>t, <3>2
    <3>4. (\E n \in Nat : opened' = 1..n) /\ opened' \subseteq Handles /\ opened \subseteq opened'
      BY <1>t, <3>1, <3>2
    <3>5. Cardinality(opened') \in opened' \ closedFiles'
      <4>1. NextHandle \in opened'
        BY <3>1
      <4> QED
        BY <3>2, <3>3, <4>1
    <3> QED
      BY <3>4, <3>5
  <2> QED
    BY <2>1, <2>2
<1>5. LogTypes'
  <2>1. target \in [LogThreads -> opened' \cup {NoFile}]
    BY <1>4, <1>t DEF LogTypes
  <2>2. closedFiles' \subseteq opened' /\ closedByCall' \subseteq closedFiles'
    BY <1>1, <1>4, <1>t
  <2>3. LogTypeOK'
    BY <1>1, <1>4, <1>t, <2>1, <2>2 DEF LogTypeOK
  <2> QED
    BY <1>1, <1>2, <1>4, <1>t, <2>1, <2>3 DEF LogTypes
<1>6. ASSUME NEW u \in LogThreads PROVE Configuration(u)'
  <2>1. CASE u # t
    <3>1. ~Configures(u)
      BY <1>c, <2>1, OneConfigures
    <3> QED
      BY <1>2, <2>1, <3>1 DEF Configuration, Configures
  <2>2. CASE u = t
    <3>1. \A v \in LogThreads : OnTheWay(v)' => overtaken'[v]
      BY <1>1, <1>2, <1>3 DEF OnTheWay
    <3> QED
      BY <1>1, <1>2, <1>3, <1>4, <2>2, <3>1 DEF Configuration
  <2> QED
    BY <2>1, <2>2
<1>7. LinesReachOutput'
  <2> SUFFICES ASSUME NEW u \in LogThreads, logPc'[u] = "output", ~overtaken'[u] PROVE FALSE
    BY DEF LinesReachOutput
  <2>1. u # t /\ logPc[u] = "output" /\ ~overtaken[u]
    BY <1>1, <1>2
  <2> QED
    BY <1>3, <2>1 DEF OnTheWay
<1> QED
  BY <1>2, <1>5, <1>6, <1>7 DEF LogInv

-----------------------------------------------------------------------------
LEMMA LogStepInv == LogInv /\ [LogNext]_logVars => LogInv'
<1> SUFFICES ASSUME LogInv, [LogNext]_logVars PROVE LogInv'
  OBVIOUS
<1>1. CASE UNCHANGED logVars
  BY <1>1 DEF logVars, instanceVars, LogInv, LogTypes, LogTypeOK, Configuration, Configures, OnTheWay,
              CanOpen, NextHandle, LinesReachOutput
<1>2. ASSUME NEW t \in LogThreads, LogProceeds(t) PROVE LogInv'
  BY <1>2, LinesInv, SelfLockInv, ConfigEndsInv, ConfigClosesInv DEF LogProceeds
<1>3. ASSUME NEW t \in LogThreads, LogCalls(t) PROVE LogInv'
  BY <1>3, LinesInv, BeginConfigInv, FreeChanges DEF LogCalls
<1> QED
  BY <1>1, <1>2, <1>3 DEF LogNext

LEMMA LogInvariant == LogSpec => []LogInv
BY LogInitInv, LogStepInv, PTL DEF LogSpec

(***************************************************************************)
(* The types of the logger; files are closed after they were opened.       *)
(***************************************************************************)
THEOREM LoggerTypeCorrect == LogSpec => []LogTypeOK
<1>1. LogInv => LogTypeOK
  BY DEF LogInv, LogTypes
<1> QED
  BY <1>1, LogInvariant, PTL

(***************************************************************************)
(* A line is lost in a closed file only after Close, or if it was on the   *)
(* way when a reconfiguration began (logger.go:236-255, 322-416).          *)
(***************************************************************************)
THEOREM LinesAlwaysReachOutput == LogSpec => []LinesReachOutput
<1>1. LogInv => LinesReachOutput
  BY DEF LogInv
<1> QED
  BY <1>1, LogInvariant, PTL

-----------------------------------------------------------------------------
(***************************************************************************)
(* The goroutine that waits for the lock it holds: GetLogger found no      *)
(* instance, keeps loggerMu and calls Init, which waits for loggerMu.      *)
(***************************************************************************)
SelfLocked(t) == logPc[t] = "self-locked"
LocksOut(t) == SelfLocked(t) => loggerMu = t /\ ~initialized

\* Nobody moves loggerMu while another has it, and who is self-locked makes no
\* step any more.
LEMMA LockedStays ==
    ASSUME LogInv, LogNext, NEW t \in LogThreads, SelfLocked(t), LocksOut(t)
    PROVE  SelfLocked(t)' /\ UNCHANGED <<loggerMu, initialized>>
<1>1. loggerMu = t /\ loggerMu # NoThread /\ ~initialized
  BY LogAssumption DEF LocksOut, LogAssumption, NoThread
<1>2. logPc \in [LogThreads -> LogPlaces] /\ ~Configures(t)
  BY DEF LogInv, LogTypes, Configures, SelfLocked
<1>3. \A u \in LogThreads : ~Configures(u)
  BY <1>1, <1>2, OneConfigures DEF LogInv, Configuration
<1>4. ASSUME NEW u \in LogThreads, LogProceeds(u) PROVE SelfLocked(t)' /\ UNCHANGED <<loggerMu, initialized>>
  <2>1. ~(GetLogger(u) \/ ConfigCreates(u) \/ ConfigFails(u) \/ ConfigCloses(u) \/ ConfigInstalls(u))
    BY <1>1, <1>3 DEF GetLogger, ConfigCreates, ConfigFails, ConfigCloses, ConfigInstalls, Configures
  <2>2. CASE LogDrops(u) \/ LogEnters(u)
    BY <1>2, <2>2 DEF LogDrops, LogEnters, Goto, SelfLocked
  <2>3. CASE LogTakesWriter(u) \/ LogOutputs(u)
    BY <1>2, <2>3 DEF LogTakesWriter, LogOutputs, Goto, SelfLocked
  <2> QED
    BY <1>4, <2>1, <2>2, <2>3 DEF LogProceeds
<1>5. ASSUME NEW u \in LogThreads, LogCalls(u) PROVE SelfLocked(t)' /\ UNCHANGED <<loggerMu, initialized>>
  <2>1. PICK l \in Levels : LogCall(u, l)
    BY <1>1, <1>5 DEF LogCalls, InitDefault, BeginConfig, SetLevel, LogClose
  <2> QED
    BY <1>2, <2>1 DEF LogCall, Goto, SelfLocked
<1> QED
  BY <1>4, <1>5 DEF LogNext

LEMMA LocksOutStep ==
    ASSUME LogInv, [LogNext]_logVars, NEW t \in LogThreads, LocksOut(t)
    PROVE  LocksOut(t)'
<1>1. CASE UNCHANGED logVars
  BY <1>1 DEF logVars, LocksOut, SelfLocked
<1>2. CASE LogNext /\ SelfLocked(t)
  BY <1>2, LockedStays DEF LocksOut
<1>3. CASE LogNext /\ ~SelfLocked(t) /\ SelfLocked(t)'
  <2>1. logPc \in [LogThreads -> LogPlaces]
    BY DEF LogInv, LogTypes
  <2>2. PICK u \in LogThreads : LogProceeds(u) \/ LogCalls(u)
    BY <1>3 DEF LogNext
  <2>3. \A place : Goto(u, place) /\ place # "self-locked" => ~SelfLocked(t)'
    BY <1>3, <2>1 DEF Goto, SelfLocked
  <2>4. UNCHANGED logPc => FALSE
    BY <1>3 DEF SelfLocked
  <2>5. ~LogCalls(u)
    BY <1>3, <2>3, <2>4 DEF LogCalls, LogCall, InitDefault, BeginConfig, SetLevel, LogClose
  <2>6. GetLogger(u)
    BY <1>3, <2>2, <2>3, <2>5 DEF LogProceeds, LogDrops, LogEnters, LogTakesWriter, LogOutputs,
       ConfigCreates, ConfigFails, ConfigCloses, ConfigInstalls
  <2>7. ~initialized /\ logPc' = [logPc EXCEPT ![u] = "self-locked"] /\ loggerMu' = u /\ ~initialized'
    BY <1>3, <2>3, <2>6 DEF GetLogger, Goto
  <2>8. u = t
    BY <1>3, <2>1, <2>7 DEF SelfLocked
  <2> QED
    BY <2>7, <2>8 DEF LocksOut
<1> QED
  BY <1>1, <1>2, <1>3 DEF LocksOut

\* One goroutine at most is self-locked.
Outlocked == \A t \in LogThreads : LocksOut(t)

LEMMA OutlockedInvariant == LogSpec => [](LogInv /\ Outlocked)
<1>1. LogInit => Outlocked
  BY DEF LogInit, Outlocked, LocksOut, SelfLocked
<1>2. LogInv /\ Outlocked /\ [LogNext]_logVars => Outlocked'
  BY LocksOutStep DEF Outlocked
<1> QED
  BY <1>1, <1>2, LogInvariant, PTL DEF LogSpec

(***************************************************************************)
(* Only a call made before there is an instance locks itself out           *)
(* (logger.go:421-430): a program that initialises the logger first, as    *)
(* main does, never meets it.                                              *)
(***************************************************************************)
THEOREM InitialisedNeverLocksOut ==
    LogSpec => [](initialized => \A t \in LogThreads : logPc[t] # "self-locked")
<1>1. Outlocked => (initialized => \A t \in LogThreads : logPc[t] # "self-locked")
  BY DEF Outlocked, LocksOut, SelfLocked
<1> QED
  BY <1>1, OutlockedInvariant, PTL

(***************************************************************************)
(* Once a goroutine is locked out it is so for ever, keeps loggerMu from   *)
(* all others, and the logger is never initialised.                        *)
(***************************************************************************)
THEOREM LockedOutForEver ==
    LogSpec => [][\A t \in LogThreads :
                    logPc[t] = "self-locked" =>
                      /\ logPc'[t] = "self-locked"
                      /\ loggerMu = t /\ loggerMu' = t
                      /\ ~initialized']_logVars
<1>1. LogInv /\ Outlocked /\ [LogNext]_logVars =>
        [\A t \in LogThreads :
           logPc[t] = "self-locked" => /\ logPc'[t] = "self-locked"
                                       /\ loggerMu = t /\ loggerMu' = t
                                       /\ ~initialized']_logVars
  <2> SUFFICES ASSUME LogInv, Outlocked, LogNext, NEW t \in LogThreads, SelfLocked(t)
               PROVE  SelfLocked(t)' /\ loggerMu = t /\ loggerMu' = t /\ ~initialized'
    BY DEF SelfLocked
  <2>1. loggerMu = t /\ ~initialized /\ LocksOut(t)
    BY DEF Outlocked, LocksOut
  <2> QED
    BY <2>1, LockedStays
<1> QED
  BY <1>1, OutlockedInvariant, PTL DEF LogSpec

-----------------------------------------------------------------------------
(***************************************************************************)
(* The two locks. Whoever holds one of them is where it can go on without  *)
(* the other, or is self-locked.                                           *)
(***************************************************************************)
HoldsLogMu(t) == logPc[t] \in {"formatted", "output"}
HoldsLoggerMu(t) == Configures(t) \/ SelfLocked(t)

Holders ==
    \A t \in LogThreads : /\ HoldsLogMu(t) <=> logMu = t
                          /\ HoldsLoggerMu(t) <=> loggerMu = t

\* A step of one goroutine, by what it does to the locks.
LEMMA HoldersStep ==
    ASSUME LogInv, Holders, NEW t \in LogThreads, NEW place \in LogPlaces, Goto(t, place),
           \/ /\ logMu' = logMu
              /\ place \in {"formatted", "output"} <=> HoldsLogMu(t)
           \/ logMu = NoThread /\ logMu' = t /\ place \in {"formatted", "output"}
           \/ HoldsLogMu(t) /\ logMu' = NoThread /\ place \notin {"formatted", "output"},
           \/ /\ loggerMu' = loggerMu
              /\ place \in {"configure", "reconfigure", "install", "self-locked"} <=> HoldsLoggerMu(t)
           \/ /\ loggerMu = NoThread /\ loggerMu' = t
              /\ place \in {"configure", "reconfigure", "install", "self-locked"}
           \/ /\ HoldsLoggerMu(t) /\ loggerMu' = NoThread
              /\ place \notin {"configure", "reconfigure", "install", "self-locked"}
    PROVE  Holders'
<1>1. logPc'[t] = place /\ \A u \in LogThreads \ {t} : logPc'[u] = logPc[u]
  BY DEF Goto, LogInv, LogTypes
<1>2. NoThread \notin LogThreads
  BY LogAssumption DEF LogAssumption, NoThread
<1> SUFFICES ASSUME NEW u \in LogThreads
             PROVE  (HoldsLogMu(u) <=> logMu = u)' /\ (HoldsLoggerMu(u) <=> loggerMu = u)'
  BY DEF Holders
<1>3. CASE u = t
  BY <1>1, <1>2, <1>3 DEF Holders, HoldsLogMu, HoldsLoggerMu, Configures, SelfLocked
<1>4. CASE u # t
  BY <1>1, <1>2, <1>4 DEF Holders, HoldsLogMu, HoldsLoggerMu, Configures, SelfLocked
<1> QED
  BY <1>3, <1>4

LEMMA HoldersNext ==
    ASSUME LogInv, Holders, [LogNext]_logVars
    PROVE  Holders'
<1> USE DEF HoldsLogMu, HoldsLoggerMu, Configures, SelfLocked, LogPlaces
<1>1. CASE UNCHANGED logVars
  BY <1>1 DEF logVars, Holders
<1>2. ASSUME NEW t \in LogThreads, LogProceeds(t) PROVE Holders'
  <2>1. CASE GetLogger(t)
    <3>1. CASE initialized
      BY <2>1, <3>1, HoldersStep DEF GetLogger
    <3>2. CASE ~initialized
      BY <2>1, <3>2, HoldersStep DEF GetLogger
    <3> QED
      BY <3>1, <3>2
  <2>2. CASE LogDrops(t)
    BY <2>2, HoldersStep DEF LogDrops
  <2>3. CASE LogEnters(t)
    BY <2>3, HoldersStep DEF LogEnters
  <2>4. CASE LogTakesWriter(t)
    BY <2>4, HoldersStep DEF LogTakesWriter
  <2>5. CASE LogOutputs(t)
    BY <2>5, HoldersStep DEF LogOutputs
  <2>6. CASE ConfigCreates(t)
    BY <2>6, HoldersStep DEF ConfigCreates
  <2>7. CASE ConfigFails(t)
    BY <2>7, HoldersStep DEF ConfigFails
  <2>8. CASE ConfigCloses(t)
    BY <2>8, HoldersStep DEF ConfigCloses
  <2>9. CASE ConfigInstalls(t)
    BY <2>9, HoldersStep DEF ConfigInstalls
  <2> QED
    BY <1>2, <2>1, <2>2, <2>3, <2>4, <2>5, <2>6, <2>7, <2>8, <2>9 DEF LogProceeds
<1>3. ASSUME NEW t \in LogThreads, LogCalls(t) PROVE Holders'
  <2>1. CASE \E l \in Levels : LogCall(t, l)
    BY <2>1, HoldersStep DEF LogCall
  <2>2. CASE \E o \in Outputs, l \in {1, 2} : BeginConfig(t, o, l)
    <3>1. /\ logPc[t] = "idle" /\ loggerMu = NoThread /\ loggerMu' = t /\ logMu' = logMu
          /\ Goto(t, IF initialized THEN "reconfigure" ELSE "configure")
      BY <2>2 DEF BeginConfig
    <3>2. CASE initialized
      BY <3>1, <3>2, HoldersStep
    <3>3. CASE ~initialized
      BY <3>1, <3>3, HoldersStep
    <3> QED
      BY <3>2, <3>3
  <2>3. CASE InitDefault(t) \/ (\E l \in {1, 2} : SetLevel(t, l)) \/ LogClose(t)
    BY <2>3 DEF InitDefault, SetLevel, LogClose, Holders
  <2> QED
    BY <1>3, <2>1, <2>2, <2>3 DEF LogCalls
<1> QED
  BY <1>1, <1>2, <1>3 DEF LogNext

(***************************************************************************)
(* The order of the locks: no goroutine has both; who has l.mu is writing  *)
(* a line, and who has loggerMu is reconfiguring, and neither waits for a  *)
(* lock there, but for the one goroutine locked out by GetLogger. So no    *)
(* two goroutines wait for each other (logger.go:193-255, 322-430).        *)
(***************************************************************************)
THEOREM LockHoldersGoOn ==
    LogSpec => []\A t \in LogThreads :
                   /\ logMu = t => logPc[t] \in {"formatted", "output"} /\ loggerMu # t
                   /\ loggerMu = t => logPc[t] \in {"configure", "reconfigure", "install", "self-locked"}
<1>1. LogInit => Holders
  BY LogAssumption
     DEF LogAssumption, NoThread, LogInit, Holders, HoldsLogMu, HoldsLoggerMu, Configures, SelfLocked
<1>2. LogInv /\ Holders /\ [LogNext]_logVars => Holders'
  BY HoldersNext
<1>3. Holders => \A t \in LogThreads :
                   /\ logMu = t => logPc[t] \in {"formatted", "output"} /\ loggerMu # t
                   /\ loggerMu = t => logPc[t] \in {"configure", "reconfigure", "install", "self-locked"}
  BY DEF Holders, HoldsLogMu, HoldsLoggerMu, Configures, SelfLocked
<1> QED
  BY <1>1, <1>2, <1>3, LogInvariant, PTL DEF LogSpec

-----------------------------------------------------------------------------
(***************************************************************************)
(* HANode, for any number of peers: Node.Start holds n.mu from its first   *)
(* line, and setState waits for it.                                        *)
(***************************************************************************)
HAHeld ==
    /\ starter \in {"idle", "failed", "heartbeat", "election", "switchover", "state", "setState"}
    /\ starter \notin {"idle", "failed"} <=> nodeMu = TRUE
    /\ nodeRunning <=> starter = "setState"
    /\ nodeState = "starting" /\ httpServer = FALSE

LEMMA HAHeldStep == HAHeld /\ [HANext]_haVars => HAHeld'
<1> SUFFICES ASSUME HAHeld, [HANext]_haVars PROVE HAHeld'
  OBVIOUS
<1> USE DEF HAHeld
<1>1. CASE UNCHANGED haVars
  BY <1>1 DEF haVars
<1>2. CASE StartEnters \/ HeartbeatStart \/ HeartbeatStartFails \/ ManagersStart \/ StateManagerStart
  BY <1>2 DEF StartEnters, HeartbeatStart, HeartbeatStartFails, ManagersStart, StateManagerStart
<1>3. CASE SetState \/ StartReturns \/ StartHTTPServer
  BY <1>3 DEF SetState, StartReturns, StartHTTPServer
<1>4. CASE Ticks \/ SendHeartbeats \/ CheckClusterState
  BY <1>4 DEF Ticks, SendHeartbeats, CheckClusterState
<1>5. CASE \E p \in Peers : ReceiveHeartbeat(p) \/ AnswerHeartbeat(p) \/ HeartbeatEnds(p)
  BY <1>5 DEF ReceiveHeartbeat, AnswerHeartbeat, HeartbeatEnds
<1> QED
  BY <1>1, <1>2, <1>3, <1>4, <1>5 DEF HANext, StartSteps

(***************************************************************************)
(* Node.Start returns an error or does not return: it never gets past      *)
(* setState (node.go:175), the node is never "normal", the management      *)
(* server is never started, and once the node says that it runs n.mu is    *)
(* held, so that no role is read and no heartbeat is answered any more.    *)
(***************************************************************************)
THEOREM HAStartNeverDone ==
    HASpec => [](/\ starter \notin {"return", "http", "started"}
                 /\ nodeState # "normal" /\ ~httpServer
                 /\ nodeRunning => nodeMu)
<1>1. HAInit => HAHeld
  BY DEF HAInit, HAHeld
<1>2. HAHeld => /\ starter \notin {"return", "http", "started"}
                /\ nodeState # "normal" /\ ~httpServer
                /\ nodeRunning => nodeMu
  BY DEF HAHeld
<1> QED
  BY <1>1, <1>2, HAHeldStep, PTL DEF HASpec

(***************************************************************************)
(* From there on nobody lets go of n.mu: that lock is held for ever.       *)
(***************************************************************************)
THEOREM HANodeLockedForEver ==
    HASpec => [][nodeRunning => /\ nodeRunning' /\ nodeMu'
                                /\ UNCHANGED <<starter, nodeState, httpServer>>]_haVars
<1>1. HAInit => HAHeld
  BY DEF HAInit, HAHeld
<1>2. HAHeld /\ HAHeld' /\ [HANext]_haVars =>
        [nodeRunning => /\ nodeRunning' /\ nodeMu'
                        /\ UNCHANGED <<starter, nodeState, httpServer>>]_haVars
  <2> SUFFICES ASSUME HAHeld, HAHeld', HANext, nodeRunning
               PROVE  UNCHANGED <<starter, nodeState, httpServer>>
    BY DEF HAHeld
  <2>1. ~StartSteps
    BY DEF HAHeld, StartSteps, StartEnters, HeartbeatStart, HeartbeatStartFails, ManagersStart,
           StateManagerStart, SetState, StartReturns, StartHTTPServer
  <2>2. CASE Ticks \/ SendHeartbeats \/ CheckClusterState
    BY <2>2 DEF Ticks, SendHeartbeats, CheckClusterState
  <2>3. CASE \E p \in Peers : ReceiveHeartbeat(p) \/ AnswerHeartbeat(p) \/ HeartbeatEnds(p)
    BY <2>3 DEF ReceiveHeartbeat, AnswerHeartbeat, HeartbeatEnds
  <2> QED
    BY <2>1, <2>2, <2>3 DEF HANext
<1> QED
  BY <1>1, <1>2, HAHeldStep, PTL DEF HASpec
=============================================================================
