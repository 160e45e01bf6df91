------------------------------- MODULE Logger -------------------------------
(***************************************************************************)
(* The global logger of pkg/logger/logger.go: the lock loggerMu around the  *)
(* instance, the lock l.mu inside it, and InitWithConfig, which changes the *)
(* instance under the first lock while other goroutines write lines under   *)
(* the second.  The text of a line is left out; where it goes is not.       *)
(***************************************************************************)
EXTENDS Integers, FiniteSets

CONSTANTS
    LogThreads, \* goroutines that log, configure or close
    LogMaxOpens \* bound: log files opened in one behaviour

ASSUME LogAssumption == LogMaxOpens \in Nat /\ "none" \notin LogThreads

Levels == 1..3
InfoLevel == 1
FatalLevel == 3
Outputs == {"console", "file", "both"}
NoThread == "none"
NoFile == 0
Handles == 1..LogMaxOpens

VARIABLES
    initialized, \* initialized and defaultLogger # nil
    loggerMu,    \* holder of loggerMu
    logMu,       \* holder of defaultLogger.mu
    level,       \* defaultLogger.level
    sink,        \* the file defaultLogger.logger writes to, or NoFile: stderr only
    file,        \* defaultLogger.file
    opened,      \* handles opened so far
    closedFiles, \* handles closed so far
    closedByCall,\* history: those that a call of Close closed
    logPc,       \* where each goroutine is
    call,        \* its argument: a level or an output
    target,      \* the writer its line goes to
    overtaken,   \* history: its line was on the way when a reconfiguration began
    exited       \* Fatal has ended the process

logVars == <<initialized, loggerMu, logMu, level, sink, file, opened, closedFiles,
             closedByCall, logPc, call, target, overtaken, exited>>
instanceVars == <<level, sink, file, opened, closedFiles, closedByCall>>

LogInit ==
    /\ initialized = FALSE
    /\ loggerMu = NoThread /\ logMu = NoThread
    /\ level = InfoLevel
    /\ sink = NoFile /\ file = NoFile
    /\ opened = {} /\ closedFiles = {} /\ closedByCall = {}
    /\ logPc = [t \in LogThreads |-> "idle"]
    /\ call = [t \in LogThreads |-> InfoLevel]
    /\ target = [t \in LogThreads |-> NoFile]
    /\ overtaken = [t \in LogThreads |-> FALSE]
    /\ exited = FALSE

Goto(t, place) == logPc' = [logPc EXCEPT ![t] = place]

-----------------------------------------------------------------------------
\* Writing a line.

\* Debug to Fatal: a call with a level.
LogCall(t, l) ==
    /\ logPc[t] = "idle"
    /\ call' = [call EXCEPT ![t] = l]
    /\ Goto(t, "get")
    /\ UNCHANGED <<initialized, loggerMu, logMu, instanceVars, target, overtaken, exited>>

\* GetLogger passes through loggerMu; without an instance it calls Init with
\* the lock held, and Init waits for that lock for ever.
GetLogger(t) ==
    /\ logPc[t] = "get"
    /\ loggerMu = NoThread
    /\ IF initialized
       THEN Goto(t, "enter") /\ UNCHANGED loggerMu
       ELSE Goto(t, "self-locked") /\ loggerMu' = t
    /\ UNCHANGED <<initialized, logMu, instanceVars, call, target, overtaken, exited>>

\* log drops a line below the level.
LogDrops(t) ==
    /\ logPc[t] = "enter"
    /\ logMu = NoThread
    /\ call[t] < level
    /\ overtaken' = [overtaken EXCEPT ![t] = FALSE]
    /\ Goto(t, "idle")
    /\ UNCHANGED <<initialized, loggerMu, logMu, instanceVars, call, target, exited>>

\* log takes l.mu and formats the line.
LogEnters(t) ==
    /\ logPc[t] = "enter"
    /\ logMu = NoThread
    /\ call[t] >= level
    /\ logMu' = t
    /\ Goto(t, "formatted")
    /\ UNCHANGED <<initialized, loggerMu, instanceVars, call, target, overtaken, exited>>

\* log reads l.logger for the call of Output.
LogTakesWriter(t) ==
    /\ logPc[t] = "formatted"
    /\ target' = [target EXCEPT ![t] = sink]
    /\ Goto(t, "output")
    /\ UNCHANGED <<initialized, loggerMu, logMu, instanceVars, call, overtaken, exited>>

\* Output writes the line, whatever became of the file; Fatal ends the process.
LogOutputs(t) ==
    /\ logPc[t] = "output"
    /\ exited' = (call[t] = FatalLevel)
    /\ logMu' = NoThread
    /\ overtaken' = [overtaken EXCEPT ![t] = FALSE]
    /\ Goto(t, "idle")
    /\ UNCHANGED <<initialized, loggerMu, instanceVars, call, target>>

-----------------------------------------------------------------------------
\* Making and changing the instance.

NextHandle == Cardinality(opened) + 1
CanOpen == NextHandle \in Handles

\* New: an instance that writes to stderr and has no file.
New ==
    /\ sink' = NoFile /\ file' = NoFile
    /\ UNCHANGED opened

\* NewFileLogger: an instance that writes to the file it opens (for "both" the
\* writer is replaced by one to stderr and the file).
NewFileLogger ==
    /\ opened' = opened \cup {NextHandle}
    /\ sink' = NextHandle /\ file' = NextHandle

\* Init: the first call makes an instance that writes to stderr.
InitDefault(t) ==
    /\ logPc[t] = "idle"
    /\ loggerMu = NoThread
    /\ ~initialized
    /\ initialized' = TRUE
    /\ level' = InfoLevel
    /\ New
    /\ UNCHANGED <<loggerMu, logMu, closedFiles, closedByCall,
                   logPc, call, target, overtaken, exited>>

\* InitWithConfig takes loggerMu; an instance that exists gets the new level
\* and format at once, before any file is opened.
BeginConfig(t, output, l) ==
    /\ logPc[t] = "idle"
    /\ loggerMu = NoThread
    /\ output \in {"file", "both"} => CanOpen
    /\ loggerMu' = t
    /\ call' = [call EXCEPT ![t] = output]
    /\ level' = l
    /\ overtaken' = [u \in LogThreads |-> overtaken[u] \/ logPc[u] \in {"enter", "formatted", "output"}]
    /\ Goto(t, IF initialized THEN "reconfigure" ELSE "configure")
    /\ UNCHANGED <<initialized, logMu, sink, file, opened, closedFiles, closedByCall, target, exited>>

\* Without an instance: New or NewFileLogger makes one.
ConfigCreates(t) ==
    /\ logPc[t] = "configure"
    /\ IF call[t] = "console" THEN New ELSE NewFileLogger
    /\ initialized' = TRUE
    /\ loggerMu' = NoThread
    /\ Goto(t, "idle")
    /\ UNCHANGED <<logMu, level, closedFiles, closedByCall, call, target, overtaken, exited>>

\* The bug of an error path that leaves the lock behind.
ConfigFailsLocked(t) ==
    /\ logPc[t] \in {"configure", "reconfigure"}
    /\ call[t] # "console"
    /\ Goto(t, "idle")
    /\ UNCHANGED <<initialized, loggerMu, logMu, instanceVars, call, target, overtaken, exited>>

\* The file cannot be opened: an error is returned, and the new level stays.
ConfigFails(t) ==
    /\ logPc[t] \in {"configure", "reconfigure"}
    /\ call[t] # "console"
    /\ loggerMu' = NoThread
    /\ Goto(t, "idle")
    /\ UNCHANGED <<initialized, logMu, instanceVars, call, target, overtaken, exited>>

\* The new file, if any, is opened and the old one closed.  defaultLogger.file
\* is still the closed one until the next step, and so is the writer.
ConfigCloses(t) ==
    /\ logPc[t] = "reconfigure"
    /\ closedFiles' = closedFiles \cup ({file} \ {NoFile})
    /\ opened' = IF call[t] = "console" THEN opened ELSE opened \cup {NextHandle}
    /\ Goto(t, "install")
    /\ UNCHANGED <<initialized, loggerMu, logMu, level, sink, file, closedByCall,
                   call, target, overtaken, exited>>

\* The bug of a console output that forgets to replace the writer.
ConfigInstallsFileOnly(t) ==
    /\ logPc[t] = "install"
    /\ file' = IF call[t] = "console" THEN NoFile ELSE Cardinality(opened)
    /\ sink' = IF call[t] = "console" THEN sink ELSE file'
    /\ loggerMu' = NoThread
    /\ Goto(t, "idle")
    /\ UNCHANGED <<initialized, logMu, level, opened, closedFiles, closedByCall,
                   call, target, overtaken, exited>>

\* The writer and the file are replaced and loggerMu is released.
ConfigInstalls(t) ==
    /\ logPc[t] = "install"
    /\ file' = IF call[t] = "console" THEN NoFile ELSE Cardinality(opened)
    /\ sink' = file'
    /\ loggerMu' = NoThread
    /\ Goto(t, "idle")
    /\ UNCHANGED <<initialized, logMu, level, opened, closedFiles, closedByCall,
                   call, target, overtaken, exited>>

\* SetLevel on the instance GetLogger returned.
SetLevel(t, l) ==
    /\ logPc[t] = "idle"
    /\ initialized
    /\ loggerMu = NoThread /\ logMu = NoThread
    /\ level' = l
    /\ UNCHANGED <<initialized, loggerMu, logMu, sink, file, opened, closedFiles, closedByCall,
                   logPc, call, target, overtaken, exited>>

\* Close on the instance closes the file and keeps writing to it.
LogClose(t) ==
    /\ logPc[t] = "idle"
    /\ initialized
    /\ loggerMu = NoThread /\ logMu = NoThread
    /\ file # NoFile
    /\ closedFiles' = closedFiles \cup {file}
    /\ closedByCall' = closedByCall \cup {file}
    /\ UNCHANGED <<initialized, loggerMu, logMu, level, sink, file, opened,
                   logPc, call, target, overtaken, exited>>

-----------------------------------------------------------------------------
\* The goroutine t goes on with the call it is in.
LogProceeds(t) ==
    /\ ~exited
    /\ \/ GetLogger(t) \/ LogDrops(t) \/ LogEnters(t) \/ LogTakesWriter(t) \/ LogOutputs(t)
       \/ ConfigCreates(t) \/ ConfigFails(t) \/ ConfigCloses(t) \/ ConfigInstalls(t)

LogCalls(t) ==
    /\ ~exited
    /\ \/ \E l \in Levels : LogCall(t, l)
       \/ InitDefault(t)
       \/ \E o \in Outputs, l \in {1, 2} : BeginConfig(t, o, l)
       \/ \E l \in {1, 2} : SetLevel(t, l)
       \/ LogClose(t)

LogNext == \E t \in LogThreads : LogProceeds(t) \/ LogCalls(t)

\* A goroutine that can go on does; a mutex is not kept from a goroutine that
\* waits for it (Go's mutexes turn fair after a millisecond), hence the strong
\* fairness where two of them are taken.
LogFairness ==
    \A t \in LogThreads :
        /\ WF_logVars(LogProceeds(t))
        /\ SF_logVars(~exited /\ GetLogger(t))
        /\ SF_logVars(~exited /\ (LogDrops(t) \/ LogEnters(t)))

LogSpec == LogInit /\ [][LogNext]_logVars /\ LogFairness

-----------------------------------------------------------------------------
\* Type invariant of the logger.
LogTypeOK ==
    /\ initialized \in BOOLEAN /\ exited \in BOOLEAN
    /\ loggerMu \in LogThreads \cup {NoThread}
    /\ logMu \in LogThreads \cup {NoThread}
    /\ level \in Levels
    /\ sink \in opened \cup {NoFile} /\ file \in opened \cup {NoFile}
    /\ opened \subseteq Handles
    /\ closedByCall \subseteq closedFiles /\ closedFiles \subseteq opened
    /\ \A t \in LogThreads : target[t] \in opened \cup {NoFile}

\* A line is lost in a closed file only if Close closed it, or if the call had
\* passed GetLogger when a reconfiguration began: those that wait for loggerMu
\* meanwhile, and all later ones, go to the new output.
\* (l.logger is read at logger.go:250 under l.mu, and replaced at 341-374
\* under loggerMu alone.)
LinesReachOutput ==
    \A t \in LogThreads :
        logPc[t] = "output" /\ ~overtaken[t] => target[t] \notin closedFiles \ closedByCall

\* Once there is an instance every call of a logging function returns, or a
\* Fatal ends the process, whatever reconfigurations fail meanwhile.
\* (loggerMu and l.mu are released on every path, logger.go:193-255, 322-416.)
LogCallsReturn ==
    \A t \in LogThreads :
        (initialized /\ logPc[t] = "get") ~> (logPc[t] = "idle" \/ exited)
=============================================================================
