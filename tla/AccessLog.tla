----------------------------- MODULE AccessLog -----------------------------
(***************************************************************************)
(* The daemon's life (CallFwd.cpp) and its access log (AccessLog.cpp): the *)
(* main thread starts the control socket, binds, opens the log, serves,    *)
(* reopens the log on SIGHUP and, on SIGTERM, stops the workers and closes *)
(* it; the workers answer HTTP and SIP requests and hand each line to the  *)
(* writer that a hazard pointer protects.  A writer has a thread of its    *)
(* own that puts the lines into the file it has open (AsyncFileWriter).    *)
(* logrotate moves the file away before it sends SIGHUP.                   *)
(***************************************************************************)
EXTENDS Naturals, FiniteSets

CONSTANTS
  Requests,   \* requests, each with its line in the log
  Sip,        \* those that come by SIP
  Null,       \* a null pointer; the main thread is not in signalReceived
  MaxRotate   \* bound: times the file is moved away, or SIGHUP is sent

ASSUME AccessLogAssumption == Sip \subseteq Requests /\ MaxRotate \in Nat

Writers == 1..(MaxRotate + 1)
Inodes == 0..MaxRotate

VARIABLES
  phase,      \* where main() is
  flag,       \* FLAGS_access_log is not empty
  inode,      \* the file that has the log's name
  hups,       \* SIGHUPs so far
  accessLog,  \* the writer in use
  veteran,    \* the writer the main thread has replaced and not yet retired
  writer,     \* writer[w]: "unused", "open", "retired" or "closed"
  file,       \* file[w]: the file it has open
  queue,      \* queue[w]: lines it has taken and not written
  disk,       \* disk[i]: lines in file i
  pc,         \* pc[r]: where request r is
  held        \* held[r]: the writer its hazard pointer protects

main == <<phase, flag, inode, hups, accessLog, veteran>>
log == <<writer, file, queue, disk>>
vars == <<main, log, pc, held>>

Init ==
  /\ phase = "init" /\ flag \in BOOLEAN
  /\ inode = 0 /\ hups = 0 /\ accessLog = Null /\ veteran = Null
  /\ writer = [w \in Writers |-> "unused"]
  /\ file = [w \in Writers |-> 0] /\ queue = [w \in Writers |-> {}]
  /\ disk = [i \in Inodes |-> {}]
  /\ pc = [r \in Requests |-> "none"] /\ held = [r \in Requests |-> Null]

-----------------------------------------------------------------------------
(* main()                                                                  *)

\* startControlSocket() and the binding of the SIP and HTTP sockets, which
\* throws, and ends the process, if an address is taken.
Bind ==
  /\ phase = "init"
  /\ phase' \in {"bound", "exited"}
  /\ UNCHANGED <<flag, inode, hups, accessLog, veteran, log, pc, held>>

\* The AccessLogWriter of a new recruit opens the file of that name.
Recruit(w) ==
  /\ writer[w] = "unused" /\ \A v \in 1..(w - 1) : writer[v] # "unused"
  /\ writer' = [writer EXCEPT ![w] = "open"]
  /\ file' = [file EXCEPT ![w] = inode]
  /\ UNCHANGED <<queue, disk>>

\* signalReceived up to the exchange.  Without a name in the flags, or if the
\* file cannot be opened, everything stays as it is.
Exchange ==
  /\ veteran = Null
  /\ \/ UNCHANGED <<accessLog, veteran, log>>
     \/ /\ flag
        /\ \E w \in Writers : Recruit(w) /\ accessLog' = w
        /\ veteran' = accessLog

\* makeAccessLogRotator, and then server.start().
StartServing ==
  /\ phase = "bound"
  /\ Exchange
  /\ phase' = "serving"
  /\ UNCHANGED <<flag, inode, hups, pc, held>>

\* SIGHUP, handled in the main event loop.
signalReceived ==
  /\ phase = "serving" /\ hups < MaxRotate
  /\ hups' = hups + 1
  /\ Exchange
  /\ UNCHANGED <<phase, flag, inode, pc, held>>

\* Mutant: the writer is deleted at once, whoever protects it.
Retire_Deletes(w) == writer' = [writer EXCEPT ![w] = "closed"]

\* retire() leaves the writer to the hazard pointers.
Retire(w) == writer' = [writer EXCEPT ![w] = "retired"]

\* veteran->flush() waits for the lines taken so far; requests that protect the
\* veteran may hand it more.
FlushAndRetire ==
  /\ veteran # Null /\ queue[veteran] = {}
  /\ Retire(veteran)
  /\ veteran' = Null
  /\ UNCHANGED <<phase, flag, inode, hups, accessLog, file, queue, disk, pc, held>>

\* SIGINT or SIGTERM: server.start() returns once the workers have ended.
Join ==
  /\ phase = "serving" /\ veteran = Null
  /\ \A r \in Requests : pc[r] \in {"none", "over", "missed"}
  /\ phase' = "joined"
  /\ UNCHANGED <<flag, inode, hups, accessLog, veteran, log, pc, held>>

\* The SIP sockets are closed and ~AccessLogRotator runs.
CloseLog ==
  /\ phase = "joined"
  /\ phase' = "closing"
  /\ accessLog' = Null /\ veteran' = accessLog
  /\ UNCHANGED <<flag, inode, hups, log, pc, held>>

\* The end of main(): the hazard-pointer domain reclaims what is retired.
Exit ==
  /\ phase = "closing" /\ veteran = Null
  /\ \A w \in Writers : writer[w] # "retired"
  /\ phase' = "exited"
  /\ UNCHANGED <<flag, inode, hups, accessLog, veteran, log, pc, held>>

-----------------------------------------------------------------------------
(* Requests.                                                               *)

\* AccessLogHandlerFactory::onRequest: an HTTP request that arrives without a
\* writer has no log filter.  A SIPHandler always has its formatter.
Arrive(r) ==
  /\ phase = "serving" /\ pc[r] = "none"
  /\ pc' = [pc EXCEPT ![r] = IF r \notin Sip /\ accessLog = Null THEN "unlogged" ELSE "logged"]
  /\ UNCHANGED <<main, log, held>>

\* The connection breaks, or there is nothing to log.
Abort(r) ==
  /\ pc[r] = "unlogged" \/ (pc[r] = "logged" /\ r \notin Sip)
  /\ pc' = [pc EXCEPT ![r] = "over"]
  /\ UNCHANGED <<main, log, held>>

\* AccessLogHandler::requestComplete, or the end of onDataAvailable, calls
\* AccessLogFormatter::onResponse: get_protected(accessLog) ...
onResponse(r) ==
  /\ pc[r] = "logged"
  /\ held' = [held EXCEPT ![r] = accessLog]
  /\ pc' = [pc EXCEPT ![r] = IF accessLog = Null THEN "missed" ELSE "protected"]
  /\ UNCHANGED <<main, log>>

\* ... and writeMessage; a writer that is no more takes no line.
writeMessage(r) ==
  /\ pc[r] = "protected"
  /\ queue' = [queue EXCEPT ![held[r]] = IF writer[held[r]] = "closed" THEN @ ELSE @ \cup {r}]
  /\ held' = [held EXCEPT ![r] = Null]
  /\ pc' = [pc EXCEPT ![r] = "over"]
  /\ UNCHANGED <<main, writer, file, disk>>

-----------------------------------------------------------------------------
(* Writers and the file system.                                            *)

Drain(w) ==
  /\ disk' = [disk EXCEPT ![file[w]] = @ \cup queue[w]]
  /\ queue' = [queue EXCEPT ![w] = {}]

\* AsyncFileWriter's thread.
WriteOut(w) ==
  /\ phase # "exited" /\ queue[w] # {}
  /\ Drain(w)
  /\ UNCHANGED <<main, writer, file, pc, held>>

\* A retired writer that nobody protects is destroyed; it writes what it has.
Reclaim(w) ==
  /\ phase # "exited" /\ writer[w] = "retired"
  /\ \A r \in Requests : held[r] # w
  /\ writer' = [writer EXCEPT ![w] = "closed"]
  /\ Drain(w)
  /\ UNCHANGED <<main, file, pc, held>>

\* logrotate gives the file another name.
MoveAway ==
  /\ inode < MaxRotate
  /\ inode' = inode + 1
  /\ UNCHANGED <<phase, flag, hups, accessLog, veteran, log, pc, held>>

-----------------------------------------------------------------------------
Over == phase = "exited" /\ UNCHANGED vars

Worker(r) == onResponse(r) \/ writeMessage(r)

Next ==
  \/ Bind \/ StartServing \/ signalReceived \/ FlushAndRetire \/ Join \/ CloseLog \/ Exit
  \/ MoveAway \/ Over
  \/ \E r \in Requests : Arrive(r) \/ Abort(r) \/ Worker(r)
  \/ \E w \in Writers : WriteOut(w) \/ Reclaim(w)

Spec == Init /\ [][Next]_vars

\* Workers and writers go on with what they have begun; the main thread, a
\* signal or a client need do nothing.
FairSpec ==
  /\ Spec
  /\ \A r \in Requests : WF_vars(writeMessage(r))
  /\ \A w \in Writers : WF_vars(WriteOut(w))

-----------------------------------------------------------------------------
(* Properties.                                                             *)

InFile(r) == \E i \in Inodes : r \in disk[i]

\* README: "All request are logged to file".  The line of every request that has
\* a log filter and is answered reaches a file, whenever the file is moved, the
\* log reopened (or not, because that fails) or the daemon stopped meanwhile; a
\* SIP request has a line if there is a log when it is answered.
LinesReachTheFile ==
  \A r \in Requests :
    (pc[r] = "protected" \/ (pc[r] = "missed" /\ r \notin Sip)) ~> InFile(r)

=============================================================================
