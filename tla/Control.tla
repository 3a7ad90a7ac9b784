------------------------------- MODULE Control -------------------------------
(***************************************************************************)
(* The control plane: callfwdctl processes send one datagram each, with    *)
(* open descriptors attached, to the systemd socket of the daemon; the     *)
(* control thread receives them one at a time and starts a detached thread *)
(* per command; that thread loads, verifies, dumps or reports, answers     *)
(* with one character and closes the descriptors.  A daemon that crashes   *)
(* loses its memory, is restarted by systemd, and finds the datagrams that *)
(* were still queued on the socket.                                        *)
(*                                                                         *)
(* A file is known by the client that sent it.                             *)
(***************************************************************************)
EXTENDS Naturals, Sequences, FiniteSetsExt

CONSTANTS
  Clients,    \* runs of callfwdctl
  Requests,   \* the requests they may send, see Request
  Fds,        \* descriptor numbers of the daemon left for passed descriptors
  Links,      \* paths of "current" links
  Old,        \* the file that a link named before
  Nothing     \* no file, no descriptor, no link

Parsers ==  \* what reading a file may throw: see the loaders below
  {"good", "runtime_error", "logic_error"}

Globals == {"US", "CA", "DNC", "DNO", "TollFree", "ACL", "Lerg", "Youmail",
            "Geo", "Ftc", "404", "606"}

\* by is the program that sends the request; form tells well-formed datagrams
\* from the ones operator() gives up on and from JSON that dispatch() cannot
\* use (no "cmd", a descriptor index out of range); cmd is a command of dispatch(); db is
\* the mapping it is about; file is what reading the passed file does; link is the
\* path that callfwdctl moves to the file after: it was called with --update and
\* has found a candidate.
Request ==
  [by : {"callfwdctl", "other"}, form : {"ok", "notjson", "unnamed", "badarg"},
   cmd : {"load", "verify", "dump", "meta", "other"},
   db : Globals, file : Parsers, link : Links \cup {Nothing}]

\* The subcommands of callfwdctl: what each asks dispatch() to do, and about
\* which mappings.  reload, verify and dump take the country as an option.
Sub(name, cmd, dbs) == [name |-> name, cmd |-> cmd, dbs |-> dbs]
Subcommands ==
  {Sub("reload", "load", {"US", "CA"}), Sub("dnc_reload", "load", {"DNC"}),
   Sub("dno_reload", "load", {"DNO"}), Sub("dno_npa_reload", "load", {"DNO"}),
   Sub("dno_npa_nxx_reload", "load", {"DNO"}), Sub("dno_npa_nxx_x_reload", "load", {"DNO"}),
   Sub("tollfree_reload", "load", {"TollFree"}), Sub("lerg_reload", "load", {"Lerg"}),
   Sub("youmail_reload", "load", {"Youmail"}), Sub("geo_reload", "load", {"Geo"}),
   Sub("ftc_reload", "load", {"Ftc"}), Sub("404_reload", "load", {"404"}),
   Sub("606_reload", "load", {"606"}), Sub("acl", "load", {"ACL"}),
   Sub("verify", "verify", {"US", "CA"}), Sub("dump", "dump", {"US", "CA"}),
   Sub("status", "meta", Globals)}

ASSUME ControlAssumption ==
  /\ Requests \subseteq Request
  /\ \A q \in Requests : q.by = "callfwdctl" =>
       q.form = "ok" /\ \E s \in Subcommands : q.cmd = s.cmd /\ q.db \in s.dbs
  /\ \A q \in Requests : q.link # Nothing =>
       q.by = "callfwdctl" /\ q.cmd = "load" /\ q.db # "ACL"
  /\ Fds \subseteq Nat
  /\ IsFiniteSet(Fds) /\ IsFiniteSet(Clients)
  /\ Cardinality(Fds) >= 2 * Cardinality(Clients)   \* room for every request
  /\ Nothing \notin Links /\ Nothing \notin Clients \cup {Old} \cup Fds \cup (Clients \X {"in", "out", "err"})

VARIABLES
  up,         \* the daemon is running
  crashed,    \* it has crashed before (history)
  cli,        \* cli[c]: "new", "raised", "waiting", the answer "S" or "F", see Linking
  req,        \* req[c]: what c asked for
  inbox,      \* datagrams queued on the socket
  fdtab,      \* fdtab[n]: the description n refers to: <<client, role>>
  argfd_,     \* descriptors of the last datagram that had any
  wpc,        \* wpc[c]: where the thread that serves c is
  argfd,      \* argfd[c]: its copy of argfd_, shrinking as it closes them
  sink,       \* sink[c]: the descriptor its FdLogSink writes to
  snap,       \* snap[c]: what the mapping object of verify or dump refers to
  opened,     \* opened[c]: the description its command has opened
  status,     \* status[c]: the answer it is about to send
  global,     \* global[d]: the client whose file mapping d holds
  installed,  \* <<client, db>> for every commit so far (history)
  soiled,     \* descriptions that are no stderr and got a log line (history)
  link,       \* link[l]: the file that the symbolic link l names
  gone,       \* files that are named by a link and no longer there
  alone       \* reloads that no other one has interfered with (history)

daemon == <<fdtab, argfd_, wpc, argfd, sink, snap, opened, status, global>>
disk == <<link, gone, alone>>
vars == <<up, crashed, cli, req, inbox, daemon, installed, soiled, disk>>

\* The descriptors callfwdctl attaches, in order; the last is its stderr.
Roles(q) == CASE q.cmd \in {"load", "verify"} -> <<"in", "err">>
              [] q.cmd = "dump" -> <<"out", "err">>
              [] OTHER -> <<"err">>

Init ==
  /\ up = TRUE /\ crashed = FALSE
  /\ cli = [c \in Clients |-> "new"]
  /\ req \in [Clients -> Requests]
  /\ inbox = <<>>
  /\ fdtab = [n \in Fds |-> Nothing]
  /\ argfd_ = <<>>
  /\ wpc = [c \in Clients |-> "none"]
  /\ argfd = [c \in Clients |-> <<>>]
  /\ sink = [c \in Clients |-> Nothing]
  /\ snap = [c \in Clients |-> Nothing]
  /\ opened = [c \in Clients |-> Nothing]
  /\ status = [c \in Clients |-> "F"]
  /\ global = [d \in Globals |-> Nothing]
  /\ installed = {}
  /\ soiled = {}
  /\ link \in [Links -> {Old, Nothing}]
  /\ gone = {}
  /\ alone = {}

-----------------------------------------------------------------------------
(* callfwdctl.                                                             *)

\* The steps behind the answer S to a reload that has a link to move: what it does
\* next, and how it ended.
Linking == {"unlink", "symlink", "linked", "linkraised"}

\* Two reloads that are about the same mapping or move the same link.
Conflict(b, c) ==
  /\ b # c /\ req[b].cmd = "load" /\ req[c].cmd = "load"
  /\ req[b].db = req[c].db \/ (req[b].link = req[c].link /\ req[b].link # Nothing)

\* Its datagram waits on the socket; its thread has not begun to close descriptors.
Queued(c) == \E i \in DOMAIN inbox : inbox[i] = c
Working == {"begin", "command", "opened", "answer"}

\* Reload b still has something to do, here or in the daemon.
UnderWay(b) ==
  \/ Queued(b)
  \/ wpc[b] \in Working
  \/ cli[b] \in {"S", "unlink", "symlink"} /\ req[b].link # Nothing

\* Reload c starts: those it conflicts with have been interfered with, and it has
\* if one of them is still under way.
Interfere(c) ==
  alone' = {b \in alone : ~Conflict(b, c)}
             \cup {b \in {c} : req[c].cmd = "load" /\ \A a \in Clients : Conflict(a, c) => ~UnderWay(a)}

\* _make_request: one datagram, then wait for the answer without a timeout.
MakeRequest(c) ==
  /\ cli[c] = "new"
  /\ ~(req[c].by = "callfwdctl" /\ req[c].cmd = "verify")
  /\ cli' = [cli EXCEPT ![c] = "waiting"]
  /\ inbox' = Append(inbox, c)
  /\ Interfere(c)
  /\ UNCHANGED <<up, crashed, req, daemon, installed, soiled, link, gone>>

\* os.path.exists follows the link.
Exists(l) == link[l] \notin gone \cup {Nothing}

\* Mutant: the link is not removed before it is made.
TestLink_NoUnlink(c) ==
  /\ req[c].link # Nothing /\ cli[c] = "S"
  /\ cli' = [cli EXCEPT ![c] = "symlink"]
  /\ UNCHANGED <<up, crashed, req, inbox, daemon, installed, soiled, disk>>

\* The end of reload_db and its siblings, reached on success only.
TestLink(c) ==
  /\ req[c].link # Nothing /\ cli[c] = "S"
  /\ cli' = [cli EXCEPT ![c] = IF Exists(req[c].link) THEN "unlink" ELSE "symlink"]
  /\ UNCHANGED <<up, crashed, req, inbox, daemon, installed, soiled, disk>>

\* os.unlink raises FileNotFoundError if another reload was faster.
Unlink(c) ==
  /\ cli[c] = "unlink"
  /\ cli' = [cli EXCEPT ![c] = IF link[req[c].link] = Nothing THEN "linkraised" ELSE "symlink"]
  /\ link' = [link EXCEPT ![req[c].link] = Nothing]
  /\ UNCHANGED <<up, crashed, req, inbox, daemon, installed, soiled, gone, alone>>

\* os.symlink raises FileExistsError if a link is there, even one that names a file
\* that is not.
Symlink(c) ==
  /\ cli[c] = "symlink"
  /\ cli' = [cli EXCEPT ![c] = IF link[req[c].link] = Nothing THEN "linked" ELSE "linkraised"]
  /\ link' = [link EXCEPT ![req[c].link] = IF @ = Nothing THEN c ELSE @]
  /\ UNCHANGED <<up, crashed, req, inbox, daemon, installed, soiled, gone, alone>>

\* The file that a link names is removed, as an old download is.
RemoveFile(l) ==
  /\ Exists(l)
  /\ gone' = gone \cup {link[l]}
  /\ UNCHANGED <<up, crashed, cli, req, inbox, daemon, installed, soiled, link, alone>>

\* verify_db calls _read_db_op without its row_size argument: Python raises
\* TypeError and nothing is sent.
VerifyDb(c) ==
  /\ cli[c] = "new"
  /\ req[c].by = "callfwdctl" /\ req[c].cmd = "verify"
  /\ cli' = [cli EXCEPT ![c] = "raised"]
  /\ UNCHANGED <<up, crashed, req, inbox, daemon, installed, soiled, disk>>

-----------------------------------------------------------------------------
(* The control thread.                                                     *)

\* The kernel installs passed descriptors, at most two, at the lowest free numbers.
FreeFds == {n \in Fds : fdtab[n] = Nothing}
Nth(k) == IF k = 1 THEN Min(FreeFds) ELSE Min(FreeFds \ {Min(FreeFds)})

\* Mutant: the thread gets the descriptors of the datagram before.
StartThread_StaleFds(c, fds) ==
  /\ argfd' = [argfd EXCEPT ![c] = argfd_]
  /\ wpc' = [wpc EXCEPT ![c] = "begin"]

\* std::thread(...).detach(), with a copy of argfd_.
StartThread(c, fds) ==
  /\ argfd' = [argfd EXCEPT ![c] = fds]
  /\ wpc' = [wpc EXCEPT ![c] = "begin"]

\* awaitMessage, parseJson and the start of a dispatch thread.  A datagram
\* without a reply address is dropped before argfd_ is set, one that is not
\* JSON after; either way its descriptors stay open.
Receive ==
  LET c == Head(inbox)
      q == req[c]
      fds == [k \in DOMAIN Roles(q) |-> Nth(k)] IN
  /\ up
  /\ inbox # <<>>
  /\ inbox' = Tail(inbox)
  /\ fdtab' = [n \in Fds |-> IF \E k \in DOMAIN fds : fds[k] = n
                 THEN <<c, Roles(q)[CHOOSE k \in DOMAIN fds : fds[k] = n]>>
                 ELSE fdtab[n]]
  /\ argfd_' = IF q.form = "unnamed" THEN argfd_ ELSE fds
  /\ IF q.form \in {"ok", "badarg"} THEN StartThread(c, fds) ELSE UNCHANGED <<argfd, wpc>>
  /\ UNCHANGED <<up, crashed, cli, req, sink, snap, opened, status, global, installed, soiled, disk>>

-----------------------------------------------------------------------------
(* A dispatch thread.                                                      *)

\* mapfd and the log sink: the last descriptor is the client's stderr.  A bad
\* argument throws to the end of dispatch, past the answer and the closing.
Begin(c) ==
  /\ wpc[c] = "begin"
  /\ \/ /\ req[c].form = "ok"
        /\ sink' = [sink EXCEPT ![c] = argfd[c][Len(argfd[c])]]
        /\ wpc' = [wpc EXCEPT ![c] = "command"]
     \/ /\ req[c].form = "badarg"
        /\ wpc' = [wpc EXCEPT ![c] = "thrown"]
        /\ UNCHANGED sink
  /\ UNCHANGED <<up, crashed, cli, req, inbox, fdtab, argfd_, argfd, snap, opened,
                 status, global, installed, soiled, disk>>

\* The loaders: which global each commits to, what its parser can throw (the
\* stream and folly::to throw runtime_error, std::stoll logic_error) and what
\* it catches.
Loads(d, throws, catches) == [commits |-> d, throws |-> throws, catches |-> catches]
Runtime == {"runtime_error"}
AnyError == {"runtime_error", "logic_error"}

loadACLFile == Loads("ACL", AnyError, AnyError)
loadMappingFile(country) == Loads(IF country = "CA" THEN "CA" ELSE "US", Runtime, Runtime)
loadDNCMappingFile == Loads("DNC", Runtime, Runtime)
loadDnoMappingFile == Loads("DNO", AnyError, Runtime)
loadTollFreeMappingFile == Loads("TollFree", AnyError, Runtime)
loadLergMappingFile == Loads("Lerg", AnyError, Runtime)
loadYoumailMappingFile == Loads("Youmail", AnyError, Runtime)
loadGeoMappingFile == Loads("Geo", AnyError, Runtime)
loadFtcMappingFile == Loads("Ftc", AnyError, Runtime)
load404MappingFile == Loads("404", AnyError, Runtime)
load606MappingFile == Loads("606", AnyError, Runtime)

\* The command chain of dispatch, for the request to load d.
Loader(d) ==
  CASE d = "ACL" -> loadACLFile
    [] d \in {"US", "CA"} -> loadMappingFile(d)
    [] d = "DNC" -> loadDNCMappingFile
    [] d = "DNO" -> loadDnoMappingFile
    [] d = "TollFree" -> loadTollFreeMappingFile
    [] d = "Lerg" -> loadLergMappingFile
    [] d = "Youmail" -> loadYoumailMappingFile
    [] d = "Geo" -> loadGeoMappingFile
    [] d = "Ftc" -> loadFtcMappingFile
    [] d = "404" -> load404MappingFile
    [] d = "606" -> load606MappingFile

\* What becomes of reading the file of request q with the loader of d.
Outcome(d, q) ==
  IF q.file \notin Loader(d).throws THEN "commit"
  ELSE IF q.file \in Loader(d).catches THEN "refuse" ELSE "escape"

\* A command opens /proc/self/fd/N: whatever N refers to at that moment.
\* verify and dump have taken a reference to their mapping before.
Open(c) ==
  /\ wpc[c] = "command"
  /\ req[c].cmd \in {"load", "verify", "dump"}
  /\ snap' = [snap EXCEPT ![c] = IF req[c].cmd = "load" THEN Nothing ELSE global[req[c].db]]
  /\ opened' = [opened EXCEPT ![c] = fdtab[argfd[c][1]]]
  /\ wpc' = [wpc EXCEPT ![c] = "opened"]
  /\ UNCHANGED <<up, crashed, cli, req, inbox, fdtab, argfd_, argfd, sink,
                 status, global, installed, soiled, disk>>

\* Mutant: the answer is "S" unless somebody says otherwise.
Answer_Optimistic(c, s) ==
  /\ status' = [status EXCEPT ![c] = "S"]
  /\ wpc' = [wpc EXCEPT ![c] = "answer"]

\* The value of the local variable status when the command is over.
Answer(c, s) ==
  /\ status' = [status EXCEPT ![c] = s]
  /\ wpc' = [wpc EXCEPT ![c] = "answer"]

\* The loader reads the file it opened: it commits it, or catches what the
\* parser threw, or lets it escape.  A descriptor that is closed cannot be
\* opened, which every loader catches.
Load(c) ==
  LET d == Loader(req[c].db).commits
      owner == opened[c][1]
      outcome == IF opened[c] = Nothing THEN "refuse" ELSE Outcome(req[c].db, req[owner]) IN
  /\ wpc[c] = "opened"
  /\ req[c].cmd = "load"
  /\ \/ /\ outcome = "commit"
        /\ global' = [global EXCEPT ![d] = owner]
        /\ installed' = installed \cup {<<owner, d>>}
        /\ Answer(c, "S")
        /\ UNCHANGED sink
     \/ /\ outcome = "refuse"
        /\ Answer(c, "F")
        /\ UNCHANGED <<global, installed, sink>>
     \/ /\ outcome = "escape"
        \* dispatch's catch: the sink is gone, nothing is sent or closed
        /\ wpc' = [wpc EXCEPT ![c] = "thrown"]
        /\ sink' = [sink EXCEPT ![c] = Nothing]
        /\ UNCHANGED <<global, installed, status>>
  /\ UNCHANGED <<up, crashed, cli, req, inbox, fdtab, argfd_, argfd, snap, opened, soiled, disk>>

\* What verify throws before it looks at its mapping: the file cannot be opened
\* or its first line cannot be parsed.
ThrowsEarly(c) ==
  opened[c] = Nothing \/ (req[c].cmd = "verify" /\ req[opened[c][1]].file # "good")

\* verifyMappingFile and dumpMappingFile; whether they succeed on a loaded
\* mapping depends on the file (module VerifyDump).  A dump truncates its file
\* and writes the rows from the start, over what was there before.
VerifyOrDump(c) ==
  /\ wpc[c] = "opened"
  /\ req[c].cmd \in {"verify", "dump"}
  /\ \/ snap[c] # Nothing /\ \E s \in {"S", "F"} : Answer(c, s)
     \/ ThrowsEarly(c) /\ Answer(c, "F")
  /\ soiled' = IF req[c].cmd = "dump" THEN soiled \ {opened[c]} ELSE soiled
  /\ UNCHANGED <<up, crashed, cli, req, inbox, fdtab, argfd_, argfd, sink,
                 snap, opened, global, installed, disk>>

\* "meta" only prints; an unknown command is logged and refused.
Report(c) ==
  /\ wpc[c] = "command"
  /\ \/ req[c].cmd = "meta" /\ Answer(c, "S")
     \/ req[c].cmd = "other" /\ Answer(c, "F")
  /\ UNCHANGED <<up, crashed, cli, req, inbox, fdtab, argfd_, argfd, sink,
                 snap, opened, global, installed, soiled, disk>>

\* Mutant: only success is reported.
Send_OnlySuccess(c) ==
  /\ wpc[c] = "answer"
  /\ cli' = [cli EXCEPT ![c] = IF status[c] = "S" THEN "S" ELSE @]
  /\ wpc' = [wpc EXCEPT ![c] = "close"]
  /\ UNCHANGED <<up, crashed, req, inbox, fdtab, argfd_, argfd, sink, snap, opened,
                 status, global, installed, soiled, disk>>

\* sendto
Send(c) ==
  /\ wpc[c] = "answer"
  /\ cli' = [cli EXCEPT ![c] = status[c]]
  /\ wpc' = [wpc EXCEPT ![c] = "close"]
  /\ UNCHANGED <<up, crashed, req, inbox, fdtab, argfd_, argfd, sink, snap, opened,
                 status, global, installed, soiled, disk>>

\* Mutant: only the first descriptor is closed.
Close_First(c) ==
  /\ wpc[c] = "close"
  /\ argfd[c] # <<>>
  /\ fdtab' = [fdtab EXCEPT ![Head(argfd[c])] = Nothing]
  /\ argfd' = [argfd EXCEPT ![c] = <<>>]
  /\ UNCHANGED <<up, crashed, cli, req, inbox, argfd_, wpc, sink, snap, opened,
                 status, global, installed, soiled, disk>>

\* for (int fd : argfd) close(fd)
Close(c) ==
  /\ wpc[c] = "close"
  /\ argfd[c] # <<>>
  /\ fdtab' = [fdtab EXCEPT ![Head(argfd[c])] = Nothing]
  /\ argfd' = [argfd EXCEPT ![c] = Tail(argfd[c])]
  /\ UNCHANGED <<up, crashed, cli, req, inbox, argfd_, wpc, sink, snap, opened,
                 status, global, installed, soiled, disk>>

\* The end of the block destroys the sink, after the descriptors are closed.
RemoveLogSink(c) ==
  /\ wpc[c] = "close"
  /\ argfd[c] = <<>>
  /\ sink' = [sink EXCEPT ![c] = Nothing]
  /\ wpc' = [wpc EXCEPT ![c] = "done"]
  /\ UNCHANGED <<up, crashed, cli, req, inbox, fdtab, argfd_, argfd, snap, opened,
                 status, global, installed, soiled, disk>>

\* Any thread logs a line: every sink writes it to its descriptor.
Log ==
  /\ up
  /\ LET lines == {fdtab[sink[c]] : c \in {b \in Clients : sink[b] # Nothing}} IN
     soiled' = soiled \cup (lines \cap (Clients \X {"in", "out"}))
  /\ UNCHANGED <<up, crashed, cli, req, inbox, daemon, installed, disk>>

-----------------------------------------------------------------------------
(* Crash and restart.                                                      *)

\* verify and dump use the mapping without asking isAvailable(): on a mapping
\* that is not loaded they dereference null and the process dies.
Crash(c) ==
  /\ wpc[c] = "opened"
  /\ req[c].cmd \in {"verify", "dump"}
  /\ snap[c] = Nothing
  /\ opened[c] # Nothing
  /\ up' = FALSE /\ crashed' = TRUE
  /\ fdtab' = [n \in Fds |-> Nothing]
  /\ argfd_' = <<>>
  /\ wpc' = [b \in Clients |-> "none"]
  /\ argfd' = [b \in Clients |-> <<>>]
  /\ sink' = [b \in Clients |-> Nothing]
  /\ snap' = [b \in Clients |-> Nothing]
  /\ opened' = [b \in Clients |-> Nothing]
  /\ status' = [b \in Clients |-> "F"]
  /\ global' = [d \in Globals |-> Nothing]
  /\ UNCHANGED <<cli, req, inbox, installed, soiled, disk>>

\* Mutant: the daemon opens a socket of its own instead of systemd's.
Restart_NewSocket ==
  /\ ~up
  /\ up' = TRUE
  /\ inbox' = <<>>
  /\ UNCHANGED <<crashed, cli, req, daemon, installed, soiled, disk>>

\* Restart=on-failure
Restart ==
  /\ ~up
  /\ up' = TRUE
  /\ UNCHANGED <<crashed, cli, req, inbox, daemon, installed, soiled, disk>>

-----------------------------------------------------------------------------
Worker(c) ==
  \/ Begin(c) \/ Open(c) \/ Load(c) \/ VerifyOrDump(c) \/ Crash(c)
  \/ Report(c) \/ Send(c) \/ Close(c) \/ RemoveLogSink(c)

Next ==
  \/ \E c \in Clients :
       MakeRequest(c) \/ VerifyDb(c) \/ TestLink(c) \/ Unlink(c) \/ Symlink(c) \/ Worker(c)
  \/ \E l \in Links : RemoveFile(l)
  \/ Receive \/ Restart \/ Log

Spec == Init /\ [][Next]_vars

\* The control thread and the dispatch threads run, and systemd restarts.
FairSpec ==
  /\ Spec
  /\ WF_vars(Receive) /\ WF_vars(Restart)
  /\ \A c \in Clients : WF_vars(Worker(c))

-----------------------------------------------------------------------------
(* Properties.                                                             *)

\* Until it starts closing them, the descriptors of a command are those its
\* own client sent, whatever other commands open and close meanwhile: no
\* command loads, verifies or overwrites the file of another.
OwnDescriptors ==
  \A c \in Clients : wpc[c] \in Working =>
    /\ Len(argfd[c]) = Len(Roles(req[c]))
    /\ \A k \in DOMAIN argfd[c] : fdtab[argfd[c][k]] = <<c, Roles(req[c])[k]>>

\* The answer to a reload is true: "S" means that this file, and a readable
\* one, was put in service, "F" that it never was, and a client is answered
\* after its file was installed.
AnswerIsTrue ==
  \A c \in Clients : req[c].cmd = "load" =>
    /\ cli[c] \in {"S"} \cup Linking => <<c, req[c].db>> \in installed
    /\ cli[c] = "F" => \A d \in Globals : <<c, d>> \notin installed
    /\ \A d \in Globals : <<c, d>> \in installed =>
         d = req[c].db /\ req[c].file \notin Loader(d).throws

\* The mapping of c holds the file of c, or has been lost in a crash.
Serves(c) == global[req[c].db] = c \/ (crashed /\ global[req[c].db] = Nothing)

\* A reload that runs to its end without another of the same mapping or link leaves
\* the "current" link, which the next start will load, naming the file in service,
\* whatever state overlapping reloads, refused ones and crashes have left before.
\* It fails to do so only if the link names a file that is no longer there: then
\* it ends with an exception behind its "Success".
LinkFollowsService ==
  \A c \in alone :
    /\ cli[c] = "linked" => link[req[c].link] = c /\ Serves(c)
    /\ cli[c] = "linkraised" => link[req[c].link] \in gone

\* The request ends without an answer whatever the daemon does.
Unanswerable(q) ==
  q.form # "ok" \/ (q.cmd = "load" /\ Outcome(q.db, q) = "escape")

\* A descriptor that is still open when its command is over was passed with a
\* request that could not be answered: a command that answers leaks none.
OnlyUnanswerableLeaks ==
  \A n \in Fds : fdtab[n] # Nothing =>
    LET c == fdtab[n][1] IN
    \/ wpc[c] \notin {"none", "thrown", "done"} /\ \E k \in DOMAIN argfd[c] : argfd[c][k] = n
    \/ Unanswerable(req[c])

\* Every other request is answered: callfwdctl, which waits without a
\* timeout, does not hang unless the daemon crashes.
EveryRequestAnswered ==
  \A c \in Clients :
    cli[c] = "waiting" ~> cli[c] # "waiting" \/ Unanswerable(req[c]) \/ crashed

\* A datagram queued before a crash is not lost with the daemon: systemd
\* keeps the socket and the next instance receives it.
QueueSurvivesCrash ==
  \A c \in Clients : Queued(c) ~> wpc[c] # "none" \/ req[c].form # "ok"

\* README: "`dump` - write loaded mapping from memory to disk".  The file of a
\* dump that succeeded holds the mapping and nothing else: no log line has been
\* written over it.
DumpIsClean ==
  \A c \in Clients : req[c].cmd = "dump" /\ cli[c] = "S" => <<c, "out">> \notin soiled

=============================================================================
