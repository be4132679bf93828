---------------------------- MODULE ServiceRestart ----------------------------
(***************************************************************************)
(* Instances of one service that replace each other, and the clients that  *)
(* find the service again.  An instance (a process with its own PID) runs  *)
(* the skeleton of voxl-tflite-server main.cpp: kill_existing_process,     *)
(* enable_signal_handler, make_pid_file, main_running = 1,                 *)
(* pipe_server_create, the main loop, pipe_server_close_all.  Instances    *)
(* meet in the PID file and in the pipe's directory; nothing locks either. *)
(* A step is one system call or a run of them whose order nobody sees.     *)
(*                                                                         *)
(* The request and the control FIFO are named by the instance that made    *)
(* them: a FIFO that was unlinked lives on for those who have it open, and *)
(* a new one under the same path is another FIFO.  A client's data FIFO    *)
(* has a name of its own for every attempt to connect; one that an earlier *)
(* attempt left behind is left out.  The client table and the requests     *)
(* that the listener refuses are in ServerClients.                         *)
(***************************************************************************)
EXTENDS Naturals

CONSTANTS
  Procs,        \* the instances, each with a PID of its own
  Clients,      \* client channels with a helper thread (auto-reconnect)
  NoPid,        \* no file, no process
  NoContent,    \* a PID file that was created and not yet written
  StartsApart,  \* an instance is only started when no other is starting
  MayCrash,     \* instances may die at any step
  FopenFails,   \* the PID file may be impossible to create
  RemovesPid    \* the program calls remove_pid_file before it exits

ASSUME ServiceAssumption ==
  /\ NoPid \notin Procs /\ NoContent \notin Procs /\ NoPid # NoContent
  /\ StartsApart \in BOOLEAN /\ MayCrash \in BOOLEAN
  /\ FopenFails \in BOOLEAN /\ RemovesPid \in BOOLEAN

VARIABLES
  pc,            \* where each instance is
  main_running,  \* the flag of start_stop.c, one per process
  told,          \* instances alive whose signal handler has run (history)
  old_pid,       \* the process that kill_existing_process waits for
  pidfile,       \* content of /run/<name>.pid
  dir, info,     \* whether base_dir and its info file exist
  request,       \* the FIFO under request_path
  control,       \* the FIFO under control_path
  data,          \* each client's data FIFO: see DataStates
  request_fd,    \* the FIFO each instance reads requests from
  control_fd,    \* the FIFO each instance reads commands from
  at,            \* what each client's helper thread is doing
  asked,         \* the FIFO a client's request waits in
  opens,         \* the control FIFO whose open() a client is blocked in
  server         \* the instance that opens, or has, a client's data FIFO

pidVars    == <<pc, main_running, told, old_pid, pidfile>>
fileVars   == <<dir, info, request, control, data>>
fdVars     == <<request_fd, control_fd>>
clientVars == <<at, asked, opens, server>>
vars == <<pidVars, fileVars, fdVars, clientVars>>

NoHandler == {"kill", "stop", "killed", "handler"}
Starting  == NoHandler \union {"access", "fopen", "fprintf"}
Creating  == {"mkdir", "info", "mkfifo", "open", "mkcontrol", "opencontrol"}
Closing   == {"close", "unlink", "closecontrol", "unlinkcontrol", "rmfiles", "rmdir"}
Serving   == {"run", "close", "unlink", "closecontrol", "unlinkcontrol"}
Installed == {"start", "run", "rmpid"} \union Creating \union Closing
Phases    == {"off", "exit", "dead"} \union Starting \union Installed
Waiting   == {"control", "incontrol", "poll", "opening"}
Helping   == {"idle", "open", "rmfiles", "rmdir", "reading"} \union Waiting

\* Not in the directory; made; made and given up by the instance.
DataStates == {"none", "made", "failed"}

Files == Procs \union {NoPid}
Alive(p) == pc[p] \notin {"off", "dead"}

Init ==
  /\ pc = [p \in Procs |-> "off"]
  /\ main_running = [p \in Procs |-> FALSE]
  /\ told = {}
  /\ old_pid = [p \in Procs |-> NoPid]
  /\ pidfile = NoPid
  /\ dir = FALSE /\ info = FALSE
  /\ request = NoPid /\ control = NoPid
  /\ data = [c \in Clients |-> "none"]
  /\ request_fd = [p \in Procs |-> NoPid]
  /\ control_fd = [p \in Procs |-> NoPid]
  /\ at = [c \in Clients |-> "idle"]
  /\ asked = [c \in Clients |-> NoPid]
  /\ opens = [c \in Clients |-> NoPid]
  /\ server = [c \in Clients |-> NoPid]

Goto(p, next) == pc' = [pc EXCEPT ![p] = next]

\* The kernel closes p's end of the request FIFO.  What nobody has open any
\* more loses its content.
CloseRequestFd(p) ==
  /\ request_fd' = [request_fd EXCEPT ![p] = NoPid]
  /\ asked' = [c \in Clients |->
                 IF asked[c] = request_fd[p]
                    /\ \A q \in Procs \ {p} : request_fd[q] # request_fd[p]
                 THEN NoPid ELSE asked[c]]

\* A process takes with it what it has open and what it had in memory.
Forget(p) ==
  /\ CloseRequestFd(p)
  /\ control_fd' = [control_fd EXCEPT ![p] = NoPid]
  /\ main_running' = [main_running EXCEPT ![p] = FALSE]
  /\ told' = told \ {p}

\* create() has succeeded, and the listener thread runs.
Listening(p) ==
  pc[p] \in {"run", "close"} /\ request_fd[p] # NoPid /\ control_fd[p] # NoPid

\* The listener is busy with a client it has made a FIFO for.
Answering(p, c) == server[c] = p /\ at[c] \in Waiting

(* ------------------------- kill_existing_process ----------------------- *)

\* The service is started by systemd or by hand.
Start(p) ==
  /\ pc[p] = "off"
  /\ StartsApart => \A q \in Procs : pc[q] \notin Starting
  /\ Goto(p, "kill")
  /\ UNCHANGED <<main_running, told, old_pid, pidfile, fileVars, fdVars, clientVars>>

\* mutant: the file of a process that is gone is left.
NothingToKillKeepsFile(p) ==
  /\ pc[p] = "kill"
  /\ pidfile \in Procs => ~Alive(pidfile)
  /\ Goto(p, "handler")
  /\ UNCHANGED <<main_running, told, old_pid, pidfile, fileVars, fdVars, clientVars>>

\* No PID file; one without a number, or of a process that is gone, is
\* removed.
NothingToKill(p) ==
  /\ pc[p] = "kill"
  /\ pidfile \in Procs => ~Alive(pidfile)
  /\ pidfile' = NoPid
  /\ Goto(p, "handler")
  /\ UNCHANGED <<main_running, told, old_pid, fileVars, fdVars, clientVars>>

\* mutant: what the file holds is taken for a process, an empty file too.
InterruptUnchecked(p) ==
  /\ pc[p] = "kill"
  /\ pidfile # NoPid
  /\ old_pid' = [old_pid EXCEPT ![p] = pidfile]
  /\ Goto(p, "stop")
  /\ UNCHANGED <<main_running, told, pidfile, fileVars, fdVars, clientVars>>

\* A signal to q: its default action ends q, q's handler clears main_running.
Interrupt(p) ==
  /\ pc[p] = "kill"
  /\ pidfile \in Procs /\ Alive(pidfile)
  /\ old_pid' = [old_pid EXCEPT ![p] = pidfile]
  /\ LET q == pidfile IN
       IF pc[q] \in NoHandler
       THEN /\ pc' = [pc EXCEPT ![p] = "stop", ![q] = "dead"]
            /\ Forget(q)
       ELSE /\ Goto(p, "stop")
            /\ main_running' = [main_running EXCEPT ![q] = FALSE]
            /\ told' = told \union {q}
            /\ UNCHANGED <<fdVars, asked>>
  /\ UNCHANGED <<pidfile, fileVars, at, opens, server>>

\* The old process is gone: whatever PID file there is is removed.
OldIsGone(p) ==
  /\ pc[p] \in {"stop", "killed"}
  /\ ~Alive(old_pid[p])
  /\ pidfile' = NoPid
  /\ old_pid' = [old_pid EXCEPT ![p] = NoPid]
  /\ Goto(p, "handler")
  /\ UNCHANGED <<main_running, told, fileVars, fdVars, clientVars>>

\* mutant: after the timeout the new instance starts all the same.
ForceNothing(p) ==
  /\ pc[p] = "stop"
  /\ Alive(old_pid[p])
  /\ pidfile' = NoPid
  /\ old_pid' = [old_pid EXCEPT ![p] = NoPid]
  /\ Goto(p, "handler")
  /\ UNCHANGED <<main_running, told, fileVars, fdVars, clientVars>>

\* mutant: SIGINT is trusted to work.
ForceNever(p) == FALSE /\ pc[p] = "stop" /\ UNCHANGED vars

\* It did not stop in time: SIGKILL.
ForceKill(p) ==
  /\ pc[p] = "stop"
  /\ Alive(old_pid[p])
  /\ pc' = [pc EXCEPT ![p] = "killed", ![old_pid[p]] = "dead"]
  /\ Forget(old_pid[p])
  /\ UNCHANGED <<old_pid, pidfile, fileVars, at, opens, server>>

(* --------------- enable_signal_handler, make_pid_file ------------------ *)

EnableHandler(p) ==
  /\ pc[p] = "handler"
  /\ Goto(p, "access")
  /\ UNCHANGED <<main_running, told, old_pid, pidfile, fileVars, fdVars, clientVars>>

\* A PID file that exists is not touched; main() ignores that.
CheckPidFile(p) ==
  /\ pc[p] = "access"
  /\ Goto(p, IF pidfile = NoPid THEN "fopen" ELSE "start")
  /\ UNCHANGED <<main_running, told, old_pid, pidfile, fileVars, fdVars, clientVars>>

\* main() ignores that too.
OpenPidFile(p) ==
  /\ pc[p] = "fopen"
  /\ \/ pidfile' = NoContent /\ Goto(p, "fprintf")
     \/ FopenFails /\ Goto(p, "start") /\ UNCHANGED pidfile
  /\ UNCHANGED <<main_running, told, old_pid, fileVars, fdVars, clientVars>>

WritePid(p) ==
  /\ pc[p] = "fprintf"
  /\ pidfile' = p
  /\ Goto(p, "start")
  /\ UNCHANGED <<main_running, told, old_pid, fileVars, fdVars, clientVars>>

\* main_running = 1, whatever the handler made of it before.
SetRunning(p) ==
  /\ pc[p] = "start"
  /\ main_running' = [main_running EXCEPT ![p] = TRUE]
  /\ Goto(p, "mkdir")
  /\ UNCHANGED <<told, old_pid, pidfile, fileVars, fdVars, clientVars>>

(* -------------------------- pipe_server_create ------------------------- *)

MakeDir(p) ==
  /\ pc[p] = "mkdir"
  /\ dir' = TRUE
  /\ Goto(p, "info")
  /\ UNCHANGED <<main_running, told, old_pid, pidfile, info, request, control,
                 data, fdVars, clientVars>>

\* From here on a directory or FIFO that vanished makes create() fail, and
\* main() goes on without the channel.
WriteInfo(p) ==
  /\ pc[p] = "info"
  /\ info' = (info \/ dir)
  /\ Goto(p, IF dir THEN "mkfifo" ELSE "run")
  /\ UNCHANGED <<main_running, told, old_pid, pidfile, dir, request, control,
                 data, fdVars, clientVars>>

\* EEXIST is fine: the FIFO of an earlier instance is used again.
MakeFifo(p) ==
  /\ pc[p] = "mkfifo"
  /\ request' = IF dir /\ request = NoPid THEN p ELSE request
  /\ Goto(p, IF dir THEN "open" ELSE "run")
  /\ UNCHANGED <<main_running, told, old_pid, pidfile, dir, info, control,
                 data, fdVars, clientVars>>

OpenRequest(p) ==
  /\ pc[p] = "open"
  /\ request_fd' = [request_fd EXCEPT ![p] = request]
  /\ Goto(p, IF request = NoPid THEN "run" ELSE "mkcontrol")
  /\ UNCHANGED <<main_running, told, old_pid, pidfile, fileVars, control_fd,
                 clientVars>>

\* SERVER_FLAG_EN_CONTROL_PIPE.  When this fails the request FIFO stays open,
\* and nobody listens.
MakeControl(p) ==
  /\ pc[p] = "mkcontrol"
  /\ control' = IF dir /\ control = NoPid THEN p ELSE control
  /\ Goto(p, IF dir THEN "opencontrol" ELSE "run")
  /\ UNCHANGED <<main_running, told, old_pid, pidfile, dir, info, request,
                 data, fdVars, clientVars>>

OpenControl(p) ==
  /\ pc[p] = "opencontrol"
  /\ control_fd' = [control_fd EXCEPT ![p] = control]
  /\ Goto(p, "run")
  /\ UNCHANGED <<main_running, told, old_pid, pidfile, fileVars, request_fd,
                 clientVars>>

(* ---------------------- main loop and listener ------------------------- *)

\* The listener reads a request and makes the client's FIFO in base_dir.
TakeRequest(p, c) ==
  /\ pc[p] = "run" /\ Listening(p)
  /\ \A d \in Clients : ~Answering(p, d)
  /\ asked[c] # NoPid /\ asked[c] = request_fd[p]
  /\ asked' = [asked EXCEPT ![c] = NoPid]
  /\ IF dir
     THEN /\ server' = [server EXCEPT ![c] = p]
          /\ data' = [data EXCEPT ![c] = "made"]
     ELSE UNCHANGED <<server, data>>
  /\ UNCHANGED <<pidVars, dir, info, request, control, fdVars, at, opens>>

\* Of its 500 attempts to open it O_WRONLY|O_NONBLOCK one meets a client that
\* is in open() ...
OpenDataForWriting(p, c) ==
  /\ Listening(p) /\ Answering(p, c)
  /\ at[c] = "opening" /\ data[c] = "made"
  /\ at' = [at EXCEPT ![c] = "reading"]
  /\ data' = [data EXCEPT ![c] = "none"]
  /\ UNCHANGED <<pidVars, dir, info, request, control, fdVars, asked, opens, server>>

\* ... or the last of them fails, too ...
LastAttemptFails(p, c) ==
  /\ Listening(p) /\ Answering(p, c)
  /\ at[c] # "opening" /\ data[c] = "made"
  /\ data' = [data EXCEPT ![c] = "failed"]
  /\ UNCHANGED <<pidVars, dir, info, request, control, fdVars, clientVars>>

\* ... and the FIFO is removed, whoever has come to open it by then.
RemoveData(p, c) ==
  /\ Listening(p) /\ Answering(p, c)
  /\ data[c] # "made"
  /\ data' = [data EXCEPT ![c] = "none"]
  /\ server' = [server EXCEPT ![c] = NoPid]
  /\ UNCHANGED <<pidVars, dir, info, request, control, fdVars, at, asked, opens>>

\* pipe_server_close_all; nothing to close if create() had failed.
LeaveLoop(p) ==
  /\ pc[p] = "run"
  /\ ~main_running[p]
  /\ Goto(p, IF Listening(p) THEN "close" ELSE "rmpid")
  /\ UNCHANGED <<main_running, told, old_pid, pidfile, fileVars, fdVars, clientVars>>

\* The listener holds the channel's mutex until it is done with a client.
CloseRequest(p) ==
  /\ pc[p] = "close"
  /\ \A c \in Clients : ~Answering(p, c)
  /\ CloseRequestFd(p)
  /\ Goto(p, "unlink")
  /\ UNCHANGED <<main_running, told, old_pid, pidfile, fileVars, control_fd,
                 at, opens, server>>

\* remove(request_path): the FIFO of that path, whoever made it.
UnlinkRequest(p) ==
  /\ pc[p] = "unlink"
  /\ request' = NoPid
  /\ Goto(p, "closecontrol")
  /\ UNCHANGED <<main_running, told, old_pid, pidfile, dir, info, control,
                 data, fdVars, clientVars>>

CloseControl(p) ==
  /\ pc[p] = "closecontrol"
  /\ control_fd' = [control_fd EXCEPT ![p] = NoPid]
  /\ Goto(p, "unlinkcontrol")
  /\ UNCHANGED <<main_running, told, old_pid, pidfile, fileVars, request_fd,
                 clientVars>>

\* remove(control_path).  The data pipes are closed after it.
UnlinkControl(p) ==
  /\ pc[p] = "unlinkcontrol"
  /\ control' = NoPid
  /\ Goto(p, "rmfiles")
  /\ UNCHANGED <<main_running, told, old_pid, pidfile, dir, info, request,
                 data, fdVars, clientVars>>

\* _remove_recursive: first what is in the directory, then the directory,
\* unless something new is in it.
EmptyDir ==
  /\ info' = FALSE /\ request' = NoPid /\ control' = NoPid
  /\ data' = [c \in Clients |-> "none"]
  /\ UNCHANGED dir

DirIsEmpty ==
  /\ ~info /\ request = NoPid /\ control = NoPid
  /\ \A c \in Clients : data[c] = "none"

RemoveDir == dir' = (dir /\ ~DirIsEmpty) /\ UNCHANGED <<info, request, control, data>>

RemoveOwnFiles(p) ==
  /\ pc[p] = "rmfiles"
  /\ EmptyDir
  /\ Goto(p, "rmdir")
  /\ UNCHANGED <<main_running, told, old_pid, pidfile, fdVars, clientVars>>

RemoveOwnDir(p) ==
  /\ pc[p] = "rmdir"
  /\ RemoveDir
  /\ Goto(p, "rmpid")
  /\ UNCHANGED <<main_running, told, old_pid, pidfile, fdVars, clientVars>>

\* remove_pid_file, if the program calls it.
RemovePid(p) ==
  /\ pc[p] = "rmpid"
  /\ pidfile' = IF RemovesPid THEN NoPid ELSE pidfile
  /\ Goto(p, "exit")
  /\ UNCHANGED <<main_running, told, old_pid, fileVars, fdVars, clientVars>>

Exit(p) ==
  /\ pc[p] = "exit"
  /\ Forget(p)
  /\ Goto(p, "dead")
  /\ UNCHANGED <<old_pid, pidfile, fileVars, at, opens, server>>

(* ------------------- signals from outside, crashes --------------------- *)

Crash(p) ==
  /\ MayCrash
  /\ Alive(p)
  /\ Forget(p)
  /\ Goto(p, "dead")
  /\ UNCHANGED <<old_pid, pidfile, fileVars, at, opens, server>>

\* SIGINT or SIGTERM from a terminal or from systemd.
Signal(p) ==
  /\ Alive(p)
  /\ IF pc[p] \in NoHandler
     THEN Forget(p) /\ Goto(p, "dead")
     ELSE /\ main_running' = [main_running EXCEPT ![p] = FALSE]
          /\ told' = told \union {p}
          /\ UNCHANGED <<pc, fdVars, asked>>
  /\ UNCHANGED <<old_pid, pidfile, fileVars, at, opens, server>>

(* ----------------- _connect_to_server in a helper thread --------------- *)

FindServer(c) ==
  /\ at[c] = "idle"
  /\ request # NoPid
  /\ at' = [at EXCEPT ![c] = "open"]
  /\ UNCHANGED <<pidVars, fileVars, fdVars, asked, opens, server>>

\* open(O_WRONLY|O_NONBLOCK) and write: the request waits in the FIFO.
SendRequest(c) ==
  /\ at[c] = "open"
  /\ \E p \in Procs : request_fd[p] # NoPid /\ request_fd[p] = request
  /\ asked' = [asked EXCEPT ![c] = request]
  /\ at' = [at EXCEPT ![c] = "control"]
  /\ UNCHANGED <<pidVars, fileVars, fdVars, opens, server>>

\* ENOENT: try again later.  ENXIO, nobody reads it: "most likely the server
\* stopped without cleaning up", so the client removes the directory.
OpenFails(c) ==
  /\ at[c] = "open"
  /\ \A p \in Procs : request = NoPid \/ request_fd[p] # request
  /\ at' = [at EXCEPT ![c] = IF request = NoPid THEN "idle" ELSE "rmfiles"]
  /\ UNCHANGED <<pidVars, fileVars, fdVars, asked, opens, server>>

ClientEmptiesDir(c) ==
  /\ at[c] = "rmfiles"
  /\ EmptyDir
  /\ at' = [at EXCEPT ![c] = "rmdir"]
  /\ UNCHANGED <<pidVars, fdVars, asked, opens, server>>

ClientRemovesDir(c) ==
  /\ at[c] = "rmdir"
  /\ RemoveDir
  /\ at' = [at EXCEPT ![c] = "idle"]
  /\ UNCHANGED <<pidVars, fdVars, asked, opens, server>>

HasReader(fifo) == \E p \in Procs : control_fd[p] = fifo

\* open(O_WRONLY) of the control FIFO, if there is one: it blocks until the
\* FIFO has a reader.
OpenControlForWriting(c) ==
  /\ at[c] = "control"
  /\ IF control = NoPid \/ HasReader(control)
     THEN at' = [at EXCEPT ![c] = "poll"] /\ UNCHANGED opens
     ELSE /\ at' = [at EXCEPT ![c] = "incontrol"]
          /\ opens' = [opens EXCEPT ![c] = control]
  /\ UNCHANGED <<pidVars, fileVars, fdVars, asked, server>>

ControlOpens(c) ==
  /\ at[c] = "incontrol"
  /\ HasReader(opens[c])
  /\ at' = [at EXCEPT ![c] = "poll"]
  /\ opens' = [opens EXCEPT ![c] = NoPid]
  /\ UNCHANGED <<pidVars, fileVars, fdVars, asked, server>>

\* open(O_RDONLY) of the data FIFO, once it exists: it blocks until the
\* FIFO has a writer.
OpenData(c) ==
  /\ at[c] = "poll"
  /\ data[c] # "none"
  /\ at' = [at EXCEPT ![c] = "opening"]
  /\ UNCHANGED <<pidVars, fileVars, fdVars, asked, opens, server>>

\* mutant: the client polls until it finds its pipe.
PollsOn(c) == FALSE /\ at[c] = "poll" /\ UNCHANGED vars

\* No data FIFO in 500 attempts.  A request that is taken later than that
\* finds nobody.
GiveUp(c) ==
  /\ at[c] = "poll"
  /\ data[c] = "none"
  /\ at' = [at EXCEPT ![c] = "idle"]
  /\ asked' = [asked EXCEPT ![c] = NoPid]
  /\ server' = [server EXCEPT ![c] = NoPid]
  /\ UNCHANGED <<pidVars, fileVars, fdVars, opens>>

\* read() returns 0 when the last writer has closed the data pipe.
LoseServer(c) ==
  /\ at[c] = "reading"
  /\ pc[server[c]] \notin Serving
  /\ at' = [at EXCEPT ![c] = "idle"]
  /\ server' = [server EXCEPT ![c] = NoPid]
  /\ UNCHANGED <<pidVars, fileVars, fdVars, asked, opens>>

(* ----------------------------------------------------------------------- *)

InstanceStep(p) ==
  \/ NothingToKill(p) \/ Interrupt(p) \/ OldIsGone(p) \/ ForceKill(p)
  \/ EnableHandler(p) \/ CheckPidFile(p) \/ OpenPidFile(p) \/ WritePid(p)
  \/ SetRunning(p) \/ MakeDir(p) \/ WriteInfo(p) \/ MakeFifo(p)
  \/ OpenRequest(p) \/ MakeControl(p) \/ OpenControl(p)
  \/ LeaveLoop(p) \/ CloseRequest(p) \/ UnlinkRequest(p)
  \/ CloseControl(p) \/ UnlinkControl(p)
  \/ RemoveOwnFiles(p) \/ RemoveOwnDir(p) \/ RemovePid(p) \/ Exit(p)

Answer(p, c) == OpenDataForWriting(p, c) \/ LastAttemptFails(p, c) \/ RemoveData(p, c)

ClientStep(c) ==
  \/ FindServer(c) \/ SendRequest(c) \/ OpenFails(c) \/ ClientEmptiesDir(c)
  \/ ClientRemovesDir(c) \/ OpenControlForWriting(c) \/ ControlOpens(c)
  \/ OpenData(c) \/ GiveUp(c) \/ LoseServer(c)

Next ==
  \/ \E p \in Procs : Start(p) \/ InstanceStep(p) \/ Crash(p) \/ Signal(p)
  \/ \E p \in Procs, c \in Clients : TakeRequest(p, c) \/ Answer(p, c)
  \/ \E c \in Clients : ClientStep(c)

Spec == Init /\ [][Next]_vars

\* Processes are scheduled; an open() that blocks is not a step that can be
\* taken.  A client that is not blocked asks again and again, so a listener
\* is given every chance to take its request.
FairSpec ==
  /\ Spec
  /\ \A p \in Procs : WF_vars(InstanceStep(p))
  /\ \A c \in Clients : WF_vars(ClientStep(c))
  /\ \A p \in Procs, c \in Clients : SF_vars(TakeRequest(p, c)) /\ WF_vars(Answer(p, c))

-----------------------------------------------------------------------------

TypeOK ==
  /\ pc \in [Procs -> Phases]
  /\ main_running \in [Procs -> BOOLEAN]
  /\ told \subseteq Procs
  /\ old_pid \in [Procs -> Files]
  /\ pidfile \in Files \union {NoContent}
  /\ dir \in BOOLEAN /\ info \in BOOLEAN
  /\ request \in Files /\ control \in Files
  /\ data \in [Clients -> DataStates]
  /\ request_fd \in [Procs -> Files]
  /\ control_fd \in [Procs -> Files]
  /\ at \in [Clients -> Helping]
  /\ asked \in [Clients -> Files]
  /\ opens \in [Clients -> Files]
  /\ server \in [Clients -> Files]

Past == Installed \union {"handler", "access", "fopen", "fprintf"}

\* Never are two instances past kill_existing_process: the purpose of the PID
\* file (modal_start_stop.h: "only want one instance of a process").
OneInstance == \A p, q \in Procs : pc[p] \in Past /\ pc[q] \in Past => p = q

\* The PID file names the instance that runs, so the next one finds it.
PidFileNamesInstance ==
  \A p \in Procs : pc[p] \in Installed => pidfile = p

\* The request FIFO that an instance listens on is never unlinked by another
\* instance, neither by the one it replaced, which closes its pipes late, nor
\* by the one that comes after it.
InstancesSpareEachOther ==
  [][\A p \in Procs :
       Listening(p) /\ request = request_fd[p]
       /\ request_fd'[p] = request_fd[p] /\ request' # request
       => \E c \in Clients : at[c] = "rmfiles" /\ at'[c] = "rmdir"]_vars

\* A service in its main loop can be found: its request FIFO is in place.
Reachable ==
  \A p \in Procs : pc[p] = "run" /\ Listening(p) => request = request_fd[p]

\* An instance that was started comes to run or dies: kill_existing_process
\* does not wait for ever.
StartCompletes ==
  \A p \in Procs : pc[p] = "kill" ~> pc[p] \in {"run", "dead"}

\* An instance whose handler has seen SIGINT or SIGTERM ends.
SignalEnds == \A p \in Procs : p \in told ~> pc[p] = "dead"

\* From some time on one instance runs, and its FIFO is in place.
Up == \E p \in Procs : pc[p] = "run" /\ Listening(p) /\ request = request_fd[p]

\* The half second in which a listener tries to open a data FIFO is enough,
\* in the end, for a client that is not blocked.
Timely ==
  <>[][\A p \in Procs, c \in Clients : LastAttemptFails(p, c) => at[c] = "incontrol"]_vars

\* A client is in an open() that nobody is about to answer: of a FIFO that
\* was made by an instance that is gone or has given it up, or that was
\* removed (client.c 449, 467).
Hangs(c) ==
  \/ at[c] = "incontrol" /\ ~HasReader(opens[c])
  \/ at[c] = "opening" /\ ~(data[c] = "made" /\ server[c] \in Procs /\ Listening(server[c]))

\* If from some time on one instance runs, and its FIFO is in place, every
\* client is connected from some time on, or hangs for ever: none polls, asks
\* and gives up without end (the auto-reconnect of client.c).
Reconnects ==
  <>[]Up /\ Timely => \A c \in Clients : <>[](at[c] = "reading") \/ <>[]Hangs(c)
=============================================================================
