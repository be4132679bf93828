------------------------- MODULE ServiceRestartProofs -------------------------
(***************************************************************************)
(* For any number of instances and clients, with crashes and signals at    *)
(* every step: as long as no two instances start at a time, the PID file   *)
(* names the one instance that is past kill_existing_process, and no       *)
(* instance takes away the request FIFO that another one listens on.       *)
(***************************************************************************)
EXTENDS ServiceRestart, TLAPS

\* One instance starts at a time.
OneStarts ==
  \A p, q \in Procs : pc[p] \in Starting /\ pc[q] \in Starting => p = q

\* An instance that waits for an old one waits for the one that runs.
WaitsForInstalled ==
  \A p, q \in Procs :
    pc[p] \in {"stop", "killed"} /\ pc[q] \in Installed => q = old_pid[p]

\* Once the old one is gone nobody runs and there is no PID file, until the
\* instance writes its own.
AloneBeforePidFile ==
  \A p \in Procs :
    /\ pc[p] \in {"handler", "access", "fopen"} => pidfile = NoPid
    /\ pc[p] = "fprintf" => pidfile = NoContent
    /\ pc[p] \in {"handler", "access", "fopen", "fprintf"} =>
         \A q \in Procs : pc[q] \notin Installed

PidInv ==
  OneStarts /\ PidFileNamesInstance /\ WaitsForInstalled /\ AloneBeforePidFile

\* The types, for the part that is about instances and the part about clients.
PidTypes ==
  /\ pc \in [Procs -> Phases]
  /\ main_running \in [Procs -> BOOLEAN]
  /\ told \subseteq Procs
  /\ old_pid \in [Procs -> Files]
  /\ pidfile \in Files \union {NoContent}

FileTypes ==
  /\ dir \in BOOLEAN /\ info \in BOOLEAN
  /\ request \in Files /\ control \in Files
  /\ data \in [Clients -> DataStates]
  /\ request_fd \in [Procs -> Files]
  /\ control_fd \in [Procs -> Files]
  /\ at \in [Clients -> Helping]
  /\ asked \in [Clients -> Files]
  /\ opens \in [Clients -> Files]
  /\ server \in [Clients -> Files]

\* TypeOK is the two parts, now and after a step.
LEMMA TypeParts ==
  /\ TypeOK <=> PidTypes /\ FileTypes
  /\ TypeOK' <=> PidTypes' /\ FileTypes'
BY DEF TypeOK, PidTypes, FileTypes

\* Closing FIFOs keeps the types of what that changes.
LEMMA CloseKeepsTypes ==
  ASSUME FileTypes, NEW p \in Procs
  PROVE  /\ CloseRequestFd(p) => /\ request_fd' \in [Procs -> Files]
                                 /\ asked' \in [Clients -> Files]
         /\ Forget(p) => /\ request_fd' \in [Procs -> Files]
                         /\ control_fd' \in [Procs -> Files]
                         /\ asked' \in [Clients -> Files]
BY DEF FileTypes, CloseRequestFd, Forget, Files

USE DEF NoHandler, Starting, Creating, Closing, Installed, Phases, Waiting, Helping,
        DataStates, Files, pidVars, fdVars

\* The initial state is of the types.
LEMMA TypeInit == Init => TypeOK
<1> SUFFICES ASSUME Init PROVE TypeOK
  OBVIOUS
<1>1. PidTypes
  BY DEF Init, PidTypes
<1>2. FileTypes
  BY DEF Init, FileTypes
<1> QED
  BY <1>1, <1>2, TypeParts

\* Every step of an instance keeps the types of the instances.
LEMMA PidTypeStep == PidTypes /\ [Next]_vars => PidTypes'
<1> SUFFICES ASSUME PidTypes, [Next]_vars PROVE PidTypes'
  OBVIOUS
<1> USE DEF PidTypes
<1>1. ASSUME NEW p \in Procs, Start(p) PROVE PidTypes'
  BY <1>1 DEF Start, Goto
<1>2. ASSUME NEW p \in Procs, Crash(p) PROVE PidTypes'
  BY <1>2 DEF Crash, Forget, Goto
<1>3. ASSUME NEW p \in Procs, Signal(p) PROVE PidTypes'
  BY <1>3 DEF Signal, Forget, Goto
<1>4. ASSUME NEW p \in Procs, NothingToKill(p) PROVE PidTypes'
  BY <1>4 DEF NothingToKill, Goto
<1>5. ASSUME NEW p \in Procs, Interrupt(p) PROVE PidTypes'
  <2>1. CASE pc[pidfile] \in NoHandler
    BY <1>5, <2>1 DEF Interrupt, Forget
  <2>2. CASE pc[pidfile] \notin NoHandler
    BY <1>5, <2>2 DEF Interrupt, Goto
  <2> QED BY <2>1, <2>2
<1>6. ASSUME NEW p \in Procs, OldIsGone(p) PROVE PidTypes'
  BY <1>6 DEF OldIsGone, Goto
<1>7. ASSUME NEW p \in Procs, ForceKill(p) PROVE PidTypes'
  BY <1>7 DEF ForceKill, Forget
<1>8. ASSUME NEW p \in Procs,
             EnableHandler(p) \/ CheckPidFile(p) \/ OpenPidFile(p) \/ WritePid(p)
      PROVE  PidTypes'
  BY <1>8 DEF EnableHandler, CheckPidFile, OpenPidFile, WritePid, Goto
<1>9. ASSUME NEW p \in Procs,
             SetRunning(p) \/ MakeDir(p) \/ WriteInfo(p) \/ MakeFifo(p) \/ OpenRequest(p)
             \/ MakeControl(p) \/ OpenControl(p)
      PROVE  PidTypes'
  BY <1>9 DEF SetRunning, MakeDir, WriteInfo, MakeFifo, OpenRequest, MakeControl,
       OpenControl, Goto
<1>10. ASSUME NEW p \in Procs,
              LeaveLoop(p) \/ CloseRequest(p) \/ UnlinkRequest(p) \/ CloseControl(p)
              \/ UnlinkControl(p) \/ RemoveOwnFiles(p) \/ RemoveOwnDir(p)
       PROVE  PidTypes'
  BY <1>10 DEF LeaveLoop, CloseRequest, UnlinkRequest, CloseControl, UnlinkControl,
       RemoveOwnFiles, RemoveOwnDir, Goto
<1>11. ASSUME NEW p \in Procs, RemovePid(p) \/ Exit(p) PROVE PidTypes'
  BY <1>11 DEF RemovePid, Exit, Forget, Goto
<1>12. ASSUME NEW p \in Procs, NEW c \in Clients, TakeRequest(p, c) \/ Answer(p, c)
       PROVE  PidTypes'
  BY <1>12 DEF TakeRequest, Answer, OpenDataForWriting, LastAttemptFails, RemoveData
<1>13. ASSUME NEW c \in Clients, ClientStep(c) PROVE PidTypes'
  BY <1>13 DEF ClientStep, FindServer, SendRequest, OpenFails, ClientEmptiesDir,
       ClientRemovesDir, OpenControlForWriting, ControlOpens, OpenData, GiveUp, LoseServer
<1>14. CASE UNCHANGED vars
  BY <1>14 DEF vars
<1> QED
  BY <1>1, <1>2, <1>3, <1>4, <1>5, <1>6, <1>7, <1>8, <1>9, <1>10, <1>11, <1>12,
     <1>13, <1>14 DEF Next, InstanceStep

\* Every step keeps the types of the files and the clients.
LEMMA FileTypeStep == PidTypes /\ FileTypes /\ [Next]_vars => FileTypes'
<1> SUFFICES ASSUME PidTypes, FileTypes, [Next]_vars PROVE FileTypes'
  OBVIOUS
<1>c. ASSUME NEW p \in Procs, Forget(p)
      PROVE  /\ request_fd' \in [Procs -> Files] /\ control_fd' \in [Procs -> Files]
             /\ asked' \in [Clients -> Files]
  BY <1>c, CloseKeepsTypes
<1> USE DEF FileTypes
<1>1. ASSUME NEW p \in Procs, Start(p) \/ NothingToKill(p) \/ OldIsGone(p)
      PROVE  FileTypes'
  BY <1>1 DEF Start, NothingToKill, OldIsGone, fileVars, clientVars
<1>2. ASSUME NEW p \in Procs, Crash(p) PROVE FileTypes'
  BY <1>2, <1>c DEF Crash, fileVars
<1>3. ASSUME NEW p \in Procs, Signal(p) PROVE FileTypes'
  <2>1. CASE pc[p] \in NoHandler
    BY <1>3, <1>c, <2>1 DEF Signal, fileVars
  <2>2. CASE pc[p] \notin NoHandler
    BY <1>3, <2>2 DEF Signal, fileVars
  <2> QED BY <2>1, <2>2
<1>5. ASSUME NEW p \in Procs, Interrupt(p) PROVE FileTypes'
  <2>1. CASE pc[pidfile] \in NoHandler
    BY <1>5, <1>c, <2>1 DEF Interrupt, fileVars
  <2>2. CASE pc[pidfile] \notin NoHandler
    BY <1>5, <2>2 DEF Interrupt, fileVars
  <2> QED BY <2>1, <2>2
<1>7. ASSUME NEW p \in Procs, ForceKill(p) PROVE FileTypes'
  <2>1. old_pid[p] \in Procs \/ old_pid[p] = NoPid
    BY DEF PidTypes
  <2>2. CASE old_pid[p] \in Procs
    BY <1>7, <1>c, <2>2 DEF ForceKill, fileVars
  <2>3. CASE old_pid[p] = NoPid
    BY <1>7, <2>3 DEF ForceKill, Forget, CloseRequestFd, fileVars
  <2> QED BY <2>1, <2>2, <2>3
<1>8. ASSUME NEW p \in Procs,
             EnableHandler(p) \/ CheckPidFile(p) \/ OpenPidFile(p) \/ WritePid(p)
             \/ SetRunning(p) \/ LeaveLoop(p) \/ RemovePid(p)
      PROVE  FileTypes'
  BY <1>8 DEF EnableHandler, CheckPidFile, OpenPidFile, WritePid, SetRunning, LeaveLoop,
       RemovePid, fileVars, clientVars
<1>9. ASSUME NEW p \in Procs,
             MakeDir(p) \/ WriteInfo(p) \/ MakeFifo(p) \/ OpenRequest(p)
             \/ MakeControl(p) \/ OpenControl(p)
      PROVE  FileTypes'
  BY <1>9 DEF MakeDir, WriteInfo, MakeFifo, OpenRequest, MakeControl, OpenControl, fileVars, clientVars
<1>10. ASSUME NEW p \in Procs, CloseRequest(p) PROVE FileTypes'
  BY <1>10, CloseKeepsTypes DEF CloseRequest, fileVars
<1>15. ASSUME NEW p \in Procs, Exit(p) PROVE FileTypes'
  BY <1>15, <1>c DEF Exit, fileVars
<1>11. ASSUME NEW p \in Procs, \/ UnlinkRequest(p) \/ CloseControl(p) \/ UnlinkControl(p)
              \/ RemoveOwnFiles(p) \/ RemoveOwnDir(p)
       PROVE  FileTypes'
  BY <1>11 DEF UnlinkRequest, CloseControl, UnlinkControl, RemoveOwnFiles, RemoveOwnDir,
       EmptyDir, RemoveDir, fileVars, clientVars
<1>12. ASSUME NEW p \in Procs, NEW c \in Clients, TakeRequest(p, c) \/ Answer(p, c)
       PROVE  FileTypes'
  BY <1>12 DEF TakeRequest, Answer, OpenDataForWriting, LastAttemptFails, RemoveData,
       fileVars, clientVars
<1>13. ASSUME NEW c \in Clients, ClientStep(c) PROVE FileTypes'
  BY <1>13 DEF ClientStep, FindServer, SendRequest, OpenFails, ClientEmptiesDir,
       ClientRemovesDir, OpenControlForWriting, ControlOpens, OpenData, GiveUp, LoseServer,
       EmptyDir, RemoveDir, fileVars
<1>14. CASE UNCHANGED vars
  BY <1>14 DEF vars, fileVars, clientVars
<1> QED
  BY <1>1, <1>2, <1>3, <1>5, <1>7, <1>8, <1>9, <1>10, <1>11, <1>12, <1>13, <1>14,
     <1>15
     DEF Next, InstanceStep

\* The types, whatever crashes and whoever starts when (start_stop.c,
\* pipe_server_create and close, _connect_to_server).
THEOREM TypeCorrect == Spec => []TypeOK
<1>1. TypeOK /\ [Next]_vars => TypeOK'
  BY PidTypeStep, FileTypeStep, TypeParts
<1> QED
  BY TypeInit, <1>1, PTL DEF Spec

(* --------------------------- one instance ------------------------------ *)

\* A step that leaves the PID file and what others wait for, and moves
\* instances only within Installed or to their end, keeps the invariant.
LEMMA QuietKeepsInv ==
  ASSUME PidInv, PidTypes, PidTypes', pidfile' = pidfile, old_pid' = old_pid,
         \A q \in Procs : \/ pc'[q] = pc[q]
                          \/ pc[q] \in Installed /\ pc'[q] \in Installed
                          \/ pc'[q] = "dead"
  PROVE  PidInv'
BY DEF PidInv, OneStarts, PidFileNamesInstance, WaitsForInstalled, AloneBeforePidFile

\* The initial state satisfies the invariant.
LEMMA PidInit == Init => PidInv
BY DEF Init, PidInv, OneStarts, PidFileNamesInstance, WaitsForInstalled,
       AloneBeforePidFile

\* Every step keeps the invariant, if instances start apart.
LEMMA PidStep ==
  ASSUME StartsApart, ~FopenFails, PidInv, PidTypes, PidTypes', [Next]_vars
  PROVE  PidInv'
<1> USE DEF Goto
<1> DEFINE Parts == OneStarts /\ PidFileNamesInstance /\ WaitsForInstalled
                    /\ AloneBeforePidFile
<1>p. Parts /\ PidTypes
  BY DEF PidInv
<1>q. ASSUME NEW p \in Procs, pidfile' = pidfile, old_pid' = old_pid,
             \A q \in Procs : q = p \/ pc'[q] = pc[q],
             \/ pc'[p] = pc[p]
             \/ pc'[p] = "dead"
             \/ (pc[p] \in Installed /\ pc'[p] \in Installed)
      PROVE  PidInv'
  BY <1>q, QuietKeepsInv
<1>1. ASSUME NEW p \in Procs, Start(p) PROVE PidInv'
  BY <1>1, <1>p DEF Start, PidInv, OneStarts, PidFileNamesInstance, WaitsForInstalled,
       AloneBeforePidFile, PidTypes
<1>2. ASSUME NEW p \in Procs, Crash(p) PROVE PidInv'
  <2>1. /\ pidfile' = pidfile /\ old_pid' = old_pid
        /\ \A q \in Procs : q = p \/ pc'[q] = pc[q]
        /\ pc'[p] = "dead"
    BY <1>2, <1>p DEF Crash, PidTypes
  <2> QED
    BY <2>1, <1>q
<1>3. ASSUME NEW p \in Procs, Signal(p) PROVE PidInv'
  <2>1. /\ pidfile' = pidfile /\ old_pid' = old_pid
        /\ \A q \in Procs : q = p \/ pc'[q] = pc[q]
        /\ pc'[p] = pc[p] \/ pc'[p] = "dead"
    <3>1. CASE pc[p] \in NoHandler
      BY <1>3, <3>1, <1>p DEF Signal, PidTypes
    <3>2. CASE pc[p] \notin NoHandler
      BY <1>3, <3>2, <1>p DEF Signal, PidTypes
    <3> QED BY <3>1, <3>2
  <2> QED
    BY <2>1, <1>q
<1>4. ASSUME NEW p \in Procs, NothingToKill(p) PROVE PidInv'
  <2>1. \A q \in Procs : pc[q] \notin Installed
    BY <1>4, <1>p DEF NothingToKill, PidFileNamesInstance, Alive
  <2> QED
    BY <1>4, <1>p, <2>1 DEF NothingToKill, PidInv, OneStarts, PidFileNamesInstance,
       WaitsForInstalled, AloneBeforePidFile, PidTypes
<1>5. ASSUME NEW p \in Procs, Interrupt(p) PROVE PidInv'
  <2>1. /\ pc[p] = "kill" /\ pidfile' = pidfile
        /\ old_pid' = [old_pid EXCEPT ![p] = pidfile]
        /\ \A q \in Procs : \/ q = p /\ pc'[q] \in {"stop", "dead"}
                            \/ q # p /\ pc'[q] \in {pc[q], "dead"}
    <3>1. CASE pc[pidfile] \in NoHandler
      BY <1>5, <3>1 DEF Interrupt, PidTypes
    <3>2. CASE pc[pidfile] \notin NoHandler
      BY <1>5, <3>2 DEF Interrupt, PidTypes
    <3> QED BY <3>1, <3>2
  <2>2. \A q \in Procs : pc[q] \in Installed => q = pidfile
    BY <1>p DEF PidFileNamesInstance
  <2> QED
    BY <2>1, <2>2, <1>p DEF PidInv, OneStarts, PidFileNamesInstance,
       WaitsForInstalled, AloneBeforePidFile, PidTypes
<1>6. ASSUME NEW p \in Procs, OldIsGone(p) PROVE PidInv'
  <2>1. \A q \in Procs : pc[q] \notin Installed
    BY <1>6, <1>p DEF OldIsGone, WaitsForInstalled, Alive
  <2> QED
    BY <1>6, <1>p, <2>1 DEF OldIsGone, PidInv, OneStarts, PidFileNamesInstance,
       WaitsForInstalled, AloneBeforePidFile, PidTypes
<1>7. ASSUME NEW p \in Procs, ForceKill(p) PROVE PidInv'
  <2>1. \A q \in Procs : \/ q = p /\ pc'[q] \in {"killed", "dead"}
                         \/ q # p /\ pc'[q] \in {pc[q], "dead"}
    BY <1>7 DEF ForceKill, PidTypes
  <2> QED
    BY <1>7, <2>1, <1>p DEF ForceKill, PidInv, OneStarts, PidFileNamesInstance,
       WaitsForInstalled, AloneBeforePidFile, PidTypes
<1>8. ASSUME NEW p \in Procs, EnableHandler(p) \/ CheckPidFile(p) \/ OpenPidFile(p)
      PROVE  PidInv'
  BY <1>8, <1>p DEF EnableHandler, CheckPidFile, OpenPidFile, PidInv, OneStarts,
     PidFileNamesInstance, WaitsForInstalled, AloneBeforePidFile, PidTypes
<1>9. ASSUME NEW p \in Procs, WritePid(p) PROVE PidInv'
  BY <1>9, <1>p DEF WritePid, PidInv, OneStarts, PidFileNamesInstance,
     WaitsForInstalled, AloneBeforePidFile, PidTypes
<1>10. ASSUME NEW p \in Procs,
              SetRunning(p) \/ MakeDir(p) \/ WriteInfo(p) \/ MakeFifo(p) \/ OpenRequest(p)
              \/ MakeControl(p) \/ OpenControl(p)
       PROVE  PidInv'
  BY <1>10, <1>q DEF SetRunning, MakeDir, WriteInfo, MakeFifo, OpenRequest, MakeControl,
     OpenControl, PidTypes
<1>11. ASSUME NEW p \in Procs,
              LeaveLoop(p) \/ CloseRequest(p) \/ UnlinkRequest(p) \/ CloseControl(p)
              \/ UnlinkControl(p) \/ RemoveOwnFiles(p) \/ RemoveOwnDir(p) \/ Exit(p)
       PROVE  PidInv'
  BY <1>11, <1>q DEF LeaveLoop, CloseRequest, UnlinkRequest, CloseControl, UnlinkControl,
     RemoveOwnFiles, RemoveOwnDir, Exit, PidTypes
<1>12. ASSUME NEW p \in Procs, RemovePid(p) PROVE PidInv'
  <2>1. \A q \in Procs : pc[q] \in Installed => q = p
    BY <1>12, <1>p DEF RemovePid, PidFileNamesInstance
  <2> QED
    BY <1>12, <1>p, <2>1 DEF RemovePid, PidInv, OneStarts, PidFileNamesInstance,
       WaitsForInstalled, AloneBeforePidFile, PidTypes
<1>13. ASSUME NEW p \in Procs, NEW c \in Clients, TakeRequest(p, c) \/ Answer(p, c)
       PROVE  PidInv'
  BY <1>13, QuietKeepsInv DEF TakeRequest, Answer, OpenDataForWriting, LastAttemptFails,
     RemoveData
<1>14. ASSUME NEW c \in Clients, ClientStep(c) PROVE PidInv'
  BY <1>14, QuietKeepsInv DEF ClientStep, FindServer, SendRequest, OpenFails,
     ClientEmptiesDir, ClientRemovesDir, OpenControlForWriting, ControlOpens, OpenData,
     GiveUp, LoseServer
<1>15. CASE UNCHANGED vars
  BY <1>15, QuietKeepsInv DEF vars
<1> QED
  BY <1>1, <1>2, <1>3, <1>4, <1>5, <1>6, <1>7, <1>8, <1>9, <1>10, <1>11, <1>12,
     <1>13, <1>14, <1>15 DEF Next, InstanceStep

\* The invariant holds throughout.
LEMMA PidInvariant == ASSUME StartsApart, ~FopenFails PROVE Spec => []PidInv
<1>1. TypeOK /\ TypeOK' /\ PidInv /\ [Next]_vars => PidInv'
  BY PidStep, TypeParts
<1> QED
  BY PidInit, TypeCorrect, <1>1, PTL DEF Spec

\* As long as instances start apart, the PID file names the one that runs,
\* also after crashes and forced kills (make_pid_file, remove_pid_file).
THEOREM PidFileIsRight ==
  ASSUME StartsApart, ~FopenFails PROVE Spec => []PidFileNamesInstance
BY PidInvariant, PTL DEF PidInv

\* As long as instances start apart, no two are past kill_existing_process
\* ("if you only want one instance of a process").
THEOREM OneInstanceOnly ==
  ASSUME StartsApart, ~FopenFails PROVE Spec => []OneInstance
<1>1. TypeOK /\ PidInv => OneInstance
  BY DEF PidInv, OneStarts, PidFileNamesInstance, AloneBeforePidFile, OneInstance,
     Past, TypeOK
<1> QED
  BY PidInvariant, TypeCorrect, <1>1, PTL

(* ---------------------- the FIFO that is listened on ------------------- *)

\* What an instance that is past kill_existing_process does to a request FIFO
\* that is listened on, it does to its own.
LEMMA SpareStep ==
  ASSUME PidInv, FileTypes, [Next]_vars, NEW p \in Procs, Listening(p), request = request_fd[p],
         request_fd'[p] = request_fd[p], request' # request
  PROVE  \E c \in Clients : at[c] = "rmfiles" /\ at'[c] = "rmdir"
<1>1. pc[p] \in {"run", "close"} /\ pidfile = p
  BY DEF Listening, PidInv, PidFileNamesInstance
<1>n. request # NoPid
  BY DEF Listening
<1>2. ASSUME NEW q \in Procs, UnlinkRequest(q) \/ RemoveOwnFiles(q) \/ RemoveOwnDir(q)
      PROVE  FALSE
  <2>1. pc[q] \in Closing \ {"close"}
    BY <1>2 DEF UnlinkRequest, RemoveOwnFiles, RemoveOwnDir
  <2>2. pidfile = q
    BY <2>1 DEF PidInv, PidFileNamesInstance
  <2> QED
    BY <1>1, <2>1, <2>2
<1>3. ASSUME NEW q \in Procs, MakeFifo(q)
      PROVE  FALSE
  BY <1>3, <1>n DEF MakeFifo
<1>4. ASSUME NEW q \in Procs,
             \/ Start(q) \/ Crash(q) \/ Signal(q)
             \/ InstanceStep(q) /\ ~UnlinkRequest(q) /\ ~RemoveOwnFiles(q)
                /\ ~RemoveOwnDir(q) /\ ~MakeFifo(q)
      PROVE  FALSE
  BY <1>4 DEF Start, Crash, Signal, InstanceStep, NothingToKill, Interrupt, OldIsGone,
     ForceKill, EnableHandler, CheckPidFile, OpenPidFile, WritePid, SetRunning, MakeDir,
     WriteInfo, OpenRequest, MakeControl, OpenControl, LeaveLoop, CloseRequest,
     CloseControl, UnlinkControl, RemovePid, Exit, fileVars
<1>5. ASSUME NEW q \in Procs, NEW c \in Clients, TakeRequest(q, c) \/ Answer(q, c)
      PROVE  FALSE
  BY <1>5 DEF TakeRequest, Answer, OpenDataForWriting, LastAttemptFails, RemoveData,
     fileVars
<1>6. PICK c \in Clients : ClientStep(c)
  BY <1>2, <1>3, <1>4, <1>5 DEF Next, vars, fileVars
<1>7. ClientEmptiesDir(c)
  BY <1>6 DEF ClientStep, FindServer, SendRequest, OpenFails, ClientRemovesDir, RemoveDir,
     OpenControlForWriting, ControlOpens, OpenData, GiveUp, LoseServer, fileVars
<1> QED
  BY <1>7 DEF ClientEmptiesDir, FileTypes

\* As long as instances start apart, none unlinks the request FIFO another
\* one listens on, neither the instance that is replaced and closes its pipes
\* late nor the one that replaces it (pipe_server_close, _remove_recursive).
THEOREM FifosAreSpared ==
  ASSUME StartsApart, ~FopenFails PROVE Spec => InstancesSpareEachOther
<1>1. TypeOK /\ PidInv /\ [Next]_vars =>
        [\A p \in Procs :
           Listening(p) /\ request = request_fd[p]
           /\ request_fd'[p] = request_fd[p] /\ request' # request
           => \E c \in Clients : at[c] = "rmfiles" /\ at'[c] = "rmdir"]_vars
  BY SpareStep, TypeParts
<1> QED
  BY <1>1, TypeCorrect, PidInvariant, PTL DEF Spec, InstancesSpareEachOther
=============================================================================
