---------------------------- MODULE ClientChannel ----------------------------
(***************************************************************************)
(* One channel of libmodal-pipe client.c: the application's calls open,    *)
(* pause, resume and close, and the helper thread that connects to the     *)
(* server, reads the data pipe and runs the callback.  A callback may call *)
(* pause and close too ("can be safely called from within a helper         *)
(* thread").                                                               *)
(*                                                                         *)
(* What the threads share is read and written without a lock most of the   *)
(* time: mtx[ch] is held by connect and by the second half of pause and    *)
(* close.  Every look at a flag that another thread may change is a step.  *)
(* Joining a helper has a timeout, and so has waiting for callbacks; it    *)
(* may expire while the helper is where it can stay for longer.            *)
(* The server may be there or not at any time.  A helper that was created  *)
(* starts within the two seconds a stop waits for it.                      *)
(***************************************************************************)
EXTENDS Integers

CONSTANTS
  App,            \* the application's thread
  Helpers,        \* bound: helper threads alive at a time
  NoThread,
  Ion,            \* CLIENT_FLAG_EN_ION_BUF_HELPER, else the simple helper
  CallbackStops,  \* callbacks may call pause and close
  Overlap,        \* also while the application is in open or resume
  SocketFaults,   \* how the ION socket may fail: "connect", "recv"
  MaxBadPackets   \* bound: counted callbacks for which a packet with a wrong
                  \* magic number arrives

Threads == {App} \union Helpers

ASSUME ClientAssumption ==
  /\ App \notin Helpers /\ NoThread \notin Threads
  /\ Ion \in BOOLEAN /\ CallbackStops \in BOOLEAN /\ Overlap \in BOOLEAN
  /\ SocketFaults \subseteq {"connect", "recv"}
  /\ MaxBadPackets \in Nat

VARIABLES
  pc,                \* where each thread is; "none": not there, or ended
  op,                \* the call in which a thread stops the helper
  running, claimed, closing, cb_inflight,
  configured,        \* pipe_dir, req_path and helper_enabled are set
  noretry,           \* CLIENT_FLAG_DISABLE_AUTO_RECONNECT
  data_fd,           \* whether data_fd is open
  buf,               \* whether the read buffer is allocated
  helper_thread_id, helper_ready,
  mtx,               \* the thread that holds mtx[ch]
  stragglers         \* helpers that a stop has left behind (history)

flags == <<claimed, configured, noretry, closing>>
vars == <<pc, op, running, flags, cb_inflight, data_fd, buf,
          helper_thread_id, helper_ready, mtx, stragglers>>

OpenStates == {"setup", "resume", "spawn"}
StopStates == {"cbwait", "lock", "ready", "join", "fds", "unclaim"}
CallStates == OpenStates \union StopStates
LoopStates == {"start", "loop", "connect", "connlock", "connecting", "sleep",
               "read"}
UsesBuffer == {"reading", "eof", "got", "callback"}
States == {"none", "idle"} \union CallStates \union LoopStates \union UsesBuffer

Init ==
  /\ pc = [t \in Threads |-> IF t = App THEN "idle" ELSE "none"]
  /\ op = [t \in Threads |-> "none"]
  /\ running = FALSE /\ claimed = FALSE /\ configured = FALSE
  /\ noretry = FALSE /\ closing = FALSE
  /\ cb_inflight = 0
  /\ data_fd = FALSE /\ buf = FALSE
  /\ helper_thread_id = NoThread /\ helper_ready = FALSE
  /\ mtx = NoThread
  /\ stragglers = {}

Goto(t, next) == pc' = [pc EXCEPT ![t] = next]

\* mutant: a call from a helper thread ends the thread's loop.
ReturnedByExit(t) == "idle"

Returned(t) == IF t = App THEN "idle" ELSE "callback"

MayOpen == Overlap \/ \A h \in Helpers : pc[h] \notin StopStates

(* --------------------- open and resume (application) ------------------- *)

\* pipe_client_get_next_available_channel and the first half of open.
Open ==
  /\ pc[App] = "idle"
  /\ MayOpen
  /\ ~claimed /\ ~running
  /\ \E h \in Helpers : pc[h] = "none"
  /\ claimed' = TRUE
  /\ Goto(App, "setup")
  /\ UNCHANGED <<op, running, cb_inflight, configured, noretry, closing,
                 data_fd, buf, helper_thread_id, helper_ready, mtx,
                 stragglers>>

\* Under mtx; with CLIENT_FLAG_START_PAUSED that is all.
SetUp ==
  /\ pc[App] = "setup"
  /\ mtx = NoThread
  /\ configured' = TRUE /\ noretry' = FALSE /\ closing' = FALSE
  /\ cb_inflight' = 0
  /\ \E next \in {"idle", "resume"} : Goto(App, next)
  /\ UNCHANGED <<op, running, claimed, data_fd, buf, helper_thread_id,
                 helper_ready, mtx, stragglers>>

CallResume ==
  /\ pc[App] = "idle"
  /\ MayOpen
  /\ ~running /\ claimed /\ configured
  /\ \E h \in Helpers : pc[h] = "none"
  /\ Goto(App, "resume")
  /\ UNCHANGED <<op, running, flags, cb_inflight, data_fd, buf,
                 helper_thread_id, helper_ready, mtx, stragglers>>

Resume ==
  /\ pc[App] = "resume"
  /\ running' = (running \/ (claimed /\ configured))
  /\ Goto(App, IF ~running /\ claimed /\ configured THEN "spawn" ELSE "idle")
  /\ UNCHANGED <<op, flags, cb_inflight, data_fd, buf, helper_thread_id,
                 helper_ready, mtx, stragglers>>

Spawn ==
  /\ pc[App] = "spawn"
  /\ mtx = NoThread
  /\ \E h \in Helpers :
       /\ pc[h] = "none"
       /\ pc' = [pc EXCEPT ![App] = "idle", ![h] = "start"]
       /\ helper_thread_id' = h
  /\ UNCHANGED <<op, running, flags, cb_inflight, data_fd, buf, helper_ready,
                 mtx, stragglers>>

(* -------------- pause and close (application or callback) -------------- *)

MayCall(t) == \/ t = App /\ pc[t] = "idle"
              \/ /\ t \in Helpers /\ CallbackStops /\ pc[t] = "callback"
                 /\ Overlap \/ pc[App] \notin OpenStates

InOwnThread(t) == helper_thread_id = t

Pause(t) ==
  /\ MayCall(t)
  /\ running
  /\ op' = [op EXCEPT ![t] = "pause"]
  /\ Goto(t, "lock")
  /\ UNCHANGED <<running, flags, cb_inflight, data_fd, buf, helper_thread_id,
                 helper_ready, mtx, stragglers>>

\* A channel that is paused is not running: nothing is done for it.
Close(t) ==
  /\ MayCall(t)
  /\ running
  /\ op' = [op EXCEPT ![t] = "close"]
  /\ noretry' = TRUE /\ closing' = TRUE
  /\ Goto(t, IF InOwnThread(t) THEN "lock" ELSE "cbwait")
  /\ UNCHANGED <<running, claimed, configured, cb_inflight, data_fd, buf,
                 helper_thread_id, helper_ready, mtx, stragglers>>

\* mutant: every wakeup starts the three seconds again.
WaitForCallbacksAgain(t) ==
  /\ pc[t] = "cbwait"
  /\ Goto(t, IF cb_inflight > 0 THEN "cbwait" ELSE "lock")
  /\ UNCHANGED <<op, running, flags, cb_inflight, data_fd, buf,
                 helper_thread_id, helper_ready, mtx, stragglers>>

\* Until no callback is in flight, or for three seconds.
WaitForCallbacks(t) ==
  /\ pc[t] = "cbwait"
  /\ Goto(t, "lock")
  /\ UNCHANGED <<op, running, flags, cb_inflight, data_fd, buf,
                 helper_thread_id, helper_ready, mtx, stragglers>>

\* mutant: the read buffer is freed before the helper is joined.
StopRunningFreesBuffer(t) ==
  /\ pc[t] = "lock"
  /\ mtx = NoThread
  /\ mtx' = t
  /\ running' = FALSE
  /\ buf' = FALSE
  /\ Goto(t, IF InOwnThread(t) \/ ~configured THEN "fds" ELSE "ready")
  /\ stragglers' = IF InOwnThread(t) THEN stragglers \union {t} ELSE stragglers
  /\ UNCHANGED <<op, flags, cb_inflight, data_fd, helper_thread_id,
                 helper_ready>>

\* Lock mtx and enter _stop_helper_and_remove_pipe.  In its own thread, or
\* without a helper, there is nobody to wait for.
StopRunning(t) ==
  /\ pc[t] = "lock"
  /\ mtx = NoThread
  /\ mtx' = t
  /\ running' = FALSE
  /\ Goto(t, IF InOwnThread(t) \/ ~configured THEN "fds" ELSE "ready")
  /\ stragglers' = IF InOwnThread(t) THEN stragglers \union {t} ELSE stragglers
  /\ UNCHANGED <<op, flags, cb_inflight, data_fd, buf, helper_thread_id,
                 helper_ready>>

\* SIGUSR1 ends a read or a sleep of the helper; it has no effect at any other
\* place.  A helper that is not marked ready within two seconds is signalled
\* all the same, and not joined.
SignalHelper(t) ==
  /\ pc[t] = "ready"
  /\ LET h == helper_thread_id
         hit == CASE h \in Helpers /\ pc[h] = "reading" -> "eof"
                  [] h \in Helpers /\ pc[h] = "sleep" -> "loop"
                  [] h \in Helpers -> pc[h]
                  [] OTHER -> "none"
         on(next) == pc' = [x \in Threads |-> IF x = t THEN next
                                              ELSE IF x = h THEN hit
                                              ELSE pc[x]]
     IN \/ helper_ready /\ on("join") /\ UNCHANGED stragglers
        \/ ~helper_ready /\ hit # "start" /\ on("fds")
           /\ stragglers' = IF hit = "none" THEN stragglers
                                             ELSE stragglers \union {h}
  /\ UNCHANGED <<op, running, flags, cb_inflight, data_fd, buf,
                 helper_thread_id, helper_ready, mtx>>

\* mutant: the helper is not joined.
JoinNobody(t) ==
  /\ pc[t] = "join"
  /\ helper_ready' = FALSE
  /\ Goto(t, "fds")
  /\ UNCHANGED <<op, running, flags, cb_inflight, data_fd, buf,
                 helper_thread_id, mtx, stragglers>>

\* Where a helper may be for three seconds after running became 0: waiting for
\* mtx, in a read that began after the signal, or in a callback.
Lasting == {"connlock", "reading", "callback"} \union StopStates

\* pthread_timedjoin_np, with mtx held.
Join(t) ==
  /\ pc[t] = "join"
  /\ \/ pc[helper_thread_id] = "none" /\ UNCHANGED stragglers
     \/ pc[helper_thread_id] \in Lasting
        /\ stragglers' = stragglers \union {helper_thread_id}
  /\ helper_ready' = FALSE
  /\ Goto(t, "fds")
  /\ UNCHANGED <<op, running, flags, cb_inflight, data_fd, buf,
                 helper_thread_id, mtx>>

\* Close the descriptors and remove the pipe; close() also cleans the channel.
CloseFds(t) ==
  /\ pc[t] = "fds"
  /\ data_fd' = FALSE
  /\ mtx' = NoThread
  /\ op' = [op EXCEPT ![t] = "none"]
  /\ IF op[t] = "pause"
     THEN /\ Goto(t, Returned(t))
          /\ UNCHANGED <<running, flags, cb_inflight, buf, helper_thread_id>>
     ELSE /\ Goto(t, "unclaim")
          /\ running' = FALSE /\ configured' = FALSE /\ noretry' = FALSE
          /\ closing' = FALSE /\ cb_inflight' = 0 /\ buf' = FALSE
          /\ helper_thread_id' = NoThread
          /\ UNCHANGED claimed
  /\ UNCHANGED <<helper_ready, stragglers>>

Unclaim(t) ==
  /\ pc[t] = "unclaim"
  /\ claimed' = FALSE
  /\ Goto(t, Returned(t))
  /\ UNCHANGED <<op, running, configured, noretry, closing, cb_inflight,
                 data_fd, buf, helper_thread_id, helper_ready, mtx,
                 stragglers>>

(* --------------------------- the helper thread ------------------------- *)

HelperStarts(h) ==
  /\ pc[h] = "start"
  /\ helper_ready' = TRUE
  /\ buf' = TRUE
  /\ Goto(h, "loop")
  /\ UNCHANGED <<op, running, flags, cb_inflight, data_fd, helper_thread_id,
                 mtx, stragglers>>

\* while(running): connect first if there is no pipe.
HelperLoops(h) ==
  /\ pc[h] = "loop"
  /\ Goto(h, IF ~running THEN "none"
             ELSE IF ~data_fd /\ ~noretry THEN "connect" ELSE "read")
  /\ stragglers' = IF running THEN stragglers ELSE stragglers \ {h}
  /\ UNCHANGED <<op, running, flags, cb_inflight, data_fd, buf,
                 helper_thread_id, helper_ready, mtx>>

\* _exists(req_path), before mtx is taken.
LookForServer(h) ==
  /\ pc[h] = "connect"
  /\ \E next \in IF configured THEN {"connlock", "sleep"} ELSE {"sleep"} :
       Goto(h, next)
  /\ UNCHANGED <<op, running, flags, cb_inflight, data_fd, buf,
                 helper_thread_id, helper_ready, mtx, stragglers>>

LockToConnect(h) ==
  /\ pc[h] = "connlock"
  /\ mtx = NoThread
  /\ mtx' = h
  /\ Goto(h, "connecting")
  /\ UNCHANGED <<op, running, flags, cb_inflight, data_fd, buf,
                 helper_thread_id, helper_ready, stragglers>>

\* mutant: the path of the server is kept when the channel is cleaned.
ConnectsToOldPath(h) ==
  /\ pc[h] = "connecting"
  /\ data_fd' = TRUE
  /\ mtx' = NoThread
  /\ Goto(h, "read")
  /\ UNCHANGED <<op, running, flags, cb_inflight, buf, helper_thread_id,
                 helper_ready, stragglers>>

\* The request is sent.  From here on the helper may stay for ever, with mtx
\* held: open() of the control and of the data pipe and recv() have no timeout.
\* Or the data pipe is opened; running is not looked at again.
Connects(h) ==
  /\ pc[h] = "connecting"
  /\ configured
  /\ data_fd' = TRUE
  /\ mtx' = NoThread
  /\ Goto(h, "read")
  /\ UNCHANGED <<op, running, flags, cb_inflight, buf, helper_thread_id,
                 helper_ready, stragglers>>

\* The server is gone, the channel was cleaned, or nobody answers in time.
ConnectFails(h) ==
  /\ pc[h] = "connecting"
  /\ data_fd' \in {FALSE, data_fd}
  /\ mtx' = NoThread
  /\ Goto(h, "sleep")
  /\ UNCHANGED <<op, running, flags, cb_inflight, buf, helper_thread_id,
                 helper_ready, stragglers>>

\* The data pipe is open and the ION socket is not: connecting it fails, or
\* the server does not send the client id, and then mtx is not unlocked.
SocketFailure(h) ==
  /\ pc[h] = "connecting"
  /\ Ion /\ configured
  /\ data_fd' = TRUE
  /\ \E fault \in SocketFaults :
       mtx' = IF fault = "recv" THEN h ELSE NoThread
  /\ Goto(h, "sleep")
  /\ UNCHANGED <<op, running, flags, cb_inflight, buf, helper_thread_id,
                 helper_ready, stragglers>>

Awakes(h) ==
  /\ pc[h] = "sleep"
  /\ Goto(h, "loop")
  /\ UNCHANGED <<op, running, flags, cb_inflight, data_fd, buf,
                 helper_thread_id, helper_ready, mtx, stragglers>>

\* _read_helper up to the blocking read.
StartRead(h) ==
  /\ pc[h] = "read"
  /\ Goto(h, IF data_fd /\ buf THEN "reading" ELSE "loop")
  /\ UNCHANGED <<op, running, flags, cb_inflight, data_fd, buf,
                 helper_thread_id, helper_ready, mtx, stragglers>>

\* The blocking read returns data, or 0 since the server closed its end.
ReadReturns(h) ==
  /\ pc[h] = "reading"
  /\ \E next \in {"got", "eof"} : Goto(h, next)
  /\ UNCHANGED <<op, running, flags, cb_inflight, data_fd, buf,
                 helper_thread_id, helper_ready, mtx, stragglers>>

\* Nothing read.  If the channel still runs, the server has gone.
Disconnected(h) ==
  /\ pc[h] = "eof"
  /\ running' = (running /\ ~noretry)
  /\ data_fd' = (data_fd /\ ~running)
  /\ Goto(h, "loop")
  /\ UNCHANGED <<op, flags, cb_inflight, buf, helper_thread_id, helper_ready,
                 mtx, stragglers>>

\* Data that was read is delivered even if running is 0 by now.  The ION
\* helper counts its callbacks, and gives up the buffer when it closes.
Deliver(h) ==
  /\ pc[h] = "got"
  /\ Goto(h, IF Ion /\ closing THEN "loop" ELSE "callback")
  /\ cb_inflight' = IF Ion /\ ~closing THEN cb_inflight + 1 ELSE cb_inflight
  /\ UNCHANGED <<op, running, flags, data_fd, buf, helper_thread_id,
                 helper_ready, mtx, stragglers>>

\* Counted, and not uncounted.
DropBadPacket(h) ==
  /\ pc[h] = "got"
  /\ Ion /\ ~closing
  /\ cb_inflight < MaxBadPackets
  /\ cb_inflight' = cb_inflight + 1
  /\ Goto(h, "loop")
  /\ UNCHANGED <<op, running, flags, data_fd, buf, helper_thread_id,
                 helper_ready, mtx, stragglers>>

CallbackEnds(h) ==
  /\ pc[h] = "callback"
  /\ cb_inflight' = IF Ion THEN cb_inflight - 1 ELSE cb_inflight
  /\ Goto(h, "loop")
  /\ UNCHANGED <<op, running, flags, data_fd, buf, helper_thread_id,
                 helper_ready, mtx, stragglers>>

(* ----------------------------------------------------------------------- *)

OpenStep == SetUp \/ Resume \/ Spawn

StopStep(t) ==
  \/ WaitForCallbacks(t) \/ StopRunning(t) \/ SignalHelper(t) \/ Join(t)
  \/ CloseFds(t) \/ Unclaim(t)

ServerAnswers(h) == Connects(h) \/ ConnectFails(h) \/ SocketFailure(h)

HelperStep(h) ==
  \/ HelperStarts(h) \/ HelperLoops(h) \/ LookForServer(h) \/ LockToConnect(h)
  \/ Awakes(h) \/ StartRead(h) \/ Disconnected(h) \/ Deliver(h) \/ DropBadPacket(h)
  \/ CallbackEnds(h)

Next ==
  \/ Open \/ CallResume \/ OpenStep
  \/ \E t \in Threads : Pause(t) \/ Close(t) \/ StopStep(t)
  \/ \E h \in Helpers : HelperStep(h) \/ ServerAnswers(h) \/ ReadReturns(h)

Spec == Init /\ [][Next]_vars

\* Threads are scheduled and callbacks end; a mutex that is free again and
\* again is obtained.  The server need not answer.
FairSpec ==
  /\ Spec
  /\ SF_vars(OpenStep)
  /\ \A t \in Threads : SF_vars(StopStep(t))
  /\ \A h \in Helpers : SF_vars(HelperStep(h))

-----------------------------------------------------------------------------

TypeOK ==
  /\ pc \in [Threads -> States]
  /\ pc[App] \in {"idle"} \union CallStates
  /\ \A h \in Helpers :
       pc[h] \in {"none"} \union StopStates \union LoopStates \union UsesBuffer
  /\ op \in [Threads -> {"none", "pause", "close"}]
  /\ running \in BOOLEAN /\ claimed \in BOOLEAN /\ closing \in BOOLEAN
  /\ configured \in BOOLEAN /\ noretry \in BOOLEAN
  /\ data_fd \in BOOLEAN /\ buf \in BOOLEAN
  /\ cb_inflight \in Int
  /\ helper_thread_id \in Helpers \union {NoThread}
  /\ helper_ready \in BOOLEAN
  /\ mtx \in Threads \union {NoThread}
  /\ stragglers \subseteq Helpers

\* A channel that nobody has claimed is as it was at the start, also while a
\* helper thread of its last use has not ended yet: whoever gets its number
\* next does not inherit a connection or a running flag.
UnclaimedIsClean ==
  ~claimed => ~running /\ ~configured /\ ~data_fd /\ helper_thread_id = NoThread

\* A channel has one helper thread (client.c: "only one helper pthread per
\* channel"), not counting those that a pause or close has left behind because
\* it was called from them or did not wait any longer.
OneHelperUnlessLeft ==
  \A g, h \in Helpers \ stragglers : pc[g] # "none" /\ pc[h] # "none" => g = h

\* A helper that was not left behind reads into, and calls back with, a
\* buffer that is allocated: close() frees it after the join only.
BufferLives ==
  \A h \in Helpers \ stragglers : pc[h] \in UsesBuffer => buf

\* Never do two threads read the pipe or run the callback of one channel
\* (client.c: "only one helper pthread per channel").
OneHelper ==
  \A g, h \in Helpers :
    running /\ pc[g] \in UsesBuffer /\ pc[h] \in UsesBuffer => g = h

\* The count of callbacks in flight is that of the threads in a callback, as
\* long as nobody was left behind.
InflightCounts ==
  stragglers = {} /\ Ion =>
    (cb_inflight = IF \E h \in Helpers : pc[h] = "callback" THEN 1 ELSE 0)

\* No helper stays for ever where it waits for the server with mtx held
\* (client.c 449, 467, 527).
NobodyBlocked == \A h \in Helpers : []<>(pc[h] # "connecting")

\* A call of the application returns, unless a helper is blocked in connect:
\* no two threads wait for each other.
AppReturns == NobodyBlocked => (pc[App] \in CallStates ~> pc[App] = "idle")
=============================================================================
