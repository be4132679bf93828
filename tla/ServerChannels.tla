---------------------------- MODULE ServerChannels ----------------------------
(***************************************************************************)
(* The life of the channels of libmodal-pipe server.c: claiming, create,   *)
(* close and the wipe in between, called by application threads, and the   *)
(* request listener that a create starts and a close joins.  What a        *)
(* listener does with a request is in detail in ServerClients; here it     *)
(* takes the channel's mutex and adds a client or not.                     *)
(*                                                                         *)
(* mtx[ch] protects a channel from its own other users.  The look at the   *)
(* directories of the other channels, the running flag and the header are  *)
(* read without it.  The join has a timeout of a second and is done with   *)
(* the mutex held: a listener that waits for the mutex outlives it.        *)
(***************************************************************************)
EXTENDS Naturals

CONSTANTS
  Threads,       \* application threads
  Channels, Dirs,
  Listeners,     \* bound: request threads alive at a time
  NoChannel, NoDir, NoListener, NoThread,
  Fixed,         \* the channel numbers a thread uses without asking for one
  NumbersApart,  \* no thread is given one of them when it asks
  CreatesApart,  \* no two threads are in create at a time
  AnyoneCloses   \* a thread may close the channel of another one (close_all)

ASSUME ChannelsAssumption ==
  /\ NoChannel \notin Channels /\ NoDir \notin Dirs
  /\ NoListener \notin Listeners /\ Threads \intersect Listeners = {}
  /\ NoThread \notin Threads \union Listeners
  /\ Fixed \in [Threads -> SUBSET Channels]
  /\ NumbersApart \in BOOLEAN
  /\ CreatesApart \in BOOLEAN /\ AnyoneCloses \in BOOLEAN

VARIABLES
  pc,              \* where each application thread is
  target,          \* the channel of the call it is in
  wanted,          \* the directory it creates
  old_claim,
  owner,           \* who holds each channel, by a claim or a create (history)
  lost,            \* channels that a create has failed on and kept (history)
  claimed, running, base_dir, request_thread, mtx,
  has_clients,     \* whether a slot of the channel is in use
  header,          \* encode_header: NULL, or valid or freed memory
  files,           \* directories that exist, with a request FIFO
  lpc, lch,        \* where each listener is, and its channel
  stragglers       \* listeners that a close has left behind (history)

callVars == <<pc, target, wanted, old_claim>>
chanVars == <<running, base_dir, request_thread, has_clients>>
listVars == <<lpc, lch, stragglers>>
vars == <<callVars, owner, lost, claimed, chanVars, mtx, header, files, listVars>>

CreateStates == {"claim", "lock", "setdir", "make", "wipe", "undo"}
CloseStates  == {"close", "join", "remove", "clean", "unclaim"}
ListStates   == {"none", "loop", "reading", "lock", "adding"}

Init ==
  /\ pc = [t \in Threads |-> "idle"]
  /\ target = [t \in Threads |-> NoChannel]
  /\ wanted = [t \in Threads |-> NoDir]
  /\ old_claim = [t \in Threads |-> FALSE]
  /\ owner = [ch \in Channels |-> NoThread]
  /\ lost = {}
  /\ claimed = [ch \in Channels |-> FALSE]
  /\ running = [ch \in Channels |-> FALSE]
  /\ base_dir = [ch \in Channels |-> NoDir]
  /\ request_thread = [ch \in Channels |-> NoListener]
  /\ mtx = [ch \in Channels |-> NoThread]
  /\ has_clients = [ch \in Channels |-> FALSE]
  /\ header = [ch \in Channels |-> "null"]
  /\ files = {}
  /\ lpc = [l \in Listeners |-> "none"]
  /\ lch = [l \in Listeners |-> NoChannel]
  /\ stragglers = {}

Goto(t, next) == pc' = [pc EXCEPT ![t] = next]
Lock(ch, t) == mtx[ch] = NoThread /\ mtx' = [mtx EXCEPT ![ch] = t]
Unlock(ch) == mtx' = [mtx EXCEPT ![ch] = NoThread]
Returns(t) ==
  /\ Goto(t, "idle")
  /\ target' = [target EXCEPT ![t] = NoChannel]
  /\ wanted' = [wanted EXCEPT ![t] = NoDir]
  /\ old_claim' = [old_claim EXCEPT ![t] = FALSE]

LGoto(l, next) == lpc' = [lpc EXCEPT ![l] = next]
LEnds(l) == LGoto(l, "none") /\ lch' = [lch EXCEPT ![l] = NoChannel]

(* ------------------------------ claiming ------------------------------- *)

\* pipe_server_get_next_available_channel.
GetNext(t) ==
  /\ pc[t] = "idle"
  /\ \E ch \in Channels :
       /\ ~claimed[ch]
       /\ NumbersApart => \A u \in Threads : ch \notin Fixed[u]
       /\ claimed' = [claimed EXCEPT ![ch] = TRUE]
       /\ owner' = [owner EXCEPT ![ch] = t]
  /\ UNCHANGED <<callVars, lost, chanVars, mtx, header, files, listVars>>

\* What a thread creates is a channel it holds or one with its own number.
MayCreate(t) == Fixed[t] \union {ch \in Channels : owner[ch] = t}

(* ------------------------------- create -------------------------------- *)

Create(t) ==
  /\ pc[t] = "idle"
  /\ CreatesApart => \A u \in Threads : pc[u] \notin CreateStates
  /\ \E ch \in MayCreate(t), d \in Dirs :
       /\ target' = [target EXCEPT ![t] = ch]
       /\ wanted' = [wanted EXCEPT ![t] = d]
  /\ Goto(t, "claim")
  /\ UNCHANGED <<old_claim, owner, lost, claimed, chanVars, mtx, header, files,
                 listVars>>

\* mutant: a channel that runs is set up again.
ClaimOnly(t) ==
  /\ pc[t] = "claim"
  /\ LET ch == target[t] IN
       /\ claimed' = [claimed EXCEPT ![ch] = TRUE]
       /\ owner' = [owner EXCEPT ![ch] = IF @ = NoThread THEN t ELSE @]
       /\ old_claim' = [old_claim EXCEPT ![t] = claimed[ch]]
  /\ Goto(t, "lock")
  /\ UNCHANGED <<target, wanted, lost, chanVars, mtx, header, files, listVars>>

\* Claim the channel, then look at running.  Whoever may create a channel that
\* nobody holds, holds it from here.
ClaimForCreate(t) ==
  /\ pc[t] = "claim"
  /\ LET ch == target[t] IN
       /\ claimed' = [claimed EXCEPT ![ch] = TRUE]
       /\ owner' = [owner EXCEPT ![ch] = IF @ = NoThread THEN t ELSE @]
       /\ IF running[ch]
          THEN Returns(t)
          ELSE /\ old_claim' = [old_claim EXCEPT ![t] = claimed[ch]]
               /\ Goto(t, "lock")
               /\ UNCHANGED <<target, wanted>>
  /\ UNCHANGED <<lost, chanVars, mtx, header, files, listVars>>

\* mutant: a channel that is being closed does not count.
InUseByRunning(d) == \E ch \in Channels : running[ch] /\ base_dir[ch] = d

\* The directories of all channels are looked at, each without its own mutex.
InUse(d) == \E ch \in Channels : base_dir[ch] = d

LockForCreate(t) ==
  /\ pc[t] = "lock"
  /\ Lock(target[t], t)
  /\ Goto(t, IF InUse(wanted[t]) THEN "undo" ELSE "setdir")
  /\ UNCHANGED <<target, wanted, old_claim, owner, lost, claimed, chanVars, header,
                 files, listVars>>

SetDir(t) ==
  /\ pc[t] = "setdir"
  /\ base_dir' = [base_dir EXCEPT ![target[t]] = wanted[t]]
  /\ Goto(t, "make")
  /\ UNCHANGED <<target, wanted, old_claim, owner, lost, claimed, running,
                 request_thread, has_clients, mtx, header, files, listVars>>

\* Directory, info, request FIFO: all made, and the threads started with the
\* mutex held.
MakeFiles(t) ==
  /\ pc[t] = "make"
  /\ files' = files \union {wanted[t]}
  /\ \E l \in Listeners :
       /\ lpc[l] = "none" /\ \A ch \in Channels : request_thread[ch] # l
       /\ lpc' = [lpc EXCEPT ![l] = "loop"]
       /\ lch' = [lch EXCEPT ![l] = target[t]]
       /\ request_thread' = [request_thread EXCEPT ![target[t]] = l]
  /\ running' = [running EXCEPT ![target[t]] = TRUE]
  /\ Unlock(target[t])
  /\ Returns(t)
  /\ UNCHANGED <<owner, lost, claimed, base_dir, has_clients,
                 header, stragglers>>

\* One of them fails; the info file cannot be written or anything else.
MakeFails(t) ==
  /\ pc[t] = "make"
  /\ files' \in {files, files \union {wanted[t]}}
  /\ \E next \in {"wipe", "undo"} : Goto(t, next)
  /\ base_dir' = [base_dir EXCEPT ![target[t]] = NoDir]
  /\ header' = [header EXCEPT ![target[t]] = IF @ = "null" THEN @ ELSE "freed"]
  /\ UNCHANGED <<target, wanted, old_claim, owner, lost, claimed, running,
                 request_thread, has_clients, mtx, listVars>>

\* A failed create leaves the channel to the thread that had asked for it, and
\* otherwise to nobody.
LeavesChannel(t) ==
  LET ch == target[t] IN
  /\ owner' = [owner EXCEPT ![ch] =
                  IF old_claim[t] /\ ch \notin lost THEN @ ELSE NoThread]
  /\ Returns(t)

\* Its claim: given back, if the create made it.
GivesBack(t) ==
  /\ claimed' = [claimed EXCEPT ![target[t]] = old_claim[t]]
  /\ LeavesChannel(t)
  /\ UNCHANGED lost

\* mutant: the error path returns with the mutex held.
KeepClaimAndMutex(t) ==
  /\ pc[t] = "wipe"
  /\ LeavesChannel(t)
  /\ UNCHANGED <<lost, claimed, chanVars, mtx, header, files, listVars>>

\* The error path of the info file ends here: the claim is kept, also one that
\* this create has made.
KeepClaim(t) ==
  /\ pc[t] = "wipe"
  /\ Unlock(target[t])
  /\ lost' = IF old_claim[t] THEN lost ELSE lost \union {target[t]}
  /\ LeavesChannel(t)
  /\ UNCHANGED <<claimed, chanVars, header, files, listVars>>

\* mutant: the claim is kept on this error path too.
UndoNoClaim(t) ==
  /\ pc[t] = "undo"
  /\ Unlock(target[t])
  /\ LeavesChannel(t)
  /\ UNCHANGED <<lost, claimed, chanVars, header, files, listVars>>

\* The others give the channel back, if it was not claimed before.
UndoClaim(t) ==
  /\ pc[t] = "undo"
  /\ Unlock(target[t])
  /\ GivesBack(t)
  /\ UNCHANGED <<chanVars, header, files, listVars>>

\* A name or location that is no good is found out before the mutex is taken.
RefuseInfo(t) ==
  /\ pc[t] = "lock"
  /\ GivesBack(t)
  /\ UNCHANGED <<chanVars, mtx, header, files, listVars>>

(* -------------------------------- close -------------------------------- *)

\* Nothing to do for a channel that is not running; no mutex yet.
Close(t) ==
  /\ pc[t] = "idle"
  /\ \E ch \in Channels :
       /\ running[ch]
       /\ AnyoneCloses \/ owner[ch] = t
       /\ target' = [target EXCEPT ![t] = ch]
  /\ Goto(t, "close")
  /\ UNCHANGED <<wanted, old_claim, owner, lost, claimed, chanVars, mtx, header,
                 files, listVars>>

\* running = 0 and SIGUSR1: it ends a read() the listener is in, not one that
\* it is about to begin.
StopListener(t) ==
  /\ pc[t] = "close"
  /\ Lock(target[t], t)
  /\ running' = [running EXCEPT ![target[t]] = FALSE]
  /\ LET l == request_thread[target[t]] IN
       \/ UNCHANGED <<lpc, lch>>
       \/ l \in Listeners /\ lpc[l] = "reading" /\ LEnds(l)
  /\ Goto(t, "join")
  /\ UNCHANGED <<target, wanted, old_claim, owner, lost, claimed, base_dir,
                 request_thread, has_clients, header, files, stragglers>>

\* mutant: the listener is not joined.
JoinNobody(t) ==
  /\ pc[t] = "join"
  /\ Goto(t, "remove")
  /\ UNCHANGED <<target, wanted, old_claim, owner, lost, claimed, chanVars, mtx,
                 header, files, listVars>>

\* A listener can take longer than the second: it waits for the mutex, or for
\* the next request.
JoinListener(t) ==
  /\ pc[t] = "join"
  /\ LET l == request_thread[target[t]]
         ended == l \in Listeners => lpc[l] = "none"
     IN \/ ended /\ UNCHANGED stragglers
        \/ /\ ~ended /\ lpc[l] \in {"lock", "reading"}
           /\ stragglers' = stragglers \union {l}
  /\ Goto(t, "remove")
  /\ UNCHANGED <<target, wanted, old_claim, owner, lost, claimed, chanVars, mtx,
                 header, files, lpc, lch>>

\* Close the descriptors, remove the FIFOs and the directory.
RemoveFiles(t) ==
  /\ pc[t] = "remove"
  /\ files' = files \ {base_dir[target[t]]}
  /\ Goto(t, "clean")
  /\ UNCHANGED <<target, wanted, old_claim, owner, lost, claimed, chanVars, mtx,
                 header, listVars>>

\* _wipe_channel: encode_header is freed and not set to NULL.
Wipe(t) ==
  /\ pc[t] = "clean"
  /\ base_dir' = [base_dir EXCEPT ![target[t]] = NoDir]
  /\ running' = [running EXCEPT ![target[t]] = FALSE]
  /\ request_thread' = [request_thread EXCEPT ![target[t]] = NoListener]
  /\ has_clients' = [has_clients EXCEPT ![target[t]] = FALSE]
  /\ header' = [header EXCEPT ![target[t]] = IF @ = "null" THEN @ ELSE "freed"]
  /\ Unlock(target[t])
  /\ Goto(t, "unclaim")
  /\ UNCHANGED <<target, wanted, old_claim, owner, lost, claimed, files, listVars>>

Unclaim(t) ==
  /\ pc[t] = "unclaim"
  /\ claimed' = [claimed EXCEPT ![target[t]] = FALSE]
  /\ owner' = [owner EXCEPT ![target[t]] = NoThread]
  /\ lost' = lost \ {target[t]}
  /\ Returns(t)
  /\ UNCHANGED <<chanVars, mtx, header, files, listVars>>

(* ---------------------- camera thread and listener --------------------- *)

\* pipe_server_write_camera_frame with a stream header: realloc.
SaveHeader(t) ==
  /\ pc[t] = "idle"
  /\ \E ch \in Channels :
       /\ owner[ch] = t /\ running[ch]
       /\ header' = [header EXCEPT ![ch] = "valid"]
  /\ UNCHANGED <<callVars, owner, lost, claimed, chanVars, mtx, files, listVars>>

\* while(running)
ListenerLoops(l) ==
  /\ lpc[l] = "loop"
  /\ IF running[lch[l]]
     THEN LGoto(l, "reading") /\ UNCHANGED <<lch, stragglers>>
     ELSE LEnds(l) /\ stragglers' = stragglers \ {l}
  /\ UNCHANGED <<callVars, owner, lost, claimed, chanVars, mtx, header, files>>

\* A request; add_client looks at running before it takes the mutex.
ReadRequest(l) ==
  /\ lpc[l] = "reading"
  /\ base_dir[lch[l]] \in files
  /\ LGoto(l, IF running[lch[l]] THEN "lock" ELSE "loop")
  /\ UNCHANGED <<callVars, owner, lost, claimed, chanVars, mtx, header, files, lch,
                 stragglers>>

LockToAdd(l) ==
  /\ lpc[l] = "lock"
  /\ Lock(lch[l], l)
  /\ LGoto(l, "adding")
  /\ UNCHANGED <<callVars, owner, lost, claimed, chanVars, header, files, lch,
                 stragglers>>

\* mutant: the new slot is set up after the mutex was released.
AddAnywhere(l) ==
  /\ lpc[l] = "adding"
  /\ has_clients' = [has_clients EXCEPT ![lch[l]] = TRUE]
  /\ Unlock(lch[l])
  /\ LGoto(l, "loop")
  /\ UNCHANGED <<callVars, owner, lost, claimed, running, base_dir, request_thread,
                 header, files, lch, stragglers>>

\* The client finds its FIFO in the directory it sent the request to.
AddClient(l) ==
  /\ lpc[l] = "adding"
  /\ base_dir[lch[l]] \in files
  /\ has_clients' = [has_clients EXCEPT ![lch[l]] = TRUE]
  /\ Unlock(lch[l])
  /\ LGoto(l, "loop")
  /\ UNCHANGED <<callVars, owner, lost, claimed, running, base_dir, request_thread,
                 header, files, lch, stragglers>>

AddFails(l) ==
  /\ lpc[l] = "adding"
  /\ Unlock(lch[l])
  /\ LGoto(l, "loop")
  /\ UNCHANGED <<callVars, owner, lost, claimed, chanVars, header, files, lch,
                 stragglers>>

(* ----------------------------------------------------------------------- *)

CallStep(t) ==
  \/ ClaimForCreate(t) \/ LockForCreate(t) \/ SetDir(t) \/ MakeFiles(t)
  \/ MakeFails(t) \/ KeepClaim(t) \/ UndoClaim(t) \/ RefuseInfo(t)
  \/ StopListener(t) \/ JoinListener(t) \/ RemoveFiles(t) \/ Wipe(t)
  \/ Unclaim(t)

ListenerStep(l) ==
  \/ ListenerLoops(l) \/ LockToAdd(l) \/ AddClient(l) \/ AddFails(l)

Next ==
  \/ \E t \in Threads :
       GetNext(t) \/ Create(t) \/ Close(t) \/ SaveHeader(t) \/ CallStep(t)
  \/ \E l \in Listeners : ReadRequest(l) \/ ListenerStep(l)

Spec == Init /\ [][Next]_vars

\* Threads are scheduled, and obtain a mutex that is free again and again.
FairSpec ==
  /\ Spec
  /\ \A t \in Threads : SF_vars(CallStep(t))
  /\ \A l \in Listeners : SF_vars(ListenerStep(l))

-----------------------------------------------------------------------------

TypeOK ==
  /\ pc \in [Threads -> {"idle"} \union CreateStates \union CloseStates]
  /\ \A t \in Threads : pc[t] = "idle" <=> target[t] = NoChannel
  /\ target \in [Threads -> Channels \union {NoChannel}]
  /\ wanted \in [Threads -> Dirs \union {NoDir}]
  /\ old_claim \in [Threads -> BOOLEAN]
  /\ owner \in [Channels -> Threads \union {NoThread}]
  /\ lost \subseteq Channels
  /\ claimed \in [Channels -> BOOLEAN] /\ running \in [Channels -> BOOLEAN]
  /\ base_dir \in [Channels -> Dirs \union {NoDir}]
  /\ request_thread \in [Channels -> Listeners \union {NoListener}]
  /\ mtx \in [Channels -> Threads \union Listeners \union {NoThread}]
  /\ \A ch \in Channels, t \in Threads : mtx[ch] = t => target[t] = ch
  /\ has_clients \in [Channels -> BOOLEAN]
  /\ header \in [Channels -> {"null", "valid", "freed"}]
  /\ files \subseteq Dirs
  /\ lpc \in [Listeners -> ListStates]
  /\ lch \in [Listeners -> Channels \union {NoChannel}]
  /\ \A l \in Listeners : lpc[l] = "none" <=> lch[l] = NoChannel
  /\ stragglers \subseteq Listeners

\* The directory a channel serves: that of a running one.
Served == [ch \in Channels |-> IF running[ch] THEN base_dir[ch] ELSE NoDir]

Register == INSTANCE ChannelRegister
  WITH holder <- owner, serves <- Served, attended <- has_clients

\* The channels are a register of numbers: whatever calls, failures and late
\* listeners do, only its holder opens and closes a channel, its directory is
\* its own, clients come while it is open and are gone when it is given back
\* (pipe_server_create, pipe_server_close, _wipe_channel).
RegisterSpec == Register!Spec

\* A channel that can be claimed is as it was at the start, whatever listener
\* of an earlier use is still about.
UnclaimedIsClean ==
  \A ch \in Channels :
    ~claimed[ch] => /\ ~running[ch] /\ base_dir[ch] = NoDir
                    /\ ~has_clients[ch] /\ request_thread[ch] = NoListener

\* A channel is claimed as long as somebody holds it, and by nobody else: a
\* failed create gives back what it took and no more (pipe_server_create).  The
\* exceptions are the channels of creates that failed on the info file.
ClaimsHaveOwners ==
  \A ch \in Channels : claimed[ch] <=> owner[ch] # NoThread \/ ch \in lost

\* Every claim that a failed create made is given back.
NoClaimLost == lost = {}

\* A create works on a channel that its thread holds: the claim is there "so
\* nothing else will claim it in the mean time" (server.c).
CreatesOwnChannel ==
  \A t \in Threads :
    pc[t] \in CreateStates \ {"claim"} => owner[target[t]] = t

\* No two channels use one directory.
DirsExclusive ==
  \A ch1, ch2 \in Channels :
    base_dir[ch1] = base_dir[ch2] /\ base_dir[ch1] # NoDir => ch1 = ch2

\* The directory and request FIFO of a running channel are there: no create
\* and no close of another channel takes them away.
FilesInPlace == \A ch \in Channels : running[ch] => base_dir[ch] \in files

\* A listener is that of its channel, or one that a close has left behind.
OneListenerUnlessLeft ==
  \A k, l \in Listeners \ stragglers :
    lpc[k] # "none" /\ lpc[l] # "none" /\ lch[k] = lch[l] => k = l

\* The requests of a channel are read by one thread.
OneListener ==
  \A k, l \in Listeners :
    lpc[k] = "reading" /\ lpc[l] = "reading" /\ lch[k] = lch[l]
    /\ running[lch[k]] => k = l

\* A wiped channel is "all 0's as if the program just started" (server.c).
HeaderIsWiped == \A ch \in Channels : header[ch] # "freed"

\* A thread that closes a channel stops a listener that is there.
ClosesWhatItSaw ==
  \A t \in Threads : pc[t] = "join" => request_thread[target[t]] # NoListener

\* Every create and close returns.
CallsReturn == \A t \in Threads : pc[t] # "idle" ~> pc[t] = "idle"
=============================================================================
