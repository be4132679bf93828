---------------------------- MODULE ServerClients ----------------------------
(***************************************************************************)
(* The client table of one server channel (libmodal-pipe server.c), the    *)
(* three threads that touch it and the client processes at the other end   *)
(* of the FIFOs:                                                           *)
(*                                                                         *)
(*  - "req", the request listener: reads names from the request pipe and   *)
(*    runs pipe_server_add_client under mtx[ch];                           *)
(*  - "mon", the disconnect monitor: reads inotify events and runs         *)
(*    _disconnect_client_by_name;                                          *)
(*  - "wr", the application thread that calls pipe_server_write.           *)
(*                                                                         *)
(* mtx[ch] is taken by "req" only, so it is implicit in pc["req"]; the     *)
(* per-client mutexes are client_mtx.  What a thread does between taking   *)
(* and releasing a client mutex is one step unless another thread reads    *)
(* what it changes without the mutex: state, names and the FIFO directory. *)
(* The channel carries no encoded video (encode_header = NULL), and        *)
(* data_fd[i] is open exactly when state[i] is INITIALIZED or CONNECTED.   *)
(* A client draws its FIFO name at random out of 10^8 names: a name is the *)
(* identity of a client here, and may be drawn again once it is unused.    *)
(***************************************************************************)
EXTENDS Integers, Sequences

CONSTANTS
  Clients,      \* the FIFO names that clients ask for
  NoName,       \* client_names[i] of a slot that was never used
  NClient,      \* N_CLIENT, 16 in the code
  ReqBatch,     \* how many requests one read() of the request pipe returns
  MaxRequests,  \* bound: requests waiting in the request pipe
  MaxEvents,    \* bound: events waiting in the inotify queue
  Writing,      \* whether the application writes to the channel
  SetupCanFail  \* whether the steps after CLIENT_INITIALIZED can fail

ASSUME ServerClientsAssumption ==
  /\ NoName \notin Clients
  /\ NClient \in Nat \ {0}
  /\ ReqBatch \in Nat \ {0}
  /\ MaxRequests \in Nat
  /\ MaxEvents \in Nat
  /\ Writing \in BOOLEAN
  /\ SetupCanFail \in BOOLEAN

VARIABLES
  cl,          \* what the client is doing: see ClientStates
  at,          \* the slot that holds the write end of the client's pipe
  fifos,       \* names present in the channel's directory
  requests,    \* the request pipe
  events,      \* the inotify queue: names of closed read ends
  state,       \* client_state
  names,       \* client_names (data_path is base_dir + the same name)
  n_clients,
  backlog,     \* the slots whose pipe has no room for the next write
  client_mtx,  \* the thread holding the mutex, or "free"
  pc,          \* where each server thread is
  cur,         \* the slot each server thread is working on
  handling     \* the name each server thread is working on

clientVars == <<cl, at>>
tableVars  == <<state, names, n_clients, client_mtx>>
vars == <<cl, at, fifos, requests, events, state, names, n_clients, backlog,
          client_mtx, pc, cur, handling>>

Slots   == 0 .. NClient - 1
Threads == {"req", "mon", "wr"}

UNINITIALIZED == "uninitialized"
INITIALIZED   == "initialized"
CONNECTED     == "connected"
DISCONNECTED  == "disconnected"
SlotStates == {UNINITIALIZED, INITIALIZED, CONNECTED, DISCONNECTED}

(* A client is idle, has asked for its FIFO and polls for it, blocks in    *)
(* open() of the FIFO, blocks there for ever because the FIFO is unlinked, *)
(* or has the pipe open.                                                   *)
ClientStates == {"idle", "asked", "opening", "stuck", "open"}

(* Where the write end of an open client's pipe is when not in a slot.     *)
InHand == -1   \* opened by add_client, not yet stored in data_fd
Closed == -2   \* no write end, or no pipe at all

Live(i)  == state[i] \in {INITIALIZED, CONNECTED}
Reader(i) == \E x \in Clients : at[x] = i

Goto(t, label)     == pc' = [pc EXCEPT ![t] = label]
AdvanceTo(t, i)    == cur' = [cur EXCEPT ![t] = i]
HandleName(t, x)   == handling' = [handling EXCEPT ![t] = x]

(* A thread goes back to its blocking read(): its locals are dead.         *)
Return(t) == Goto(t, "idle") /\ AdvanceTo(t, 0) /\ HandleName(t, NoName)

(* Unlinking a FIFO strands a client that blocks in open() on it.          *)
Unlink(x) ==
  /\ fifos' = fifos \ {x}
  /\ cl' = [y \in Clients |-> IF y = x /\ cl[y] = "opening" THEN "stuck" ELSE cl[y]]

TypeOK ==
  /\ cl \in [Clients -> ClientStates]
  /\ at \in [Clients -> Slots \cup {InHand, Closed}]
  /\ fifos \in SUBSET Clients
  /\ requests \in Seq(Clients)
  /\ events \in Seq(Clients)
  /\ state \in [Slots -> SlotStates]
  /\ names \in [Slots -> Clients \cup {NoName}]
  /\ n_clients \in 0 .. NClient
  /\ backlog \in SUBSET Slots
  /\ client_mtx \in [Slots -> Threads \cup {"free"}]
  /\ pc \in [Threads -> {"idle", "scan", "open", "giveup", "name", "activate",
                         "compare", "lock", "remove", "callback"}]
  /\ cur \in [Threads -> 0 .. NClient]
  /\ handling \in [Threads -> Clients \cup {NoName}]

Init ==
  /\ cl = [x \in Clients |-> "idle"]
  /\ at = [x \in Clients |-> Closed]
  /\ fifos = {}
  /\ requests = <<>>
  /\ events = <<>>
  /\ state = [i \in Slots |-> UNINITIALIZED]
  /\ names = [i \in Slots |-> NoName]
  /\ n_clients = 0
  /\ backlog = {}
  /\ client_mtx = [i \in Slots |-> "free"]
  /\ pc = [t \in Threads |-> "idle"]
  /\ cur = [t \in Threads |-> 0]
  /\ handling = [t \in Threads |-> NoName]

-----------------------------------------------------------------------------
(* Client processes                                                        *)

(* Draw a name no FIFO has and write it to the request pipe.               *)
Ask(x) ==
  /\ cl[x] = "idle"
  /\ x \notin fifos
  /\ Len(requests) < MaxRequests
  /\ requests' = Append(requests, x)
  /\ cl' = [cl EXCEPT ![x] = "asked"]
  /\ UNCHANGED <<at, fifos, events, tableVars, backlog, pc, cur, handling>>

(* The FIFO exists: open(O_RDONLY) blocks until there is a writer.         *)
OpenFifo(x) ==
  /\ cl[x] = "asked"
  /\ x \in fifos
  /\ cl' = [cl EXCEPT ![x] = "opening"]
  /\ UNCHANGED <<at, fifos, requests, events, tableVars, backlog, pc, cur, handling>>

(* The last of 500 attempts to open the FIFO failed.                       *)
ClientTimeout(x) ==
  /\ cl[x] = "asked"
  /\ x \notin fifos
  /\ cl' = [cl EXCEPT ![x] = "idle"]
  /\ UNCHANGED <<at, fifos, requests, events, tableVars, backlog, pc, cur, handling>>

(* A client that waits for its pipe is killed: no read end is closed.      *)
CrashWaiting(x) ==
  /\ cl[x] \in {"asked", "opening", "stuck"}
  /\ cl' = [cl EXCEPT ![x] = "idle"]
  /\ UNCHANGED <<at, fifos, requests, events, tableVars, backlog, pc, cur, handling>>

(* The read end is closed: by an orderly stop, which also unlinks the      *)
(* FIFO, or by a crash or a reconnect, which does not.                     *)
CloseReader(x) ==
  /\ cl[x] = "open"
  /\ Len(events) < MaxEvents
  /\ cl' = [cl EXCEPT ![x] = "idle"]
  /\ at' = [at EXCEPT ![x] = Closed]
  /\ events' = Append(events, x)
  /\ fifos' \in {fifos, fifos \ {x}}
  /\ UNCHANGED <<requests, tableVars, backlog, pc, cur, handling>>

DrainPipe(x) ==
  /\ at[x] \in Slots
  /\ backlog' = backlog \ {at[x]}
  /\ UNCHANGED <<clientVars, fifos, requests, events, tableVars, pc, cur, handling>>

-----------------------------------------------------------------------------
(* The request listener and pipe_server_add_client                         *)

(* Mutant: the duplicate check misses the last slot.                       *)
NameTakenButLast(x) == \E i \in 0 .. n_clients - 2 : Live(i) /\ names[i] = x

(* add_client's check for a duplicate name looks below n_clients only.     *)
NameTaken(x) == \E i \in 0 .. n_clients - 1 : Live(i) /\ names[i] = x

(* One read() returns every request that is waiting, up to its buffer      *)
(* size, and only the first name in the buffer is served.                  *)
TakeRequest ==
  /\ pc["req"] = "idle"
  /\ requests # <<>>
  /\ requests' = SubSeq(requests, ReqBatch + 1, Len(requests))
  /\ IF NameTaken(Head(requests))
       THEN UNCHANGED <<pc, handling>>
       ELSE Goto("req", "scan") /\ HandleName("req", Head(requests))
  /\ UNCHANGED <<clientVars, fifos, events, tableVars, backlog, cur>>

(* Mutant: a slot nothing was written to yet counts as free.               *)
FreeUntilConnected(i) == state[i] # CONNECTED

Free(i) == state[i] \in {UNINITIALIZED, DISCONNECTED}

(* Search for a free slot from 0; the slot found gets its FIFO made.       *)
FindSlot ==
  /\ pc["req"] = "scan"
  /\ LET i == cur["req"] IN
       \/ /\ i = NClient             \* too many clients
          /\ Return("req")
          /\ UNCHANGED fifos
       \/ /\ i < NClient
          /\ ~Free(i)
          /\ AdvanceTo("req", i + 1)
          /\ UNCHANGED <<pc, fifos, handling>>
       \/ /\ i < NClient
          /\ Free(i)
          /\ fifos' = fifos \cup {handling["req"]}   \* mkfifo, EEXIST is fine
          /\ Goto("req", "open")
          /\ UNCHANGED <<cur, handling>>
  /\ UNCHANGED <<clientVars, requests, events, tableVars, backlog>>

(* open(O_WRONLY | O_NONBLOCK) succeeds once the client is in its open().  *)
OpenPipe ==
  /\ pc["req"] = "open"
  /\ LET x == handling["req"] IN
       /\ x \in fifos
       /\ cl[x] = "opening"
       /\ cl' = [cl EXCEPT ![x] = "open"]
       /\ at' = [at EXCEPT ![x] = InHand]
  /\ Goto("req", "name")
  /\ UNCHANGED <<fifos, requests, events, tableVars, backlog, cur, handling>>

(* The last of 500 attempts fails ...                                      *)
OpenTimeout ==
  /\ pc["req"] = "open"
  /\ LET x == handling["req"] IN x \notin fifos \/ cl[x] # "opening"
  /\ Goto("req", "giveup")
  /\ UNCHANGED <<clientVars, fifos, requests, events, tableVars, backlog, cur, handling>>

(* ... and the FIFO is removed.                                            *)
RemoveFailedFifo ==
  /\ pc["req"] = "giveup"
  /\ Unlink(handling["req"])
  /\ Return("req")
  /\ UNCHANGED <<at, requests, events, tableVars, backlog>>

(* data_path and client_names are written before the client mutex is taken.*)
SaveName ==
  /\ pc["req"] = "name"
  /\ names' = [names EXCEPT ![cur["req"]] = handling["req"]]
  /\ Goto("req", "activate")
  /\ UNCHANGED <<clientVars, fifos, requests, events, state, n_clients, backlog,
                 client_mtx, cur, handling>>

(* Mutants: an off-by-one, and counting every connection.                  *)
CountedLate(i)   == IF i > n_clients THEN i + 1 ELSE n_clients
CountedAlways(i) == n_clients + 1

(* n_clients once slot i is in use: one above the highest slot ever used.  *)
Counted(i) == IF i >= n_clients THEN i + 1 ELSE n_clients

(* Under the client mutex: data_fd, CLIENT_INITIALIZED, the pipe size, the *)
(* ION socket and n_clients.  A failure after CLIENT_INITIALIZED returns   *)
(* before n_clients is raised and undoes nothing.                          *)
ActivateSlot ==
  /\ pc["req"] = "activate"
  /\ LET i == cur["req"]
         x == handling["req"] IN
       /\ client_mtx[i] = "free"
       /\ state' = [state EXCEPT ![i] = INITIALIZED]
       /\ backlog' = backlog \ {i}
       /\ at' = [at EXCEPT ![x] = IF @ = InHand THEN i ELSE @]
       /\ \/ n_clients' = Counted(i)
          \/ SetupCanFail /\ n_clients' = n_clients
  /\ Return("req")
  /\ UNCHANGED <<cl, fifos, requests, events, names, client_mtx>>

-----------------------------------------------------------------------------
(* _disconnect_client, run by "mon" or "wr" with the client mutex held     *)

(* Flag the slot and close the write end.                                  *)
FlagDisconnected(t, i) ==
  /\ state' = [state EXCEPT ![i] = DISCONNECTED]
  /\ at' = [x \in Clients |-> IF at[x] = i THEN Closed ELSE at[x]]
  /\ backlog' = backlog \ {i}
  /\ client_mtx' = [client_mtx EXCEPT ![i] = t]
  /\ Goto(t, "remove")

(* remove(data_path[i]), as data_path is by now.                           *)
RemoveFifo(t) ==
  /\ pc[t] = "remove"
  /\ Unlink(names[cur[t]])
  /\ Goto(t, "callback")
  /\ UNCHANGED <<at, requests, events, tableVars, backlog, cur, handling>>

(* Mutant: the mutex stays locked.                                         *)
DisconnectCallbackHolding(t) ==
  /\ pc[t] = "callback"
  /\ Goto(t, "scan")
  /\ AdvanceTo(t, cur[t] + 1)
  /\ UNCHANGED <<clientVars, fifos, requests, events, tableVars, backlog, handling>>

(* The disconnect callback; the mutex is released and the loop goes on.    *)
DisconnectCallback(t) ==
  /\ pc[t] = "callback"
  /\ client_mtx' = [client_mtx EXCEPT ![cur[t]] = "free"]
  /\ Goto(t, "scan")
  /\ AdvanceTo(t, cur[t] + 1)
  /\ UNCHANGED <<clientVars, fifos, requests, events, state, names, n_clients,
                 backlog, handling>>

-----------------------------------------------------------------------------
(* The disconnect monitor and _disconnect_client_by_name                   *)

TakeEvent ==
  /\ pc["mon"] = "idle"
  /\ events # <<>>
  /\ events' = Tail(events)
  /\ HandleName("mon", Head(events))
  /\ Goto("mon", "scan")
  /\ UNCHANGED <<clientVars, fifos, requests, tableVars, backlog, cur>>

(* The unlocked look at client_state[i].                                   *)
CheckState ==
  /\ pc["mon"] = "scan"
  /\ LET i == cur["mon"] IN
       \/ i = NClient /\ Return("mon")
       \/ i < NClient /\ ~Live(i) /\ AdvanceTo("mon", i + 1) /\ UNCHANGED <<pc, handling>>
       \/ i < NClient /\ Live(i) /\ Goto("mon", "compare") /\ UNCHANGED <<cur, handling>>
  /\ UNCHANGED <<clientVars, fifos, requests, events, tableVars, backlog>>

(* The unlocked look at client_names[i].                                   *)
CompareName ==
  /\ pc["mon"] = "compare"
  /\ IF names[cur["mon"]] = handling["mon"]
       THEN Goto("mon", "lock") /\ UNCHANGED cur
       ELSE Goto("mon", "scan") /\ AdvanceTo("mon", cur["mon"] + 1)
  /\ UNCHANGED <<clientVars, fifos, requests, events, tableVars, backlog, handling>>

(* The mutex is taken and the slot disconnected: nothing is looked at      *)
(* again.                                                                  *)
MonitorDisconnect ==
  /\ pc["mon"] = "lock"
  /\ client_mtx[cur["mon"]] = "free"
  /\ FlagDisconnected("mon", cur["mon"])
  /\ UNCHANGED <<cl, fifos, requests, events, names, n_clients, cur, handling>>

-----------------------------------------------------------------------------
(* pipe_server_write: one write to each client below n_clients             *)

StartWrite ==
  /\ Writing
  /\ pc["wr"] = "idle"
  /\ Goto("wr", "scan")
  /\ UNCHANGED <<clientVars, fifos, requests, events, tableVars, backlog, cur, handling>>


(* The unlocked look at client_state[i] and data_fd[i].                    *)
Writable(i) == Live(i)

(* The loop test, and that look.                                           *)
NextClient ==
  /\ pc["wr"] = "scan"
  /\ LET i == cur["wr"] IN
       \/ i >= n_clients /\ Return("wr")
       \/ i < n_clients /\ ~Writable(i) /\ AdvanceTo("wr", i + 1) /\ UNCHANGED <<pc, handling>>
       \/ i < n_clients /\ Writable(i) /\ Goto("wr", "lock") /\ UNCHANGED <<cur, handling>>
  /\ UNCHANGED <<clientVars, fifos, requests, events, tableVars, backlog>>

(* Under the mutex: no room, or disconnected meanwhile, and nothing is     *)
(* written; or the write succeeds.                                         *)
WriteOrSkip ==
  /\ pc["wr"] = "lock"
  /\ LET i == cur["wr"] IN
       /\ client_mtx[i] = "free"
       /\ \/ /\ i \in backlog \/ ~Live(i)
             /\ UNCHANGED <<state, backlog>>
          \/ /\ i \notin backlog /\ Live(i) /\ Reader(i)
             /\ state' = [state EXCEPT ![i] = CONNECTED]
             /\ backlog' \in {backlog, backlog \cup {i}}
       /\ AdvanceTo("wr", i + 1)
  /\ Goto("wr", "scan")
  /\ UNCHANGED <<clientVars, fifos, requests, events, names, n_clients, client_mtx, handling>>

(* Under the mutex: the write fails (EPIPE) as the client closed its end.  *)
WriteFails ==
  /\ pc["wr"] = "lock"
  /\ LET i == cur["wr"] IN
       /\ client_mtx[i] = "free"
       /\ i \notin backlog /\ Live(i) /\ ~Reader(i)
       /\ FlagDisconnected("wr", i)
  /\ UNCHANGED <<cl, fifos, requests, events, names, n_clients, cur, handling>>

-----------------------------------------------------------------------------
ClientStep(x) ==
  \/ Ask(x) \/ OpenFifo(x) \/ ClientTimeout(x)
  \/ CrashWaiting(x) \/ CloseReader(x) \/ DrainPipe(x)

RequestThread ==
  \/ TakeRequest \/ FindSlot \/ OpenPipe \/ OpenTimeout
  \/ RemoveFailedFifo \/ SaveName \/ ActivateSlot

MonitorThread ==
  \/ TakeEvent \/ CheckState \/ CompareName \/ MonitorDisconnect
  \/ RemoveFifo("mon") \/ DisconnectCallback("mon")

WriterLoop ==
  \/ NextClient \/ WriteOrSkip \/ WriteFails
  \/ RemoveFifo("wr") \/ DisconnectCallback("wr")

Next ==
  \/ \E x \in Clients : ClientStep(x)
  \/ RequestThread
  \/ MonitorThread
  \/ StartWrite
  \/ WriterLoop

Spec == Init /\ [][Next]_vars

(* The steps that begin by locking a client mutex.                         *)
LockStep(t) ==
  CASE t = "req" -> ActivateSlot
    [] t = "mon" -> MonitorDisconnect
    [] t = "wr"  -> WriteOrSkip \/ WriteFails

(* Every server thread runs: the OS schedules it and each of its blocking  *)
(* calls returns; a mutex that is free again and again is obtained.        *)
(* Clients may stop, close or crash at any time, but the poll of a waiting *)
(* client is a loop that ends.  StartWrite is fair when data flows through *)
(* the channel.                                                            *)
FairSpec ==
  /\ Spec
  /\ WF_vars(RequestThread)
  /\ WF_vars(MonitorThread)
  /\ WF_vars(WriterLoop)
  /\ WF_vars(StartWrite)
  /\ \A t \in Threads : SF_vars(LockStep(t))
  /\ \A x \in Clients : WF_vars(OpenFifo(x) \/ ClientTimeout(x))
-----------------------------------------------------------------------------
(* Safety.  Slots are never freed by name, so everything below rests on    *)
(* the order of add_client's steps and on what the other threads may do    *)
(* between them.                                                           *)

(* No two live slots have the same client name, whatever happens between   *)
(* the duplicate check and CLIENT_INITIALIZED (server.c 755-842).          *)
LiveNamesUnique ==
  \A i, j \in Slots : Live(i) /\ Live(j) /\ names[i] = names[j] => i = j

(* Every live slot is below n_clients: the writers, the duplicate check    *)
(* and pipe_server_get_num_clients, which stop there, miss no client.      *)
LiveCounted == \A i \in Slots : Live(i) => i < n_clients

(* pipe_server_get_client_id_from_name: the first name that matches,       *)
(* whatever the state of its slot.                                         *)
GetClientIdFromName(x) ==
  LET matches == {i \in 0 .. n_clients - 1 : names[i] = x} IN
  IF matches = {} THEN -1 ELSE CHOOSE i \in matches : \A j \in matches : i <= j

(* Looking up the name of a live client returns its slot, although freed   *)
(* slots keep their old names and the lookup ignores the state.            *)
LookupFindsLive == \A i \in Slots : Live(i) => GetClientIdFromName(names[i]) = i

(* Data written to a slot reaches the client that is registered there: an  *)
(* open pipe is held by a live slot of the client's own name.              *)
PipeBelongsToName ==
  \A x \in Clients : at[x] \in Slots => Live(at[x]) /\ names[at[x]] = x

(* The monitor disconnects clients that closed their pipe, and no other    *)
(* (server.c 224-226).                                                     *)
MonitorSparesReaders ==
  [][\A i \in Slots : MonitorDisconnect /\ cur["mon"] = i => ~Reader(i)]_vars


(* Liveness: no server thread is held up for ever, at a client mutex or in *)
(* its loop over the slots: it gets back to waiting for its next input.    *)
ThreadsReturn == \A t \in Threads : []<>(pc[t] = "idle")

(* Liveness: a client that waits for its pipe connects or gives up         *)
(* (client.c 459-478: "timeout after 1 second").                           *)
ClientOpenReturns ==
  \A x \in Clients : (cl[x] = "asked") ~> (cl[x] \in {"idle", "open"})

-----------------------------------------------------------------------------
(* The abstract specification: the names of the live slots are a register. *)
Registry == INSTANCE ClientRegistry WITH
              Ids <- Slots, Names <- Clients, None <- NoName,
              reg <- [i \in Slots |-> IF Live(i) THEN names[i] ELSE NoName]

(* The table implements the register: a client id keeps its client from    *)
(* CLIENT_INITIALIZED to CLIENT_DISCONNECTED, whatever the threads do.     *)
RegistrySpec == Registry!Spec

-----------------------------------------------------------------------------
(* The inductive invariant behind the safety properties.                   *)

PcOK ==
  /\ pc["req"] \in {"idle", "scan", "open", "giveup", "name", "activate"}
  /\ pc["mon"] \in {"idle", "scan", "compare", "lock", "remove", "callback"}
  /\ pc["wr"] \in {"idle", "scan", "lock", "remove", "callback"}
  /\ \A t \in Threads :
       pc[t] \in {"open", "giveup", "name", "activate", "compare", "lock",
                 "remove", "callback"} => cur[t] \in Slots
  /\ pc["req"] # "idle" => handling["req"] \in Clients
  /\ pc["req"] = "idle" => cur["req"] = 0

(* While add_client works on a slot nobody else makes it live, and its     *)
(* client's write end is in add_client's hand only.                        *)
ChosenSlotFree ==
  /\ pc["req"] \in {"open", "giveup", "name", "activate"} => ~Live(cur["req"])
  /\ pc["req"] = "activate" => names[cur["req"]] = handling["req"]
  /\ \A x \in Clients :
       at[x] = InHand => pc["req"] \in {"name", "activate"} /\ handling["req"] = x

LiveNamed == \A i \in Slots : Live(i) => names[i] \in Clients

(* The name being added is live nowhere, and no slot below the one chosen  *)
(* has it, not even as an old name.                                        *)
AddedNameFresh ==
  pc["req"] # "idle" =>
    /\ \A i \in Slots : Live(i) => names[i] # handling["req"]
    /\ \A i \in Slots : i < cur["req"] => names[i] # handling["req"]

NoLowerNamesake ==
  \A i, j \in Slots : Live(i) /\ j < i => names[j] # names[i]

TableInv == TypeOK /\ PcOK /\ ChosenSlotFree /\ LiveNamed /\ PipeBelongsToName

NameInv == LiveCounted /\ AddedNameFresh /\ NoLowerNamesake
=============================================================================
