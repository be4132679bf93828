------------------------------ MODULE IonBuffers ------------------------------
(***************************************************************************)
(* Camera frames shared as ION buffers: the buffer pool (libmodal-pipe     *)
(* buffers.cpp), pipe_server_write_ion_buffer (server.c), which sends each *)
(* client a file descriptor over a socket and a header over its pipe, and  *)
(* the release messages that come back over the control pipe.              *)
(*                                                                         *)
(*  - the camera claims buffers of the pool and fills them, MaxInFlight at *)
(*    a time, and sends them in the order it claimed them;                 *)
(*  - the control thread processes release messages;                       *)
(*  - clients take buffers and release them, in any order.                 *)
(*                                                                         *)
(* A function of buffers.cpp holds pool_mtx and is one step; the steps of  *)
(* pipe_server_write_ion_buffer are what it does under one lock.           *)
(* time_sent_to_clients_ns is the number of claims at the time.  A client  *)
(* that goes is disconnected in the same step.                             *)
(***************************************************************************)
EXTENDS Integers, Sequences, FiniteSets

CONSTANTS
  NBufs,        \* n_bufs of the pool
  NClient,      \* N_CLIENT, 16 in the code
  PipeSize,     \* headers a client's pipe has room for
  SockSize,     \* descriptors a client's socket has room for
  MaxInFlight,  \* how many buffers the camera fills or sends at a time
  CanClose,     \* whether clients go
  MaxClaims,    \* bound: buffers claimed
  MaxConnects,  \* bound: connections
  MaxMessages   \* bound: messages waiting in the control pipe

ASSUME IonBuffersAssumption ==
  /\ NBufs \in Nat \ {0}
  /\ NClient \in Nat \ {0}
  /\ PipeSize \in Nat /\ SockSize \in Nat
  /\ MaxInFlight \in Nat \ {0}
  /\ CanClose \in BOOLEAN
  /\ MaxClaims \in Nat /\ MaxConnects \in Nat /\ MaxMessages \in Nat

VARIABLES
  in_use, producer_active, generation,  \* the pool, by buffer
  client_mask, n_client_references, time_sent,
  claimed,   \* the buffers the camera has in flight, oldest first
  claims,    \* buffers claimed so far
  live,      \* the slots of the connected clients
  connects,  \* connections so far
  sock,      \* the descriptors in each socket, by the buffer they belong to
  pipe,      \* the headers in each client's pipe
  held,      \* the header and descriptor of each buffer a client has
  control,   \* the control pipe
  pc,        \* where pipe_server_write_ion_buffer is
  cur        \* its slot

countVars  == <<client_mask, n_client_references>>
poolVars   == <<in_use, producer_active, generation, client_mask,
                n_client_references, time_sent>>
cameraVars == <<claimed, claims>>
clientVars == <<live, connects, sock, pipe, held>>
vars == <<in_use, producer_active, generation, client_mask, n_client_references,
          time_sent, claimed, claims, live, connects, sock, pipe, held, control,
          pc, cur>>

Bufs  == 0 .. NBufs - 1
Slots == 0 .. NClient - 1
Headers  == [buf : Bufs, generation : 0 .. MaxClaims]
Messages == [client : Slots, buf : Bufs, generation : 0 .. MaxClaims]

TypeOK ==
  /\ in_use \in [Bufs -> BOOLEAN] /\ producer_active \in [Bufs -> BOOLEAN]
  /\ generation \in [Bufs -> 0 .. MaxClaims] /\ time_sent \in [Bufs -> 0 .. MaxClaims]
  /\ client_mask \in [Bufs -> SUBSET Slots] /\ n_client_references \in [Bufs -> Nat]
  /\ claimed \in Seq(Bufs) /\ claims \in 0 .. MaxClaims
  /\ live \in SUBSET Slots /\ connects \in 0 .. MaxConnects
  /\ sock \in [Slots -> Seq(Bufs)] /\ pipe \in [Slots -> Seq(Headers)]
  /\ held \in [Slots -> SUBSET [header : Headers, fd : Bufs]]
  /\ control \in Seq(Messages)
  /\ pc \in {"idle", "fd", "header", "count", "flag"} /\ cur \in 0 .. NClient

Init ==
  /\ in_use = [b \in Bufs |-> FALSE] /\ producer_active = [b \in Bufs |-> FALSE]
  /\ generation = [b \in Bufs |-> 0] /\ time_sent = [b \in Bufs |-> 0]
  /\ client_mask = [b \in Bufs |-> {}] /\ n_client_references = [b \in Bufs |-> 0]
  /\ claimed = <<>> /\ claims = 0
  /\ live = {} /\ connects = 0
  /\ sock = [i \in Slots |-> <<>>] /\ pipe = [i \in Slots |-> <<>>]
  /\ held = [i \in Slots |-> {}]
  /\ control = <<>>
  /\ pc = "idle" /\ cur = 0

-----------------------------------------------------------------------------
(* mpa_ion_buf_pool_claim_unused_buf                                       *)

(* The buffer claimed: the first that is free, or else the first of those  *)
(* sent the longest ago, whether it is being filled or not.                *)
Claimable(b) ==
  \/ /\ ~in_use[b]
     /\ \A x \in Bufs : x < b => in_use[x]
  \/ /\ \A x \in Bufs : in_use[x]
     /\ \A x \in Bufs : IF x < b THEN time_sent[b] < time_sent[x]
                                ELSE time_sent[b] <= time_sent[x]

Claim ==
  /\ Len(claimed) < MaxInFlight
  /\ claims < MaxClaims
  /\ \E b \in Bufs :
       /\ Claimable(b)
       /\ in_use' = [in_use EXCEPT ![b] = TRUE]
       /\ producer_active' = [producer_active EXCEPT ![b] = TRUE]
       /\ client_mask' = [client_mask EXCEPT ![b] = {}]
       /\ n_client_references' = [n_client_references EXCEPT ![b] = 0]
       /\ generation' = [generation EXCEPT ![b] = @ + 1]
       /\ time_sent' = [time_sent EXCEPT ![b] = claims + 1]
       /\ claimed' = Append(claimed, b)
  /\ claims' = claims + 1
  /\ UNCHANGED <<clientVars, control, pc, cur>>

-----------------------------------------------------------------------------
(* pipe_server_write_ion_buffer                                            *)

Sending == Head(claimed)

StartSend ==
  /\ pc = "idle" /\ claimed # <<>>
  /\ pc' = "fd" /\ cur' = 0
  /\ UNCHANGED <<poolVars, cameraVars, clientVars, control>>

(* _disconnect_client: the socket and the pipe are gone.                   *)
Disconnect(i) ==
  /\ live' = live \ {i}
  /\ sock' = [sock EXCEPT ![i] = <<>>]
  /\ pipe' = [pipe EXCEPT ![i] = <<>>]
  /\ held' = [held EXCEPT ![i] = {}]

(* The descriptor goes first.  A client whose socket is full is taken to   *)
(* be gone.                                                                *)
SendFd ==
  /\ pc = "fd" /\ cur < NClient
  /\ \/ /\ cur \notin live
        /\ cur' = cur + 1
        /\ UNCHANGED <<live, sock, pipe, held, pc>>
     \/ /\ cur \in live /\ Len(sock[cur]) >= SockSize
        /\ Disconnect(cur)
        /\ cur' = cur + 1
        /\ UNCHANGED pc
     \/ /\ cur \in live /\ Len(sock[cur]) < SockSize
        /\ sock' = [sock EXCEPT ![cur] = Append(@, Sending)]
        /\ pc' = "header"
        /\ UNCHANGED <<live, pipe, held, cur>>
  /\ UNCHANGED <<poolVars, cameraVars, connects, control>>

(* The header follows, the client mutex having been released, if the       *)
(* client is there and its pipe has room.                                  *)
WriteHeader ==
  /\ pc = "header"
  /\ IF cur \in live /\ Len(pipe[cur]) < PipeSize
       THEN /\ pipe' = [pipe EXCEPT ![cur] =
                 Append(@, [buf |-> Sending, generation |-> generation[Sending]])]
            /\ pc' = "count"
            /\ UNCHANGED cur
       ELSE /\ pc' = "fd" /\ cur' = cur + 1
            /\ UNCHANGED pipe
  /\ UNCHANGED <<poolVars, cameraVars, live, connects, sock, held, control>>

(* Only then is the client counted.                                        *)
CountClient ==
  /\ pc = "count"
  /\ client_mask' = [client_mask EXCEPT ![Sending] = @ \cup {cur}]
  /\ n_client_references' = [n_client_references EXCEPT ![Sending] = @ + 1]
  /\ pc' = "fd" /\ cur' = cur + 1
  /\ UNCHANGED <<in_use, producer_active, generation, time_sent, cameraVars,
                 clientVars, control>>

(* The buffer was sent to all clients.                                     *)
SendDone ==
  /\ pc = "fd" /\ cur = NClient
  /\ pc' = "flag"
  /\ UNCHANGED <<poolVars, cameraVars, clientVars, control, cur>>

(* The camera is done with it: mpa_ion_buf_flag_as_unused_by_*.            *)
FlagUnused ==
  /\ pc = "flag"
  /\ producer_active' = [producer_active EXCEPT ![Sending] = FALSE]
  /\ in_use' = [in_use EXCEPT ![Sending] =
       @ /\ ~(n_client_references[Sending] = 0 /\ client_mask[Sending] = {})]
  /\ claimed' = Tail(claimed)
  /\ pc' = "idle"
  /\ UNCHANGED <<generation, countVars, time_sent, claims, clientVars, control, cur>>

-----------------------------------------------------------------------------
(* mpa_ion_buf_process_release_msg, for each message of the control pipe   *)

(* Mutant: the generation is not looked at.                                *)
CurrentIgnoringGeneration(m) == TRUE

(* A message about an earlier use of the buffer is refused.                *)
Current(m) == m.generation = generation[m.buf]

(* Mutant: the count is not checked.                                       *)
DecrementedAnyway(n) == n - 1

Decremented(n) == IF n > 0 THEN n - 1 ELSE 0

(* The client's bit goes, the count goes down, and a buffer without        *)
(* clients is free, whether the camera is done with it or not.             *)
ProcessRelease ==
  /\ control # <<>>
  /\ LET m == Head(control)
         mask == client_mask[m.buf] \ {m.client}
         refs == Decremented(n_client_references[m.buf])
     IN IF Current(m)
          THEN /\ client_mask' = [client_mask EXCEPT ![m.buf] = mask]
               /\ n_client_references' = [n_client_references EXCEPT ![m.buf] = refs]
               /\ in_use' = [in_use EXCEPT ![m.buf] = @ /\ ~(refs = 0 /\ mask = {})]
          ELSE UNCHANGED <<in_use, countVars>>
  /\ control' = Tail(control)
  /\ UNCHANGED <<producer_active, generation, time_sent, cameraVars, clientVars, pc, cur>>

-----------------------------------------------------------------------------
(* Clients                                                                 *)

(* The first free slot gets a new pipe and a new socket.                   *)
Connect(i) ==
  /\ connects < MaxConnects
  /\ i \notin live /\ \A j \in Slots : j < i => j \in live
  /\ live' = live \cup {i}
  /\ connects' = connects + 1
  /\ UNCHANGED <<poolVars, cameraVars, sock, pipe, held, control, pc, cur>>

(* The client crashes, or closes its channel with buffers in its hands.    *)
Close(i) ==
  /\ CanClose
  /\ i \in live
  /\ Disconnect(i)
  /\ UNCHANGED <<poolVars, cameraVars, connects, control, pc, cur>>

(* _helper_func: read a header and receive a descriptor.                   *)
TakeBuffer(i) ==
  /\ pipe[i] # <<>> /\ sock[i] # <<>>
  /\ held' = [held EXCEPT ![i] = @ \cup {[header |-> Head(pipe[i]), fd |-> Head(sock[i])]}]
  /\ pipe' = [pipe EXCEPT ![i] = Tail(@)]
  /\ sock' = [sock EXCEPT ![i] = Tail(@)]
  /\ UNCHANGED <<poolVars, cameraVars, live, connects, control, pc, cur>>

(* pipe_client_report_mpa_ion_buf_unused                                   *)
ReportUnused(i) ==
  /\ Len(control) < MaxMessages
  /\ \E h \in held[i] :
       /\ control' = Append(control, [client |-> i, buf |-> h.header.buf,
                                      generation |-> h.header.generation])
       /\ held' = [held EXCEPT ![i] = @ \ {h}]
  /\ UNCHANGED <<poolVars, cameraVars, live, connects, sock, pipe, pc, cur>>

-----------------------------------------------------------------------------
ClientStep(i) == Connect(i) \/ Close(i) \/ TakeBuffer(i) \/ ReportUnused(i)

Send == StartSend \/ SendFd \/ WriteHeader \/ CountClient \/ SendDone \/ FlagUnused

Next == Claim \/ Send \/ ProcessRelease \/ \E i \in Slots : ClientStep(i)

Spec == Init /\ [][Next]_vars

-----------------------------------------------------------------------------
(* What a client was sent, by pipe or in hand.                             *)
Got(i) == {pipe[i][k] : k \in 1 .. Len(pipe[i])} \cup {h.header : h \in held[i]}

NowOn(b) == [buf |-> b, generation |-> generation[b]]

(* A buffer that is being filled is in use until it is sent: no release of *)
(* an earlier use, by a live client or one long gone, gives it away.       *)
FillingHeld ==
  \A k \in 1 .. Len(claimed) : (k > 1 \/ pc = "idle") =>
    in_use[claimed[k]] /\ producer_active[claimed[k]]

(* A buffer is claimed once before the camera is done with it: the pool,   *)
(* when it is exhausted, reuses the oldest buffer that is not produced, or *)
(* returns NULL when all are (buffers.cpp 172, 195).                       *)
ReuseSparesProducer ==
  \A j, k \in 1 .. Len(claimed) : claimed[j] = claimed[k] => j = k

(* A free buffer has "no producer, no clients" (buffers.cpp 161).          *)
FreeIsUnused ==
  \A b \in Bufs : ~in_use[b] =>
    ~producer_active[b] /\ \A i \in Slots : NowOn(b) \notin Got(i)

(* A buffer comes back: once the camera is done with it and no client has  *)
(* it, and every release was processed, it is free.                        *)
ReleasedIsFree ==
  \A b \in Bufs :
    /\ ~producer_active[b]
    /\ control = <<>>
    /\ \A i \in Slots : NowOn(b) \notin Got(i)
    => ~in_use[b]

(* The descriptor a client receives with a header is that of the header's  *)
(* buffer ("each client gets its own fd to the ion buffer",                *)
(* modal_pipe_server.h).                                                   *)
FdMatchesHeader ==
  \A i \in Slots : \A h \in held[i] : h.fd = h.header.buf
=============================================================================
