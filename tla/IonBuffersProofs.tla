--------------------------- MODULE IonBuffersProofs ---------------------------
(***************************************************************************)
(* Proofs about IonBuffers, for every number of buffers and clients and    *)
(* every size of pipes and sockets: type correctness, and, when the camera *)
(* has one buffer in flight at a time, that the generation number protects *)
(* the buffer that is being filled from every late release.                *)
(***************************************************************************)
EXTENDS IonBuffers, TLAPS

(* TypeOK, part by part.                                                   *)
PoolTyped ==
  /\ in_use \in [Bufs -> BOOLEAN] /\ producer_active \in [Bufs -> BOOLEAN]
  /\ generation \in [Bufs -> 0 .. MaxClaims] /\ time_sent \in [Bufs -> 0 .. MaxClaims]

CountsTyped ==
  client_mask \in [Bufs -> SUBSET Slots] /\ n_client_references \in [Bufs -> Nat]

CameraTyped == claimed \in Seq(Bufs) /\ claims \in 0 .. MaxClaims

ClientsTyped ==
  /\ live \in SUBSET Slots /\ connects \in 0 .. MaxConnects
  /\ sock \in [Slots -> Seq(Bufs)] /\ pipe \in [Slots -> Seq(Headers)]
  /\ held \in [Slots -> SUBSET [header : Headers, fd : Bufs]]

SenderTyped == pc \in {"idle", "fd", "header", "count", "flag"} /\ cur \in 0 .. NClient

LEMMA TypeParts ==
  /\ TypeOK <=> /\ PoolTyped /\ CountsTyped /\ CameraTyped /\ ClientsTyped
                /\ control \in Seq(Messages) /\ SenderTyped
  /\ TypeOK' <=> /\ PoolTyped' /\ CountsTyped' /\ CameraTyped' /\ ClientsTyped'
                 /\ control' \in Seq(Messages) /\ SenderTyped'
BY DEF TypeOK, PoolTyped, CountsTyped, CameraTyped, ClientsTyped, SenderTyped

(* What keeps the types: generations are counted by claims, and a send     *)
(* works on a buffer and a slot.                                           *)
SendOK ==
  /\ \A b \in Bufs : generation[b] <= claims
  /\ pc # "idle" => claimed # <<>>
  /\ pc \in {"header", "count"} => cur \in Slots

-----------------------------------------------------------------------------
(* Preservation of the types                                               *)

LEMMA DisconnectTyped ==
  ASSUME ClientsTyped, NEW i \in Slots, Disconnect(i), UNCHANGED connects
  PROVE  ClientsTyped'
<1>1. /\ <<>> \in Seq(Bufs) /\ <<>> \in Seq(Headers)
      /\ {} \in SUBSET [header : Headers, fd : Bufs]
  OBVIOUS
<1> QED
  BY <1>1 DEF Disconnect, ClientsTyped

LEMMA SendTyped ==
  ASSUME TypeOK, SendOK, Send
  PROVE  TypeOK' /\ SendOK'
<1>p. /\ PoolTyped /\ CountsTyped /\ CameraTyped /\ ClientsTyped /\ SenderTyped
      /\ control \in Seq(Messages)
  BY TypeParts
<1>s. ASSUME pc # "idle" PROVE Sending \in Bufs
  BY <1>p, <1>s DEF Sending, SendOK, CameraTyped
<1> USE DEF poolVars, countVars, cameraVars, clientVars
<1>1. CASE StartSend
  BY <1>1, IonBuffersAssumption DEF StartSend, TypeOK, SendOK
<1>2. CASE SendFd
  <2>1. PICK i \in Slots : i = cur
    BY <1>2, <1>p, IonBuffersAssumption DEF SendFd, SenderTyped, Slots
  <2>2. ClientsTyped'
    <3>1. CASE UNCHANGED <<live, sock, pipe, held>>
      BY <1>2, <1>p, <3>1 DEF SendFd, ClientsTyped
    <3>2. CASE Disconnect(cur)
      <4>1. Disconnect(i)
        BY <2>1, <3>2 DEF Disconnect
      <4> QED
        BY <1>2, <1>p, <4>1, DisconnectTyped DEF SendFd
    <3>3. CASE /\ sock' = [sock EXCEPT ![i] = Append(@, Sending)]
               /\ UNCHANGED <<live, pipe, held>>
      <4>1. Sending \in Bufs
        BY <1>2, <1>s DEF SendFd
      <4> HIDE DEF Sending
      <4> QED
        BY <1>2, <1>p, <3>3, <4>1 DEF SendFd, ClientsTyped
    <3> QED
      BY <1>2, <2>1, <3>1, <3>2, <3>3 DEF SendFd
  <2>3. SenderTyped'
    BY <1>2, <1>p, IonBuffersAssumption DEF SendFd, SenderTyped
  <2>4. pc' \in {"header", "count"} => cur' \in Slots
    BY <1>2, <2>1 DEF SendFd
  <2> QED
    BY <1>2, <1>p, <2>2, <2>3, <2>4, TypeParts
    DEF SendFd, SendOK, PoolTyped, CountsTyped, CameraTyped
<1>3. CASE WriteHeader
  <2>1. PICK i \in Slots, b \in Bufs : i = cur /\ b = Sending
    BY <1>3, <1>s DEF WriteHeader, SendOK
  <2>2. [buf |-> b, generation |-> generation[b]] \in Headers
    BY <1>p DEF Headers, PoolTyped
  <2>3. pipe' \in [Slots -> Seq(Headers)]
    <3>1. \/ UNCHANGED pipe
          \/ pipe' = [pipe EXCEPT ![i] =
               Append(@, [buf |-> b, generation |-> generation[b]])]
      BY <1>3, <2>1 DEF WriteHeader
    <3>2. \A h \in Headers : Append(pipe[i], h) \in Seq(Headers)
      BY <1>p DEF ClientsTyped
    <3> HIDE DEF Headers
    <3> QED
      BY <1>p, <2>2, <3>1, <3>2 DEF ClientsTyped
  <2>4. SenderTyped' /\ (pc' = "count" => cur' \in Slots) /\ pc' # "header" /\ pc' # "idle"
    BY <1>3, <1>p, <2>1, IonBuffersAssumption DEF WriteHeader, SenderTyped, Slots
  <2> QED
    BY <1>3, <1>p, <2>3, <2>4, TypeParts
    DEF WriteHeader, SendOK, ClientsTyped, PoolTyped, CountsTyped, CameraTyped
<1>4. CASE CountClient
  <2>1. PICK i \in Slots, b \in Bufs : i = cur /\ b = Sending
    BY <1>4, <1>s DEF CountClient, SendOK
  <2>2. /\ client_mask' = [client_mask EXCEPT ![b] = @ \cup {i}]
        /\ n_client_references' = [n_client_references EXCEPT ![b] = @ + 1]
    BY <1>4, <2>1 DEF CountClient
  <2>3. CountsTyped'
    BY <1>p, <2>2 DEF CountsTyped
  <2>4. SenderTyped' /\ pc' = "fd"
    BY <1>4, <2>1, IonBuffersAssumption DEF CountClient, SenderTyped, Slots
  <2> QED
    BY <1>4, <1>p, <2>3, <2>4, TypeParts
    DEF CountClient, SendOK, ClientsTyped, PoolTyped, CameraTyped
<1>5. CASE SendDone
  BY <1>5 DEF SendDone, TypeOK, SendOK
<1>6. CASE FlagUnused
  <2>1. PICK b \in Bufs : b = Sending
    BY <1>6, <1>s DEF FlagUnused
  <2>2. /\ producer_active' = [producer_active EXCEPT ![b] = FALSE]
        /\ in_use' = [in_use EXCEPT ![b] =
             @ /\ ~(n_client_references[b] = 0 /\ client_mask[b] = {})]
    BY <1>6, <2>1 DEF FlagUnused
  <2>3. PoolTyped'
    BY <1>6, <1>p, <2>2 DEF FlagUnused, PoolTyped
  <2>4. CameraTyped'
    BY <1>6, <1>p DEF FlagUnused, CameraTyped, SendOK
  <2> QED
    BY <1>6, <1>p, <2>3, <2>4, TypeParts
    DEF FlagUnused, SendOK, CountsTyped, ClientsTyped, SenderTyped
<1> QED
  BY <1>1, <1>2, <1>3, <1>4, <1>5, <1>6 DEF Send

LEMMA ClientTyped ==
  ASSUME TypeOK, SendOK, NEW i \in Slots, ClientStep(i)
  PROVE  TypeOK' /\ SendOK'
<1>p. /\ PoolTyped /\ CountsTyped /\ CameraTyped /\ ClientsTyped /\ SenderTyped
      /\ control \in Seq(Messages)
  BY TypeParts
<1> USE DEF poolVars, countVars, cameraVars
<1>1. ClientsTyped'
  <2>1. CASE Connect(i)
    BY <1>p, <2>1, IonBuffersAssumption DEF Connect, ClientsTyped
  <2>2. CASE Close(i)
    BY <1>p, <2>2, DisconnectTyped DEF Close
  <2>3. CASE TakeBuffer(i)
    <3>1. /\ Head(pipe[i]) \in Headers /\ Tail(pipe[i]) \in Seq(Headers)
          /\ Head(sock[i]) \in Bufs /\ Tail(sock[i]) \in Seq(Bufs)
      BY <1>p, <2>3 DEF TakeBuffer, ClientsTyped
    <3>2. [header |-> Head(pipe[i]), fd |-> Head(sock[i])] \in [header : Headers, fd : Bufs]
      BY <3>1
    <3> QED
      BY <1>p, <2>3, <3>1, <3>2 DEF TakeBuffer, ClientsTyped
  <2>4. CASE ReportUnused(i)
    BY <1>p, <2>4 DEF ReportUnused, ClientsTyped
  <2> QED
    BY <2>1, <2>2, <2>3, <2>4 DEF ClientStep
<1>2. control' \in Seq(Messages)
  <2>1. CASE ReportUnused(i)
    <3>1. PICK h \in held[i] :
            control' = Append(control, [client |-> i, buf |-> h.header.buf,
                                        generation |-> h.header.generation])
      BY <2>1 DEF ReportUnused
    <3>2. [client |-> i, buf |-> h.header.buf, generation |-> h.header.generation] \in Messages
      BY <1>p DEF ClientsTyped, Headers, Messages
    <3> QED
      BY <1>p, <3>1, <3>2
  <2>2. CASE UNCHANGED control
    BY <1>p, <2>2
  <2> QED
    BY <2>1, <2>2 DEF ClientStep, Connect, Close, TakeBuffer
<1> QED
  BY <1>p, <1>1, <1>2, TypeParts
  DEF ClientStep, Connect, Close, TakeBuffer, ReportUnused, SendOK, PoolTyped, CountsTyped,
      CameraTyped, SenderTyped

LEMMA TypeInductive == TypeOK /\ SendOK /\ [Next]_vars => TypeOK' /\ SendOK'
<1> SUFFICES ASSUME TypeOK, SendOK, [Next]_vars
             PROVE  TypeOK' /\ SendOK'
  OBVIOUS
<1>p. /\ PoolTyped /\ CountsTyped /\ CameraTyped /\ ClientsTyped /\ SenderTyped
      /\ control \in Seq(Messages)
  BY TypeParts
<1>1. CASE Claim
  <2>1. PICK b \in Bufs :
          /\ in_use' = [in_use EXCEPT ![b] = TRUE]
          /\ producer_active' = [producer_active EXCEPT ![b] = TRUE]
          /\ client_mask' = [client_mask EXCEPT ![b] = {}]
          /\ n_client_references' = [n_client_references EXCEPT ![b] = 0]
          /\ generation' = [generation EXCEPT ![b] = @ + 1]
          /\ time_sent' = [time_sent EXCEPT ![b] = claims + 1]
          /\ claimed' = Append(claimed, b)
    BY <1>1 DEF Claim
  <2>2. claims < MaxClaims /\ claims' = claims + 1
    BY <1>1 DEF Claim
  <2>3. PoolTyped'
    <3>1. generation[b] + 1 \in 0 .. MaxClaims /\ claims + 1 \in 0 .. MaxClaims
      BY <1>p, <2>2, IonBuffersAssumption DEF SendOK, PoolTyped, CameraTyped
    <3> QED
      BY <1>p, <2>1, <3>1 DEF PoolTyped
  <2>4. CountsTyped'
    BY <1>p, <2>1 DEF CountsTyped
  <2>5. CameraTyped' /\ claimed' # <<>>
    BY <1>p, <2>1, <2>2, IonBuffersAssumption DEF CameraTyped
  <2>6. \A x \in Bufs : generation'[x] <= claims'
    BY <1>p, <2>1, <2>2 DEF SendOK, PoolTyped, CameraTyped
  <2> QED
    BY <1>1, <1>p, <2>3, <2>4, <2>5, <2>6, TypeParts
    DEF Claim, clientVars, SendOK, ClientsTyped, SenderTyped
<1>2. CASE ProcessRelease
  <2>1. PICK m \in Messages : m = Head(control)
    BY <1>2, <1>p DEF ProcessRelease
  <2>2. m.buf \in Bufs
    BY DEF Messages
  <2>3. \A n \in Nat : Decremented(n) \in Nat
    BY DEF Decremented
  <2> DEFINE mask == client_mask[m.buf] \ {m.client}
             refs == Decremented(n_client_references[m.buf])
  <2>4. in_use' \in [Bufs -> BOOLEAN] /\ CountsTyped'
    <3>1. CASE UNCHANGED <<in_use, countVars>>
      BY <1>p, <3>1 DEF PoolTyped, CountsTyped, countVars
    <3>2. CASE /\ client_mask' = [client_mask EXCEPT ![m.buf] = mask]
               /\ n_client_references' = [n_client_references EXCEPT ![m.buf] = refs]
               /\ in_use' = [in_use EXCEPT ![m.buf] = @ /\ ~(refs = 0 /\ mask = {})]
      <4>1. mask \in SUBSET Slots /\ refs \in Nat
        BY <1>p, <2>2, <2>3 DEF CountsTyped
      <4> HIDE DEF mask, refs
      <4> QED
        BY <1>p, <2>2, <3>2, <4>1 DEF PoolTyped, CountsTyped
    <3> QED
      BY <1>2, <2>1, <3>1, <3>2 DEF ProcessRelease
  <2>5. control' \in Seq(Messages)
    BY <1>2, <1>p DEF ProcessRelease
  <2> QED
    BY <1>2, <1>p, <2>4, <2>5, TypeParts
    DEF ProcessRelease, cameraVars, clientVars, SendOK, PoolTyped, CameraTyped, ClientsTyped,
        SenderTyped
<1>3. CASE UNCHANGED vars
  BY <1>3 DEF vars, TypeOK, SendOK
<1> QED
  BY <1>1, <1>2, <1>3, SendTyped, ClientTyped DEF Next

LEMMA TypeInvariant == Spec => [](TypeOK /\ SendOK)
<1>1. Init => TypeOK /\ SendOK
  <2> SUFFICES ASSUME Init PROVE TypeOK /\ SendOK
    OBVIOUS
  <2>1. PoolTyped
    BY IonBuffersAssumption DEF Init, PoolTyped
  <2>2. CountsTyped /\ CameraTyped /\ control \in Seq(Messages)
    BY IonBuffersAssumption DEF Init, CountsTyped, CameraTyped
  <2>3. ClientsTyped
    BY IonBuffersAssumption DEF Init, ClientsTyped
  <2>4. SenderTyped /\ SendOK
    BY IonBuffersAssumption DEF Init, SenderTyped, SendOK
  <2> QED
    BY <2>1, <2>2, <2>3, <2>4, TypeParts
<1> QED
  BY <1>1, TypeInductive, PTL DEF Spec

(* The types of the buffer pool, the send and the clients' pipes.          *)
THEOREM TypeCorrect == Spec => []TypeOK
BY TypeInvariant, PTL

-----------------------------------------------------------------------------
(* One buffer in flight                                                    *)

(* Generation g of buffer b is on its way: with a client, or back from one.*)
Known(b, g) ==
  \/ \E i \in Slots : \E k \in 1 .. Len(pipe[i]) :
       pipe[i][k].buf = b /\ pipe[i][k].generation = g
  \/ \E i \in Slots : \E h \in held[i] : h.header.buf = b /\ h.header.generation = g
  \/ \E k \in 1 .. Len(control) : control[k].buf = b /\ control[k].generation = g

(* No generation is on its way that the pool has not given, and none of    *)
(* the buffer that is being filled.                                        *)
GenInv ==
  /\ Len(claimed) <= 1
  /\ \A b \in Bufs : \A g \in 0 .. MaxClaims : Known(b, g) => g <= generation[b]

FillInv ==
  pc = "idle" /\ claimed # <<>> =>
    /\ in_use[Head(claimed)] /\ producer_active[Head(claimed)]
    /\ \A g \in 0 .. MaxClaims : Known(Head(claimed), g) => g < generation[Head(claimed)]

(* Only WriteHeader sets a generation on its way; everything else that     *)
(* happens to headers and messages passes them on or drops them.           *)
LEMMA KnownGrows ==
  ASSUME TypeOK, SendOK, Next, NEW b \in Bufs, NEW g \in 0 .. MaxClaims, Known(b, g)'
  PROVE  Known(b, g) \/ (WriteHeader /\ b = Sending /\ g = generation[b])
<1>p. /\ ClientsTyped /\ control \in Seq(Messages) /\ SenderTyped
  BY TypeParts
<1>1. CASE UNCHANGED <<pipe, held, control>>
  BY <1>1 DEF Known
<1>2. ASSUME NEW i \in Slots, Disconnect(i), UNCHANGED control
      PROVE  Known(b, g)
  <2>1. /\ pipe' = [pipe EXCEPT ![i] = <<>>] /\ held' = [held EXCEPT ![i] = {}]
    BY <1>2 DEF Disconnect
  <2>2. \A j \in Slots : \A k \in 1 .. Len(pipe'[j]) :
          k \in 1 .. Len(pipe[j]) /\ pipe'[j][k] = pipe[j][k]
    BY <1>p, <2>1 DEF ClientsTyped
  <2>3. \A j \in Slots : held'[j] \subseteq held[j]
    BY <1>p, <2>1 DEF ClientsTyped
  <2> QED
    BY <1>2, <2>2, <2>3 DEF Known
<1>3. CASE WriteHeader
  <2>1. PICK i \in Slots : i = cur
    BY <1>3 DEF WriteHeader, SendOK
  <2>2. CASE UNCHANGED pipe
    BY <1>1, <1>3, <2>2 DEF WriteHeader
  <2>3. CASE pipe' = [pipe EXCEPT ![i] =
               Append(@, [buf |-> Sending, generation |-> generation[Sending]])]
    <3> DEFINE h == [buf |-> Sending, generation |-> generation[Sending]]
    <3>1. \A j \in Slots \ {i} : pipe'[j] = pipe[j]
      BY <1>p, <2>3 DEF ClientsTyped
    <3>2. pipe'[i] = Append(pipe[i], h) /\ pipe[i] \in Seq(Headers)
      BY <1>p, <2>3 DEF ClientsTyped
    <3>3. h.buf = Sending /\ h.generation = generation[Sending]
      OBVIOUS
    <3> HIDE DEF h
    <3>4. \A k \in 1 .. Len(pipe'[i]) : \/ k \in 1 .. Len(pipe[i]) /\ pipe'[i][k] = pipe[i][k]
                                       \/ pipe'[i][k] = h
      BY <3>2
    <3>5. UNCHANGED <<held, control>>
      BY <1>3 DEF WriteHeader
    <3>6. CASE \E j \in Slots : \E k \in 1 .. Len(pipe'[j]) :
                 pipe'[j][k].buf = b /\ pipe'[j][k].generation = g
      <4>0. PICK j \in Slots : \E k \in 1 .. Len(pipe'[j]) :
              pipe'[j][k].buf = b /\ pipe'[j][k].generation = g
        BY <3>6
      <4>1. PICK k \in 1 .. Len(pipe'[j]) :
              pipe'[j][k].buf = b /\ pipe'[j][k].generation = g
        BY <4>0
      <4>2. CASE j = i
        BY <1>3, <3>3, <3>4, <4>1, <4>2 DEF Known
      <4>3. CASE j # i
        BY <3>1, <4>1, <4>3 DEF Known
      <4> QED
        BY <4>2, <4>3
    <3>7. CASE ~ \E j \in Slots : \E k \in 1 .. Len(pipe'[j]) :
                 pipe'[j][k].buf = b /\ pipe'[j][k].generation = g
      BY <3>5, <3>7 DEF Known
    <3> QED
      BY <3>6, <3>7
  <2> QED
    BY <1>3, <2>1, <2>2, <2>3 DEF WriteHeader
<1>4. CASE SendFd
  <2>1. PICK i \in Slots : i = cur
    BY <1>4, <1>p, IonBuffersAssumption DEF SendFd, SenderTyped, Slots
  <2>2. CASE Disconnect(cur)
    BY <1>2, <1>4, <2>1, <2>2 DEF SendFd, Disconnect
  <2>3. CASE UNCHANGED <<pipe, held>>
    BY <1>1, <1>4, <2>3 DEF SendFd
  <2> QED
    BY <1>4, <2>2, <2>3 DEF SendFd
<1>5. CASE ProcessRelease
  <2>1. control # <<>> /\ control' = Tail(control) /\ UNCHANGED <<pipe, held>>
    BY <1>5 DEF ProcessRelease, clientVars
  <2>2. \A k \in 1 .. Len(control') : k + 1 \in 1 .. Len(control) /\ control'[k] = control[k + 1]
    BY <1>p, <2>1
  <2> QED
    BY <2>1, <2>2 DEF Known
<1>6. ASSUME NEW i \in Slots, TakeBuffer(i)
      PROVE  Known(b, g)
  <2> DEFINE h == [header |-> Head(pipe[i]), fd |-> Head(sock[i])]
  <2>1. /\ pipe[i] # <<>> /\ pipe[i] \in Seq(Headers)
        /\ pipe'[i] = Tail(pipe[i]) /\ held'[i] = held[i] \cup {h}
        /\ \A j \in Slots \ {i} : pipe'[j] = pipe[j] /\ held'[j] = held[j]
        /\ UNCHANGED control
    BY <1>p, <1>6 DEF TakeBuffer, ClientsTyped
  <2>2. \A k \in 1 .. Len(pipe'[i]) : k + 1 \in 1 .. Len(pipe[i]) /\ pipe'[i][k] = pipe[i][k + 1]
    BY <2>1
  <2>3. 1 \in 1 .. Len(pipe[i]) /\ h.header = pipe[i][1]
    BY <2>1
  <2> HIDE DEF h
  <2>4. CASE \E j \in Slots : \E k \in 1 .. Len(pipe'[j]) :
               pipe'[j][k].buf = b /\ pipe'[j][k].generation = g
    <3>0. PICK j \in Slots : \E k \in 1 .. Len(pipe'[j]) :
            pipe'[j][k].buf = b /\ pipe'[j][k].generation = g
      BY <2>4
    <3>1. PICK k \in 1 .. Len(pipe'[j]) :
            pipe'[j][k].buf = b /\ pipe'[j][k].generation = g
      BY <3>0
    <3>2. \E l \in 1 .. Len(pipe[j]) : pipe[j][l].buf = b /\ pipe[j][l].generation = g
      <4>1. CASE j = i
        BY <2>2, <3>1, <4>1
      <4>2. CASE j # i
        BY <2>1, <3>1, <4>2
      <4> QED
        BY <4>1, <4>2
    <3> QED
      BY <3>2 DEF Known
  <2>5. CASE \E j \in Slots : \E x \in held'[j] : x.header.buf = b /\ x.header.generation = g
    BY <2>1, <2>3, <2>5 DEF Known
  <2>6. CASE \E k \in 1 .. Len(control') : control'[k].buf = b /\ control'[k].generation = g
    BY <2>1, <2>6 DEF Known
  <2> QED
    BY <2>4, <2>5, <2>6 DEF Known
<1>7. ASSUME NEW i \in Slots, ReportUnused(i)
      PROVE  Known(b, g)
  <2>1. PICK h \in held[i] :
          /\ control' = Append(control, [client |-> i, buf |-> h.header.buf,
                                         generation |-> h.header.generation])
          /\ held' = [held EXCEPT ![i] = @ \ {h}]
    BY <1>7 DEF ReportUnused
  <2> DEFINE m == [client |-> i, buf |-> h.header.buf, generation |-> h.header.generation]
  <2>2. m.buf = h.header.buf /\ m.generation = h.header.generation
    OBVIOUS
  <2>3. control' = Append(control, m)
    BY <2>1
  <2> HIDE DEF m
  <2>4. \A k \in 1 .. Len(control') : \/ k \in 1 .. Len(control) /\ control'[k] = control[k]
                                     \/ control'[k] = m
    BY <1>p, <2>3
  <2>5. \A j \in Slots : held'[j] \subseteq held[j]
    BY <1>p, <2>1 DEF ClientsTyped
  <2>6. UNCHANGED pipe
    BY <1>7 DEF ReportUnused
  <2> QED
    BY <2>2, <2>4, <2>5, <2>6 DEF Known
<1>8. ASSUME NEW i \in Slots, Connect(i) \/ Close(i)
      PROVE  Known(b, g)
  <2>1. CASE Connect(i)
    <3>1. UNCHANGED <<pipe, held, control>>
      BY <2>1 DEF Connect
    <3> QED
      BY <3>1 DEF Known
  <2>2. CASE Close(i)
    BY <1>2, <2>2 DEF Close
  <2> QED
    BY <1>8, <2>1, <2>2
<1>9. CASE Claim \/ StartSend \/ CountClient \/ SendDone \/ FlagUnused
  BY <1>1, <1>9 DEF Claim, StartSend, CountClient, SendDone, FlagUnused, clientVars
<1> QED
  BY <1>3, <1>4, <1>5, <1>6, <1>7, <1>8, <1>9 DEF Next, Send, ClientStep


(* With one buffer in flight, what was sent of a buffer before it was      *)
(* claimed stays older than the buffer until the camera begins to send it. *)
LEMMA FillInductive ==
  ASSUME MaxInFlight = 1
  PROVE  TypeOK /\ SendOK /\ GenInv /\ FillInv /\ [Next]_vars => GenInv' /\ FillInv'
<1> SUFFICES ASSUME TypeOK, SendOK, GenInv, FillInv, [Next]_vars
             PROVE  GenInv' /\ FillInv'
  OBVIOUS
<1>p. /\ PoolTyped /\ CountsTyped /\ CameraTyped /\ ClientsTyped /\ SenderTyped
      /\ control \in Seq(Messages)
  BY TypeParts
<1>1. CASE Claim
  <2>1. PICK b \in Bufs :
          /\ in_use' = [in_use EXCEPT ![b] = TRUE]
          /\ producer_active' = [producer_active EXCEPT ![b] = TRUE]
          /\ generation' = [generation EXCEPT ![b] = @ + 1]
          /\ claimed' = Append(claimed, b)
    BY <1>1 DEF Claim
  <2>2. claimed = <<>>
    BY <1>1, <1>p DEF Claim, CameraTyped
  <2>3. Len(claimed') <= 1 /\ Head(claimed') = b
    BY <2>1, <2>2
  <2>4. in_use'[b] /\ producer_active'[b]
    BY <1>p, <2>1 DEF PoolTyped
  <2>5. /\ generation[b] \in Nat /\ generation'[b] = generation[b] + 1
        /\ \A x \in Bufs : generation[x] \in Nat /\ generation[x] <= generation'[x]
    BY <1>p, <2>1 DEF PoolTyped
  <2>6. \A x \in Bufs : \A g \in 0 .. MaxClaims : Known(x, g)' => Known(x, g)
    BY <1>1 DEF Claim, clientVars, Known
  <2>7. \A x \in Bufs : \A g \in 0 .. MaxClaims : Known(x, g) => g <= generation[x]
    BY DEF GenInv
  <2>8. \A x \in Bufs : \A g \in 0 .. MaxClaims : Known(x, g)' => g <= generation'[x]
    <3>1. \A x \in Bufs : generation'[x] \in Nat
      BY <1>p, <2>1, <2>5 DEF PoolTyped
    <3> SUFFICES ASSUME NEW x \in Bufs, NEW g \in 0 .. MaxClaims, Known(x, g)'
                 PROVE  g <= generation'[x]
      OBVIOUS
    <3>2. g <= generation[x]
      BY <2>6, <2>7
    <3> QED
      BY <2>5, <3>1, <3>2
  <2>9. \A g \in 0 .. MaxClaims : Known(b, g)' => g < generation'[b]
    BY <2>5, <2>6, <2>7
  <2>10. FillInv'
    BY <2>3, <2>4, <2>9 DEF FillInv, Known
  <2> QED
    BY <2>3, <2>8, <2>10 DEF GenInv, Known
<1>2. ASSUME Next, ~Claim
      PROVE  GenInv'
  <2>1. generation' = generation
    BY <1>2 DEF Next, Send, ClientStep, StartSend, SendFd, WriteHeader, CountClient, SendDone,
                FlagUnused, ProcessRelease, Connect, Close, TakeBuffer, ReportUnused, poolVars
  <2>2. claimed' = claimed \/ (FlagUnused /\ claimed' = Tail(claimed))
    BY <1>2 DEF Next, Send, ClientStep, StartSend, SendFd, WriteHeader, CountClient, SendDone,
                FlagUnused, ProcessRelease, Connect, Close, TakeBuffer, ReportUnused, cameraVars
  <2>3. FlagUnused => claimed # <<>>
    BY DEF FlagUnused, SendOK
  <2>4. Len(claimed') <= 1
    BY <1>p, <2>2, <2>3 DEF GenInv, CameraTyped
  <2>5. ASSUME NEW b \in Bufs, NEW g \in 0 .. MaxClaims, Known(b, g)'
        PROVE  g <= generation[b]
    <3>1. Known(b, g) \/ g = generation[b]
      BY <1>2, <2>5, KnownGrows
    <3> QED
      BY <1>p, <3>1 DEF GenInv, PoolTyped
  <2> QED
    BY <2>1, <2>4, <2>5 DEF GenInv, Known
<1>3. ASSUME Next, ~Claim
      PROVE  FillInv'
  <2>1. CASE FlagUnused
    <3>1. claimed' = Tail(claimed) /\ claimed # <<>>
      BY <2>1 DEF FlagUnused, SendOK
    <3>2. claimed' = <<>>
      BY <1>p, <3>1 DEF GenInv, CameraTyped
    <3> QED
      BY <3>2 DEF FillInv
  <2>2. CASE pc' # "idle"
    BY <2>2 DEF FillInv
  <2>3. CASE pc' = "idle" /\ ~FlagUnused
    <3>1. pc = "idle" /\ claimed' = claimed /\ generation' = generation /\ ~WriteHeader
      BY <1>3, <2>3
      DEF Next, Send, ClientStep, StartSend, SendFd, WriteHeader, CountClient, SendDone,
          ProcessRelease, Connect, Close, TakeBuffer, ReportUnused, poolVars, cameraVars
    <3>2. CASE claimed = <<>>
      BY <3>1, <3>2 DEF FillInv
    <3>3. CASE claimed # <<>>
      <4>1. PICK b \in Bufs : b = Head(claimed)
        BY <1>p, <3>3 DEF CameraTyped
      <4>2. /\ in_use[b] /\ producer_active[b]
            /\ \A g \in 0 .. MaxClaims : Known(b, g) => g < generation[b]
        BY <3>1, <3>3, <4>1 DEF FillInv
      <4>3. \A g \in 0 .. MaxClaims : Known(b, g)' => Known(b, g)
        BY <1>3, <3>1, KnownGrows
      <4>4. in_use'[b] /\ producer_active'[b]
        <5>1. CASE ProcessRelease
          <6>1. PICK m \in Messages : m = Head(control) /\ control # <<>>
            BY <1>p, <5>1 DEF ProcessRelease
          <6>2. 1 \in 1 .. Len(control) /\ control[1] = m
            BY <1>p, <6>1
          <6>3. m.buf \in Bufs /\ m.generation \in 0 .. MaxClaims
            BY DEF Messages
          <6>4. Known(m.buf, m.generation)
            BY <6>2 DEF Known
          <6>5. m.buf = b => ~Current(m)
            BY <1>p, <4>2, <6>3, <6>4 DEF Current, PoolTyped
          <6>6. in_use'[b] = in_use[b]
            <7>1. CASE Current(m)
              <8>1. m.buf # b
                BY <6>5, <7>1
              <8>2. in_use' = [in_use EXCEPT ![m.buf] = in_use'[m.buf]]
                BY <1>p, <5>1, <6>1, <6>3, <7>1 DEF ProcessRelease, PoolTyped
              <8> QED
                BY <1>p, <6>3, <8>1, <8>2 DEF PoolTyped
            <7>2. CASE ~Current(m)
              BY <5>1, <6>1, <7>2 DEF ProcessRelease
            <7> QED
              BY <7>1, <7>2
          <6> QED
            BY <4>2, <5>1, <6>6 DEF ProcessRelease
        <5>2. CASE ~ProcessRelease
          <6>1. UNCHANGED <<in_use, producer_active>>
            BY <1>3, <2>3, <5>2
            DEF Next, Send, ClientStep, StartSend, SendFd, WriteHeader, CountClient, SendDone,
                Connect, Close, TakeBuffer, ReportUnused, poolVars
          <6> QED
            BY <4>2, <6>1
        <5> QED
          BY <5>1, <5>2
      <4> QED
        BY <3>1, <4>1, <4>2, <4>3, <4>4 DEF FillInv, Known
    <3> QED
      BY <3>2, <3>3
  <2> QED
    BY <2>1, <2>2, <2>3
<1>4. CASE UNCHANGED vars
  BY <1>4 DEF vars, GenInv, FillInv, Known
<1> QED
  BY <1>1, <1>2, <1>3, <1>4

(* A buffer that is being filled is in use until the camera sends it: no   *)
(* late release, by a live client or one long gone, gives it away, when    *)
(* the camera has one buffer in flight.                                    *)
THEOREM FillingIsHeld == ASSUME MaxInFlight = 1 PROVE Spec => []FillingHeld
<1>1. Init => GenInv /\ FillInv
  <2>1. Init => \A b, g : ~Known(b, g)
    BY DEF Init, Known
  <2> QED
    BY <2>1 DEF Init, GenInv, FillInv
<1>2. TypeOK /\ SendOK /\ GenInv /\ FillInv => FillingHeld
  <2> SUFFICES ASSUME TypeOK, GenInv, FillInv, NEW k \in 1 .. Len(claimed), k > 1 \/ pc = "idle"
               PROVE  in_use[claimed[k]] /\ producer_active[claimed[k]]
    BY DEF FillingHeld
  <2>1. claimed \in Seq(Bufs)
    BY DEF TypeOK
  <2>2. k = 1 /\ claimed # <<>> /\ claimed[k] = Head(claimed)
    BY <2>1 DEF GenInv
  <2> QED
    BY <2>2 DEF FillInv
<1> QED
  BY <1>1, <1>2, TypeInvariant, FillInductive, PTL DEF Spec
=============================================================================
