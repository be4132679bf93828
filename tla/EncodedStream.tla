---------------------------- MODULE EncodedStream ----------------------------
(***************************************************************************)
(* Camera frames on one server channel (libmodal-pipe server.c): what      *)
(* pipe_server_write_camera_frame puts into each client's pipe, and the    *)
(* replay of the stream header to a client that has just connected.        *)
(*                                                                         *)
(*  - "cam", the camera server's thread: one frame at a time, to one       *)
(*    client after the other;                                              *)
(*  - "req", the request listener: the end of pipe_server_add_client, run  *)
(*    after the client mutex is released.                                  *)
(*                                                                         *)
(* A write to one client is one step: it holds the client mutex.  The      *)
(* handshake before it is module ServerClients; here a slot is connected   *)
(* and disconnected in one step each.  Loops over i < n_clients run over   *)
(* all slots: a write to a slot that was never used does nothing.          *)
(*                                                                         *)
(* Sizes are in units; a metadata struct is one unit.  The code checks     *)
(* for room in bytes; the kernel gives out the pipe in pages, which need   *)
(* not be full, so that a write may be cut short that was found to fit.    *)
(***************************************************************************)
EXTENDS Integers, Sequences

CONSTANTS
  NClient,      \* N_CLIENT, 16 in the code
  Kinds,        \* the frames that are sent: see FrameKinds
  DataSize,     \* the size of a frame's data, by kind
  PageSize,     \* units in one page of a pipe
  PipePages,    \* pages in one pipe
  CanClose,     \* whether clients may close their pipe
  MaxFrames,    \* bound: frames sent
  MaxConnects   \* bound: connections

(* Header, I and P frame of an encoded stream; "R" is an image that is not *)
(* encoded.                                                                *)
FrameKinds == {"H", "I", "P", "R"}

ASSUME EncodedStreamAssumption ==
  /\ NClient \in Nat \ {0}
  /\ Kinds \in SUBSET FrameKinds
  /\ DataSize \in [FrameKinds -> Nat \ {0}]
  /\ PageSize \in Nat \ {0}
  /\ PipePages \in Nat
  /\ CanClose \in BOOLEAN
  /\ MaxFrames \in Nat
  /\ MaxConnects \in Nat

VARIABLES
  live,         \* slots whose state is INITIALIZED or CONNECTED
  reading,      \* slots whose client has the read end open
  stream,       \* what was written to each slot since it was connected
  used,         \* units in each pipe
  pages,        \* pages in use in each pipe
  accepting,    \* slots with accepting_p_frames set
  header,       \* the number of the frame in encode_header, 0 for none
  header_meta,  \* the number of the frame in encode_header_meta
  frame,        \* the frame being sent
  pc,           \* where "cam" and "req" are
  cur,          \* the slot each of them is working on
  connects,     \* connections so far
  overrun       \* history: slots whose client was refused units that would fit

slotVars  == <<live, reading, stream, used, pages, overrun>>
savedVars == <<header, header_meta>>
vars == <<live, reading, stream, used, pages, accepting, header, header_meta,
          frame, pc, cur, connects, overrun>>

PipeSize == PipePages * PageSize \* actual_pipe_size

Slots == 0 .. NClient - 1
Part(f, part) == [n |-> f.n, kind |-> f.kind, part |-> part]

(* Frame number 0 of kind "H" stands for the zeroed encode_header_meta.    *)
Frames  == [n : 0 .. MaxFrames, kind : FrameKinds]
Parts   == [n : 0 .. MaxFrames, kind : FrameKinds, part : {"meta", "data", "cut"}]
NoFrame == [n |-> 0, kind |-> "H"]
SavedHeader(n) == [n |-> n, kind |-> "H"]

Goto(t, label) == pc' = [pc EXCEPT ![t] = label]
AdvanceTo(t, i) == cur' = [cur EXCEPT ![t] = i]

TypeOK ==
  /\ live \in SUBSET Slots
  /\ reading \in SUBSET Slots
  /\ stream \in [Slots -> Seq(Parts)]
  /\ used \in [Slots -> 0 .. PipeSize]
  /\ pages \in [Slots -> 0 .. PipePages]
  /\ \A i \in Slots : used[i] <= pages[i] * PageSize
  /\ accepting \in SUBSET Slots
  /\ header \in 0 .. MaxFrames
  /\ header_meta \in 0 .. MaxFrames
  /\ frame \in Frames
  /\ pc \in [{"cam", "req"} -> {"idle", "save", "list", "meta", "data", "accept", "check"}]
  /\ cur \in [{"cam", "req"} -> 0 .. NClient]
  /\ connects \in 0 .. MaxConnects
  /\ overrun \in SUBSET Slots

Init ==
  /\ live = {}
  /\ reading = {}
  /\ stream = [i \in Slots |-> <<>>]
  /\ used = [i \in Slots |-> 0]
  /\ pages = [i \in Slots |-> 0]
  /\ accepting = {}
  /\ header = 0
  /\ header_meta = 0
  /\ frame = NoFrame
  /\ pc = [t \in {"cam", "req"} |-> "idle"]
  /\ cur = [t \in {"cam", "req"} |-> 0]
  /\ connects = 0
  /\ overrun = {}

-----------------------------------------------------------------------------
(* One write to one client, under its mutex                                *)

Room(i, size) == used[i] + size <= PipeSize

(* The pages that so many units fill when they start a page of their own.  *)
PagesFor(size) == (size + PageSize - 1) \div PageSize

(* What the kernel takes of a write into a pipe with u units in n pages:   *)
(* the tail of the write may still fit into the last page, all else needs  *)
(* new pages, and the write stops when there are none.                     *)
Kernel(u, n, size) ==
  LET free  == (PipePages - n) * PageSize
      Tails == {0} \cup {m \in {size % PageSize} : n > 0 /\ u + m <= n * PageSize}
  IN  {IF size - m <= free
         THEN [put |-> size, pages |-> n + PagesFor(size - m)]
         ELSE [put |-> m + free, pages |-> PipePages] : m \in Tails}

Fill(i, parts, size, n) ==
  /\ stream' = [stream EXCEPT ![i] = @ \o parts]
  /\ used' = [used EXCEPT ![i] = @ + size]
  /\ pages' = [pages EXCEPT ![i] = n]

(* _disconnect_client: the flag is cleared with everything else.           *)
Disconnect(i) ==
  /\ live' = live \ {i}
  /\ accepting' = accepting \ {i}

(* write() took all, after the parts before it ...                         *)
Taken(i, before, part, size, o) ==
  /\ o.put = size
  /\ Fill(i, Append(before, part), Len(before) + size, o.pages)
  /\ UNCHANGED <<live, reading, accepting, overrun>>

(* ... or less, and the client is connected still, or nothing (EAGAIN),    *)
(* for which it is disconnected.                                           *)
Refused(i, before, f, size, o) ==
  /\ o.put < size
  /\ IF o.put > 0
       THEN /\ Fill(i, Append(before, Part(f, "cut")), Len(before) + o.put, o.pages)
            /\ UNCHANGED <<live, accepting>>
       ELSE /\ Fill(i, before, Len(before), o.pages)
            /\ Disconnect(i)
  /\ overrun' = overrun \cup {i}
  /\ UNCHANGED reading

(* The write is not tried: nobody is connected, or there is no room; or    *)
(* the client is gone (EPIPE), and is disconnected.                        *)
NotWritten(i, size) ==
  /\ \/ /\ i \notin live \/ ~Room(i, size)
        /\ UNCHANGED <<live, accepting>>
     \/ /\ i \in live /\ Room(i, size) /\ i \notin reading
        /\ Disconnect(i)
  /\ UNCHANGED <<reading, stream, used, pages, overrun>>

CanWrite(i, size) == i \in live /\ i \in reading /\ Room(i, size)

(* pipe_server_write_to_client returning 0 ...                             *)
WriteOK(i, f, part, size) ==
  /\ CanWrite(i, size)
  /\ \E o \in Kernel(used[i], pages[i], size) : Taken(i, <<>>, Part(f, part), size, o)

(* ... or -1.                                                              *)
WriteFails(i, f, size) ==
  \/ NotWritten(i, size)
  \/ /\ CanWrite(i, size)
     /\ \E o \in Kernel(used[i], pages[i], size) : Refused(i, <<>>, f, size, o)

(* The writes of a list, which end with the first that fails; the client   *)
(* may close its end between the two.                                      *)
WriteBoth(i, f) ==
  LET meta == Part(f, "meta")
      size == DataSize[f.kind]
  IN  \E o \in Kernel(used[i], pages[i], 1) :
        \/ Refused(i, <<>>, f, 1, o)
        \/ /\ o.put = 1
           /\ \E d \in Kernel(used[i] + 1, o.pages, size) :
                \/ Taken(i, <<meta>>, Part(f, "data"), size, d)
                \/ Refused(i, <<meta>>, f, size, d)
        \/ /\ o.put = 1 /\ CanClose
           /\ Fill(i, <<meta>>, 1, o.pages)
           /\ reading' = reading \ {i}
           /\ Disconnect(i)
           /\ UNCHANGED overrun

(* Mutant: only the first buffer is checked for room.                      *)
WriteListCheckingMeta(i, f) ==
  LET size == 1 + DataSize[f.kind] IN
  \/ CanWrite(i, size) /\ WriteBoth(i, f)
  \/ ~Room(i, size) /\ WriteOK(i, f, "meta", 1)
  \/ NotWritten(i, 1)

(* _pipe_server_write_list_client: metadata and data under one mutex, if   *)
(* both are found to fit.                                                  *)
WriteList(i, f) ==
  LET size == 1 + DataSize[f.kind] IN
  \/ CanWrite(i, size) /\ WriteBoth(i, f)
  \/ NotWritten(i, size)

-----------------------------------------------------------------------------
(* Clients and the disconnect monitor                                      *)

(* What is left may fill its pages or not.                                 *)
Read(i) ==
  /\ i \in reading
  /\ \E left \in 0 .. used[i] - 1, n \in 0 .. pages[i] :
       /\ n <= left /\ left <= n * PageSize
       /\ used' = [used EXCEPT ![i] = left]
       /\ pages' = [pages EXCEPT ![i] = n]
  /\ UNCHANGED <<live, reading, stream, accepting, savedVars, frame, pc, cur, connects, overrun>>

CloseReader(i) ==
  /\ CanClose
  /\ i \in reading
  /\ reading' = reading \ {i}
  /\ UNCHANGED <<live, stream, used, pages, accepting, savedVars, frame, pc, cur, connects, overrun>>

MonitorDisconnect(i) ==
  /\ i \in live /\ i \notin reading
  /\ Disconnect(i)
  /\ UNCHANGED <<reading, stream, used, pages, savedVars, frame, pc, cur, connects, overrun>>

-----------------------------------------------------------------------------
(* The end of pipe_server_add_client                                       *)

(* The first free slot becomes INITIALIZED and its mutex is released.      *)
Connect(i) ==
  /\ pc["req"] = "idle"
  /\ connects < MaxConnects
  /\ i \notin live /\ \A j \in Slots : j < i => j \in live
  /\ live' = live \cup {i}
  /\ reading' = reading \cup {i}
  /\ stream' = [stream EXCEPT ![i] = <<>>]
  /\ used' = [used EXCEPT ![i] = 0]
  /\ pages' = [pages EXCEPT ![i] = 0]
  /\ overrun' = overrun \ {i}
  /\ connects' = connects + 1
  /\ Goto("req", "check") /\ AdvanceTo("req", i)
  /\ UNCHANGED <<accepting, savedVars, frame>>

(* The header is sent only if one is saved.                                *)
CheckHeader ==
  /\ pc["req"] = "check"
  /\ IF header = 0
       THEN Goto("req", "idle") /\ UNCHANGED accepting
       ELSE Goto("req", "meta") /\ accepting' = accepting \ {cur["req"]}
  /\ UNCHANGED <<slotVars, savedVars, frame, cur, connects>>

(* encode_header_meta is read when it is written.                          *)
ReplayMeta ==
  /\ pc["req"] = "meta"
  /\ \/ /\ WriteOK(cur["req"], SavedHeader(header_meta), "meta", 1)
        /\ Goto("req", "data")
     \/ /\ WriteFails(cur["req"], SavedHeader(header_meta), 1)
        /\ Goto("req", "idle")
  /\ UNCHANGED <<savedVars, frame, cur, connects>>

(* So is encode_header; the length comes from encode_header_meta, and a    *)
(* write of no bytes is refused.                                           *)
ReplayData ==
  /\ pc["req"] = "data"
  /\ \/ /\ header_meta # 0
        /\ \/ WriteOK(cur["req"], SavedHeader(header), "data", DataSize["H"])
           \/ WriteFails(cur["req"], SavedHeader(header), DataSize["H"])
     \/ header_meta = 0 /\ UNCHANGED <<slotVars, accepting>>
  /\ Goto("req", "idle")
  /\ UNCHANGED <<savedVars, frame, cur, connects>>

-----------------------------------------------------------------------------
(* pipe_server_write_camera_frame                                          *)

(* An I or P frame is written part by part, anything else as one list; a   *)
(* header is stored first.                                                 *)
NextFrame ==
  /\ pc["cam"] = "idle"
  /\ frame.n < MaxFrames
  /\ \E k \in Kinds :
       /\ frame' = [n |-> frame.n + 1, kind |-> k]
       /\ IF k = "H" THEN header' = frame.n + 1 ELSE UNCHANGED header
       /\ Goto("cam", CASE k = "H" -> "save" [] k = "R" -> "list" [] OTHER -> "meta")
  /\ AdvanceTo("cam", 0)
  /\ UNCHANGED <<slotVars, accepting, header_meta, connects>>

(* Mutant: the flags stay set.                                             *)
SaveHeaderMetaOnly ==
  /\ pc["cam"] = "save"
  /\ header_meta' = frame.n
  /\ Goto("cam", "list")
  /\ UNCHANGED <<slotVars, accepting, header, frame, cur, connects>>

(* encode_header_meta follows, then no client accepts P frames.            *)
SaveHeaderMeta ==
  /\ pc["cam"] = "save"
  /\ header_meta' = frame.n
  /\ accepting' = {}
  /\ Goto("cam", "list")
  /\ UNCHANGED <<slotVars, header, frame, cur, connects>>

(* The loops over the clients end.                                         *)
FrameDone ==
  /\ pc["cam"] \in {"list", "meta"}
  /\ cur["cam"] = NClient
  /\ Goto("cam", "idle")
  /\ UNCHANGED <<slotVars, accepting, savedVars, frame, cur, connects>>

(* Mutant: i <= n_clients.                                                 *)
SendListPastEnd ==
  /\ pc["cam"] = "list"
  /\ cur["cam"] <= NClient
  /\ IF cur["cam"] \in Slots THEN WriteList(cur["cam"], frame) ELSE UNCHANGED <<slotVars, accepting>>
  /\ AdvanceTo("cam", cur["cam"] + 1)
  /\ UNCHANGED <<savedVars, frame, pc, connects>>

SendList ==
  /\ pc["cam"] = "list"
  /\ cur["cam"] < NClient
  /\ WriteList(cur["cam"], frame)
  /\ AdvanceTo("cam", cur["cam"] + 1)
  /\ UNCHANGED <<savedVars, frame, pc, connects>>

(* Mutant: P frames go to every client.                                    *)
AcceptsAnything(i, f) == TRUE

(* P frames are skipped for a client that does not accept them.            *)
Accepts(i, f) == f.kind = "P" => i \in accepting

SkipClient ==
  /\ pc["cam"] = "meta"
  /\ cur["cam"] < NClient
  /\ ~Accepts(cur["cam"], frame)
  /\ AdvanceTo("cam", cur["cam"] + 1)
  /\ UNCHANGED <<slotVars, accepting, savedVars, frame, pc, connects>>

SendMeta ==
  /\ pc["cam"] = "meta"
  /\ cur["cam"] < NClient
  /\ Accepts(cur["cam"], frame)
  /\ \/ /\ WriteOK(cur["cam"], frame, "meta", 1)
        /\ Goto("cam", "data")
        /\ UNCHANGED cur
     \/ /\ WriteFails(cur["cam"], frame, 1)
        /\ AdvanceTo("cam", cur["cam"] + 1)
        /\ UNCHANGED pc
  /\ UNCHANGED <<savedVars, frame, connects>>

(* The result of the second write is ignored.                              *)
SendData ==
  /\ pc["cam"] = "data"
  /\ LET size == DataSize[frame.kind] IN
       \/ WriteOK(cur["cam"], frame, "data", size)
       \/ WriteFails(cur["cam"], frame, size)
  /\ IF frame.kind = "I"
       THEN Goto("cam", "accept") /\ UNCHANGED cur
       ELSE Goto("cam", "meta") /\ AdvanceTo("cam", cur["cam"] + 1)
  /\ UNCHANGED <<savedVars, frame, connects>>

(* After an I frame the client accepts P frames.                           *)
AcceptPFrames ==
  /\ pc["cam"] = "accept"
  /\ accepting' = accepting \cup {cur["cam"]}
  /\ Goto("cam", "meta") /\ AdvanceTo("cam", cur["cam"] + 1)
  /\ UNCHANGED <<slotVars, savedVars, frame, connects>>

-----------------------------------------------------------------------------
ClientStep(i) == Read(i) \/ CloseReader(i) \/ MonitorDisconnect(i) \/ Connect(i)

Replay == CheckHeader \/ ReplayMeta \/ ReplayData

Camera ==
  \/ NextFrame \/ SaveHeaderMeta \/ FrameDone \/ SendList
  \/ SkipClient \/ SendMeta \/ SendData \/ AcceptPFrames

Next == (\E i \in Slots : ClientStep(i)) \/ Replay \/ Camera

Spec == Init /\ [][Next]_vars

-----------------------------------------------------------------------------
(* The data of a frame comes right after its own metadata: a client never  *)
(* reads image bytes where it expects a camera_image_metadata_t.           *)
DataAnnouncedIn(s) ==
  \A k \in 1 .. Len(s) : s[k].part = "data" =>
    k > 1 /\ s[k - 1] = [s[k] EXCEPT !.part = "meta"]

DataAnnounced == \A i \in Slots : DataAnnouncedIn(stream[i])

(* A client's stream is a sequence of frames, each a metadata struct and   *)
(* the data it announces: every client gets "exactly one metadata and one  *)
(* camera frame" (modal_pipe_server.h).  The last frame of a client may be *)
(* cut short; so may any, once its pipe had no pages for what was found to *)
(* fit.                                                                    *)
MetaFollowedIn(s) ==
  \A k \in 1 .. Len(s) - 1 : s[k].part = "meta" =>
    s[k + 1] = [s[k] EXCEPT !.part = "data"]

FramesWhole ==
  \A i \in Slots \ overrun :
    /\ DataAnnouncedIn(stream[i]) /\ MetaFollowedIn(stream[i])
    /\ \A k \in 1 .. Len(stream[i]) : stream[i][k].part # "cut"

(* When the list write is over, no client that is still connected has been *)
(* sent metadata alone; what follows it is cut short only where the pages  *)
(* ran out: "will not write any data in the list unless there is space in  *)
(* the pipe for all data" (pipe_server_write_list).                        *)
HalfFrameMeansGone ==
  \A i \in live : stream[i] # <<>> =>
    LET last == stream[i][Len(stream[i])].part IN
    last = "data" \/ (last = "cut" /\ i \in overrun)

(* No write is cut short: "Shouldn't happen anymore since we started       *)
(* checking pipe capacity before writing" (server.c 1331-1332).            *)
NobodyOverrun == overrun = {}

(* A P frame is sent only to a client that was sent a whole I frame since  *)
(* it connected (server.c 1599-1600).                                      *)
IFrameFirst(s) ==
  \A k \in 1 .. Len(s) : s[k].kind = "P" =>
    \E j \in 1 .. k : s[j].kind = "I" /\ s[j].part = "data"

StartsWithIFrame == \A i \in Slots : IFrameFirst(stream[i])

(* After a new header a client is sent P frames only once it was sent an   *)
(* I frame that follows the header ("Reset accepting p frames flag for all *)
(* clients ... when receiving a new stream header", CHANGELOG 2.13.2).     *)
NewHeaderNeedsIFrame ==
  \A i \in Slots : \A p, h \in 1 .. Len(stream[i]) :
    LET s == stream[i] IN
    s[p].kind = "P" /\ s[h].kind = "H" /\ s[h].n < s[p].n =>
      \E j \in 1 .. p : s[j].kind = "I" /\ s[h].n < s[j].n

(* The saved header is the first thing written to a new client (server.c   *)
(* 1006-1007).                                                             *)
HeaderSentFirst ==
  [][ReplayMeta /\ pc'["req"] = "data" => stream[cur["req"]] = <<>>]_vars
=============================================================================
