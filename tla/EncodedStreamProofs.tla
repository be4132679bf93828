------------------------- MODULE EncodedStreamProofs -------------------------
(***************************************************************************)
(* Proofs about EncodedStream, for every pipe, page and frame size and     *)
(* number of clients.  Type correctness for every channel, with what the   *)
(* kernel can hold.  For a channel that carries only images that are not   *)
(* encoded, whose frames go through pipe_server_write_list: no client gets *)
(* part of a frame, whenever clients come and go, but one that is gone or  *)
(* whose pipe had no pages for what was found to fit.  For clients that    *)
(* stay: a new header resets every decoder, and, when the I frames fit     *)
(* into the pipes, the video of every client starts with an I frame; a     *)
(* bound on the sizes that makes all of it fit.                            *)
(***************************************************************************)
EXTENDS EncodedStream, TLAPS

-----------------------------------------------------------------------------
(* Pages and units                                                         *)

LEMMA TimesMonotone ==
  ASSUME NEW a \in Nat, NEW b \in Nat, NEW p \in Nat, a <= b
  PROVE  a * p \in Nat /\ b * p \in Nat /\ a * p <= b * p
<1>1. PICK d \in Nat : b = a + d
  <2>1. b - a \in Nat /\ b = a + (b - a)
    OBVIOUS
  <2> QED
    BY <2>1
<1>2. b * p = a * p + d * p /\ d * p \in Nat /\ a * p \in Nat
  BY <1>1
<1> QED
  BY <1>1, <1>2

LEMMA DivMod ==
  ASSUME NEW x \in Nat, NEW p \in Nat \ {0}
  PROVE  /\ x \div p \in Nat /\ x % p \in 0 .. p - 1 /\ x = p * (x \div p) + (x % p)
         /\ x % p \in Nat /\ x % p <= x
<1>1. x \div p \in Nat /\ x % p \in 0 .. p - 1 /\ x = p * (x \div p) + (x % p)
  OBVIOUS
<1>2. p * (x \div p) \in Nat
  BY <1>1
<1> QED
  BY <1>1, <1>2

(* PagesFor rounds up.                                                     *)
LEMMA PagesForRounds ==
  ASSUME NEW s \in Nat
  PROVE  /\ PagesFor(s) \in Nat /\ s <= PagesFor(s) * PageSize
         /\ \A k \in Nat : s <= k * PageSize => PagesFor(s) <= k
<1> DEFINE q == (s + PageSize - 1) \div PageSize
           m == (s + PageSize - 1) % PageSize
<1>1. PageSize \in Nat \ {0} /\ s + PageSize - 1 \in Nat
  BY EncodedStreamAssumption
<1>2. q \in Nat /\ m \in 0 .. PageSize - 1 /\ s + PageSize - 1 = PageSize * q + m
  BY <1>1, DivMod
<1>3. PagesFor(s) = q
  BY DEF PagesFor
<1> HIDE DEF q, m
<1>4. q * PageSize \in Nat /\ q * PageSize = PageSize * q
  BY <1>1, <1>2
<1>5. s <= q * PageSize /\ q * PageSize < s + PageSize
  BY <1>1, <1>2, <1>4
<1>6. ASSUME NEW k \in Nat, s <= k * PageSize
      PROVE  q <= k
  <2>1. SUFFICES ASSUME k + 1 <= q
                 PROVE  FALSE
    BY <1>2
  <2>2. (k + 1) * PageSize <= q * PageSize
    BY <1>1, <1>2, <2>1, TimesMonotone
  <2>3. (k + 1) * PageSize = k * PageSize + PageSize /\ k * PageSize \in Nat
    BY <1>1
  <2> QED
    BY <1>1, <1>4, <1>5, <1>6, <2>2, <2>3
<1> QED
  BY <1>2, <1>3, <1>5, <1>6

(* What the kernel takes is what was written or less, and has its place;   *)
(* a write for which there are pages is taken whole.                       *)
LEMMA KernelTakes ==
  ASSUME NEW u \in Nat, NEW n \in 0 .. PipePages, u <= n * PageSize,
         NEW size \in Nat, NEW o \in Kernel(u, n, size)
  PROVE  /\ o.put \in 0 .. size
         /\ o.pages \in 0 .. PipePages
         /\ u + o.put <= o.pages * PageSize
         /\ n + PagesFor(size) <= PipePages =>
              o.put = size /\ o.pages <= n + PagesFor(size)
<1> DEFINE free == (PipePages - n) * PageSize
<1>1. /\ PageSize \in Nat \ {0} /\ PipePages \in Nat /\ n \in Nat /\ n <= PipePages
      /\ PipePages - n \in Nat
  BY EncodedStreamAssumption
<1>2. /\ free \in Nat /\ n * PageSize \in Nat
      /\ PipePages * PageSize = n * PageSize + free
  <2>1. PipePages = n + (PipePages - n)
    BY <1>1
  <2>2. (n + (PipePages - n)) * PageSize = n * PageSize + (PipePages - n) * PageSize
    BY <1>1
  <2> QED
    BY <1>1, <2>1, <2>2
<1>3. PICK m : /\ m = 0 \/ (m = size % PageSize /\ u + m <= n * PageSize)
               /\ o = IF size - m <= free
                        THEN [put |-> size, pages |-> n + PagesFor(size - m)]
                        ELSE [put |-> m + free, pages |-> PipePages]
  BY DEF Kernel
<1>4. m \in 0 .. size /\ u + m <= n * PageSize
  <2>1. size % PageSize \in Nat /\ size % PageSize <= size
    <3>1. PageSize \in Nat \ {0}
      BY <1>1
    <3> QED
      BY <3>1, DivMod, Zenon
  <2>2. CASE m = 0
    BY <2>2
  <2>3. CASE m = size % PageSize /\ u + m <= n * PageSize
    BY <2>1, <2>3
  <2> QED
    BY <1>3, <2>2, <2>3
<1> HIDE DEF free
<1>5. CASE size - m <= free
  <2> DEFINE k == PagesFor(size - m)
  <2>1. k \in Nat /\ size - m <= k * PageSize /\ k <= PipePages - n
    <3>1. size - m \in Nat /\ size - m <= (PipePages - n) * PageSize
      BY <1>1, <1>4, <1>5 DEF free
    <3> QED
      BY <1>1, <3>1, PagesForRounds
  <2> HIDE DEF k
  <2>2. (n + k) * PageSize = n * PageSize + k * PageSize /\ k * PageSize \in Nat
    BY <1>1, <2>1
  <2>3. o.put = size /\ o.pages = n + k
    BY <1>3, <1>5 DEF k
  <2>4. k <= PagesFor(size) /\ PagesFor(size) \in Nat
    <3>1. PagesFor(size) \in Nat /\ size <= PagesFor(size) * PageSize
      BY PagesForRounds
    <3>2. size - m <= PagesFor(size) * PageSize /\ size - m \in Nat
      BY <1>1, <1>4, <3>1
    <3> QED
      BY <3>1, <3>2, PagesForRounds DEF k
  <2> QED
    BY <1>1, <1>2, <1>4, <2>1, <2>2, <2>3, <2>4
<1>6. CASE size - m > free
  <2>1. o.put = m + free /\ o.pages = PipePages
    BY <1>2, <1>3, <1>4, <1>6
  <2>2. n + PagesFor(size) > PipePages
    <3>1. PagesFor(size) \in Nat /\ size <= PagesFor(size) * PageSize
      BY PagesForRounds
    <3>2. SUFFICES ASSUME PagesFor(size) <= PipePages - n
                   PROVE  FALSE
      BY <1>1, <3>1
    <3>3. PagesFor(size) * PageSize <= free
      BY <1>1, <3>1, <3>2, TimesMonotone DEF free
    <3>4. PagesFor(size) * PageSize \in Nat
      BY <1>1, <3>1
    <3> QED
      BY <1>2, <1>4, <1>6, <3>1, <3>3, <3>4
  <2>3. PagesFor(size) \in Nat
    BY PagesForRounds
  <2> QED
    BY <1>1, <1>2, <1>4, <1>6, <2>1, <2>2, <2>3
<1> QED
  BY <1>2, <1>4, <1>5, <1>6

-----------------------------------------------------------------------------
(* The writes keep the types.                                              *)
SlotsOK ==
  /\ live \in SUBSET Slots
  /\ reading \in SUBSET Slots
  /\ stream \in [Slots -> Seq(Parts)]
  /\ used \in [Slots -> 0 .. PipeSize]
  /\ pages \in [Slots -> 0 .. PipePages]
  /\ \A i \in Slots : used[i] <= pages[i] * PageSize
  /\ accepting \in SUBSET Slots
  /\ overrun \in SUBSET Slots

LEMMA FillTyped ==
  ASSUME TypeOK, NEW i \in Slots, NEW ps \in Seq(Parts), NEW size \in Nat,
         NEW n \in 0 .. PipePages, used[i] + size <= n * PageSize, Fill(i, ps, size, n)
  PROVE  /\ stream' \in [Slots -> Seq(Parts)]
         /\ used' \in [Slots -> 0 .. PipeSize]
         /\ pages' \in [Slots -> 0 .. PipePages]
         /\ \A j \in Slots : used'[j] <= pages'[j] * PageSize
<1>1. stream[i] \o ps \in Seq(Parts)
  BY DEF TypeOK
<1>2. n * PageSize <= PipeSize /\ n * PageSize \in Nat /\ PipeSize \in Nat
  BY EncodedStreamAssumption, TimesMonotone DEF PipeSize
<1>3. used[i] + size \in 0 .. PipeSize
  BY <1>2 DEF TypeOK
<1>4. used' \in [Slots -> 0 .. PipeSize] /\ pages' \in [Slots -> 0 .. PipePages]
  BY <1>3 DEF Fill, TypeOK
<1>5. ASSUME NEW j \in Slots
      PROVE  used'[j] <= pages'[j] * PageSize
  <2>1. CASE j = i
    <3>1. used'[i] = used[i] + size /\ pages'[i] = n
      BY DEF Fill, TypeOK
    <3> QED
      BY <2>1, <3>1
  <2>2. CASE j # i
    <3>1. used'[j] = used[j] /\ pages'[j] = pages[j]
      BY <2>2 DEF Fill, TypeOK
    <3> QED
      BY <3>1 DEF TypeOK
  <2> QED
    BY <2>1, <2>2
<1> QED
  BY <1>1, <1>4, <1>5 DEF Fill, TypeOK

(* The kernel's answer to a write after len units of the same list.        *)
LEMMA AnswerTyped ==
  ASSUME TypeOK, NEW i \in Slots, NEW f \in Frames, NEW part \in {"meta", "data"},
         NEW before \in Seq(Parts), NEW size \in Nat, NEW n \in 0 .. PipePages,
         used[i] + Len(before) <= n * PageSize,
         NEW o \in Kernel(used[i] + Len(before), n, size),
         \/ Taken(i, before, Part(f, part), size, o)
         \/ Refused(i, before, f, size, o)
  PROVE  SlotsOK'
<1>1. used[i] \in Nat /\ Len(before) \in Nat
  BY DEF TypeOK
<1>2. /\ o.put \in 0 .. size /\ o.pages \in 0 .. PipePages
      /\ used[i] + Len(before) + o.put <= o.pages * PageSize
  BY <1>1, KernelTakes
<1>3. Part(f, part) \in Parts /\ Part(f, "cut") \in Parts
  BY DEF Part, Parts, Frames
<1>4. CASE Taken(i, before, Part(f, part), size, o)
  <2>1. Append(before, Part(f, part)) \in Seq(Parts)
    BY <1>3
  <2>2. /\ used[i] + (Len(before) + size) <= o.pages * PageSize
        /\ Len(before) + size \in Nat
        /\ Fill(i, Append(before, Part(f, part)), Len(before) + size, o.pages)
    BY <1>1, <1>2, <1>4 DEF Taken
  <2>3. /\ stream' \in [Slots -> Seq(Parts)]
        /\ used' \in [Slots -> 0 .. PipeSize]
        /\ pages' \in [Slots -> 0 .. PipePages]
        /\ \A j \in Slots : used'[j] <= pages'[j] * PageSize
    BY <1>2, <2>1, <2>2, FillTyped
  <2> QED
    BY <1>4, <2>3 DEF Taken, TypeOK, SlotsOK
<1>5. CASE Refused(i, before, f, size, o) /\ o.put > 0
  <2>1. Append(before, Part(f, "cut")) \in Seq(Parts)
    BY <1>3
  <2>2. /\ used[i] + (Len(before) + o.put) <= o.pages * PageSize
        /\ Len(before) + o.put \in Nat
        /\ Fill(i, Append(before, Part(f, "cut")), Len(before) + o.put, o.pages)
    BY <1>1, <1>2, <1>5 DEF Refused
  <2>3. /\ stream' \in [Slots -> Seq(Parts)]
        /\ used' \in [Slots -> 0 .. PipeSize]
        /\ pages' \in [Slots -> 0 .. PipePages]
        /\ \A j \in Slots : used'[j] <= pages'[j] * PageSize
    BY <1>2, <2>1, <2>2, FillTyped
  <2> QED
    BY <1>5, <2>3 DEF Refused, TypeOK, SlotsOK
<1>6. CASE Refused(i, before, f, size, o) /\ ~(o.put > 0)
  <2>1. used[i] + Len(before) <= o.pages * PageSize
    BY <1>1, <1>2, <1>6
  <2>2. /\ stream' \in [Slots -> Seq(Parts)]
        /\ used' \in [Slots -> 0 .. PipeSize]
        /\ pages' \in [Slots -> 0 .. PipePages]
        /\ \A j \in Slots : used'[j] <= pages'[j] * PageSize
    BY <1>1, <1>2, <1>6, <2>1, FillTyped DEF Refused
  <2> QED
    BY <1>6, <2>2 DEF Refused, Disconnect, TypeOK, SlotsOK
<1> QED
  BY <1>4, <1>5, <1>6

LEMMA NotWrittenTyped ==
  ASSUME TypeOK, NEW i, NEW size, NotWritten(i, size)
  PROVE  SlotsOK'
BY DEF NotWritten, Disconnect, TypeOK, SlotsOK

LEMMA WriteTyped ==
  ASSUME TypeOK, NEW i \in Slots, NEW f \in Frames, NEW part \in {"meta", "data"},
         NEW size \in Nat, WriteOK(i, f, part, size) \/ WriteFails(i, f, size)
  PROVE  SlotsOK'
<1>1. /\ used[i] \in Nat /\ pages[i] \in 0 .. PipePages /\ used[i] <= pages[i] * PageSize
      /\ <<>> \in Seq(Parts) /\ Len(<<>>) = 0 /\ used[i] + Len(<<>>) = used[i]
  BY DEF TypeOK
<1>2. CASE NotWritten(i, size)
  BY <1>2, NotWrittenTyped
<1>3. CASE ~NotWritten(i, size)
  <2>1. PICK o \in Kernel(used[i], pages[i], size) :
          Taken(i, <<>>, Part(f, part), size, o) \/ Refused(i, <<>>, f, size, o)
    BY <1>3 DEF WriteOK, WriteFails
  <2> QED
    BY <1>1, <2>1, AnswerTyped
<1> QED
  BY <1>2, <1>3

LEMMA WriteListTyped ==
  ASSUME TypeOK, NEW i \in Slots, NEW f \in Frames, WriteList(i, f)
  PROVE  SlotsOK'
<1> DEFINE size == DataSize[f.kind]
           m == Part(f, "meta")
<1>1. /\ used[i] \in Nat /\ pages[i] \in 0 .. PipePages /\ used[i] <= pages[i] * PageSize
      /\ <<>> \in Seq(Parts) /\ Len(<<>>) = 0 /\ used[i] + Len(<<>>) = used[i]
  BY DEF TypeOK
<1>2. size \in Nat /\ m \in Parts /\ <<m>> \in Seq(Parts) /\ Len(<<m>>) = 1
  BY EncodedStreamAssumption DEF Frames, Parts, Part
<1>3. CASE NotWritten(i, 1 + size)
  BY <1>3, NotWrittenTyped
<1>4. CASE WriteBoth(i, f)
  <2>1. PICK o \in Kernel(used[i], pages[i], 1) :
          \/ Refused(i, <<>>, f, 1, o)
          \/ /\ o.put = 1
             /\ \E d \in Kernel(used[i] + 1, o.pages, size) :
                  \/ Taken(i, <<m>>, Part(f, "data"), size, d)
                  \/ Refused(i, <<m>>, f, size, d)
          \/ /\ o.put = 1
             /\ Fill(i, <<m>>, 1, o.pages)
             /\ reading' = reading \ {i} /\ Disconnect(i) /\ UNCHANGED overrun
    BY <1>4 DEF WriteBoth
  <2>2. /\ o.pages \in 0 .. PipePages
        /\ o.put = 1 => used[i] + 1 <= o.pages * PageSize
    BY <1>1, KernelTakes
  <2>3. CASE Refused(i, <<>>, f, 1, o)
    BY <1>1, <2>3, AnswerTyped
  <2>4. CASE /\ o.put = 1
             /\ \E d \in Kernel(used[i] + 1, o.pages, size) :
                  \/ Taken(i, <<m>>, Part(f, "data"), size, d)
                  \/ Refused(i, <<m>>, f, size, d)
    <3>1. PICK d \in Kernel(used[i] + Len(<<m>>), o.pages, size) :
                  \/ Taken(i, <<m>>, Part(f, "data"), size, d)
                  \/ Refused(i, <<m>>, f, size, d)
      BY <1>2, <2>4
    <3>2. used[i] + Len(<<m>>) <= o.pages * PageSize
      BY <1>2, <2>2, <2>4
    <3> HIDE DEF m, size
    <3> QED
      BY <1>2, <2>2, <3>1, <3>2, AnswerTyped
  <2>5. CASE /\ o.put = 1
             /\ Fill(i, <<m>>, 1, o.pages)
             /\ reading' = reading \ {i} /\ Disconnect(i) /\ UNCHANGED overrun
    <3>1. /\ stream' \in [Slots -> Seq(Parts)]
          /\ used' \in [Slots -> 0 .. PipeSize]
          /\ pages' \in [Slots -> 0 .. PipePages]
          /\ \A j \in Slots : used'[j] <= pages'[j] * PageSize
      BY <1>2, <2>2, <2>5, FillTyped
    <3> QED
      BY <2>5, <3>1 DEF Disconnect, TypeOK, SlotsOK
  <2> QED
    BY <2>1, <2>3, <2>4, <2>5
<1> QED
  BY <1>3, <1>4 DEF WriteList

(* Every step preserves the types and keeps the threads inside the loops.  *)
CursOK ==
  /\ pc["req"] \in {"idle", "check", "meta", "data"}
  /\ cur["req"] \in Slots
  /\ pc["cam"] \in {"data", "accept"} => cur["cam"] \in Slots

ControlOK ==
  /\ frame \in Frames
  /\ pc \in [{"cam", "req"} -> {"idle", "save", "list", "meta", "data", "accept", "check"}]
  /\ cur \in [{"cam", "req"} -> 0 .. NClient]

LEMMA TypeInductive == TypeOK /\ CursOK /\ [Next]_vars => TypeOK' /\ CursOK'
<1> SUFFICES ASSUME TypeOK, CursOK, [Next]_vars
             PROVE  TypeOK' /\ CursOK'
  OBVIOUS
<1> USE EncodedStreamAssumption DEF CursOK, Goto, AdvanceTo, slotVars, savedVars
<1>c. ControlOK
  BY DEF TypeOK, ControlOK
<1>1. ASSUME NEW i \in Slots, Read(i)
      PROVE  TypeOK' /\ CursOK'
  <2>1. PICK left \in 0 .. used[i] - 1, n \in 0 .. pages[i] :
          /\ left <= n * PageSize
          /\ used' = [used EXCEPT ![i] = left] /\ pages' = [pages EXCEPT ![i] = n]
    BY <1>1 DEF Read
  <2>2. /\ used[i] \in 0 .. PipeSize /\ pages[i] \in 0 .. PipePages
        /\ left \in 0 .. PipeSize /\ n \in 0 .. PipePages
    <3>1. used[i] \in 0 .. PipeSize /\ pages[i] \in 0 .. PipePages /\ PipeSize \in Nat
      BY DEF TypeOK, PipeSize
    <3> QED
      BY <3>1
  <2>3. /\ used' \in [Slots -> 0 .. PipeSize] /\ pages' \in [Slots -> 0 .. PipePages]
    BY <2>1, <2>2 DEF TypeOK
  <2>4. ASSUME NEW j \in Slots
        PROVE  used'[j] <= pages'[j] * PageSize
    <3>1. CASE j = i
      BY <2>1, <3>1 DEF TypeOK
    <3>2. CASE j # i
      <4>1. used'[j] = used[j] /\ pages'[j] = pages[j]
        BY <2>1, <3>2 DEF TypeOK
      <4> QED
        BY <4>1 DEF TypeOK
    <3> QED
      BY <3>1, <3>2
  <2> QED
    BY <1>1, <2>3, <2>4 DEF Read, TypeOK
<1>2. ASSUME NEW i \in Slots, CloseReader(i) \/ MonitorDisconnect(i)
      PROVE  TypeOK' /\ CursOK'
  BY <1>2 DEF CloseReader, MonitorDisconnect, Disconnect, TypeOK
<1>3. ASSUME NEW i \in Slots, Connect(i)
      PROVE  TypeOK' /\ CursOK'
  <2>1. stream' \in [Slots -> Seq(Parts)]
    <3>1. <<>> \in Seq(Parts)
      OBVIOUS
    <3> QED
      BY <1>3, <3>1 DEF Connect, TypeOK
  <2>2. /\ used' \in [Slots -> 0 .. PipeSize] /\ pages' \in [Slots -> 0 .. PipePages]
        /\ connects' \in 0 .. MaxConnects
    <3>1. PipeSize \in Nat
      BY DEF PipeSize
    <3> QED
      BY <1>3, <3>1 DEF Connect, TypeOK
  <2>3. live' \in SUBSET Slots /\ reading' \in SUBSET Slots /\ overrun' \in SUBSET Slots
    BY <1>3 DEF Connect, TypeOK
  <2>5. ASSUME NEW j \in Slots
        PROVE  used'[j] <= pages'[j] * PageSize
    <3>1. CASE j = i
      <4>1. used'[j] = 0 /\ pages'[j] = 0
        BY <1>3, <3>1 DEF Connect, TypeOK
      <4> QED
        BY <4>1
    <3>2. CASE j # i
      <4>1. used'[j] = used[j] /\ pages'[j] = pages[j]
        BY <1>3, <3>2 DEF Connect, TypeOK
      <4> QED
        BY <4>1 DEF TypeOK
    <3> QED
      BY <3>1, <3>2
  <2>4. /\ pc' \in [{"cam", "req"} -> {"idle", "save", "list", "meta", "data", "accept", "check"}]
        /\ cur' \in [{"cam", "req"} -> 0 .. NClient]
        /\ CursOK'
    BY <1>3, <1>c DEF Connect, ControlOK, Slots
  <2> QED
    BY <1>3, <2>1, <2>2, <2>3, <2>4, <2>5 DEF Connect, TypeOK
<1>4. CASE CheckHeader
  <2>1. pc' \in [{"cam", "req"} -> {"idle", "save", "list", "meta", "data", "accept", "check"}]
    BY <1>4 DEF CheckHeader, TypeOK
  <2>2. accepting' \in SUBSET Slots
    BY <1>4 DEF CheckHeader, TypeOK
  <2>3. CursOK'
    BY <1>4 DEF CheckHeader, TypeOK
  <2> QED
    BY <1>4, <2>1, <2>2, <2>3 DEF CheckHeader, TypeOK
<1>5. CASE ReplayMeta
  <2>1. PICK i \in Slots, f \in Frames :
          i = cur["req"] /\ f = SavedHeader(header_meta)
    BY DEF TypeOK, SavedHeader, Frames, FrameKinds
  <2>2. WriteOK(i, f, "meta", 1) \/ WriteFails(i, f, 1)
    BY <1>5, <2>1 DEF ReplayMeta
  <2>3. SlotsOK'
    BY <2>2, WriteTyped
  <2> QED
    BY <1>5, <2>3 DEF ReplayMeta, TypeOK, SlotsOK
<1>6. CASE ReplayData
  <2>1. PICK i \in Slots, f \in Frames : i = cur["req"] /\ f = SavedHeader(header)
    BY DEF TypeOK, SavedHeader, Frames, FrameKinds
  <2>2. CASE UNCHANGED <<slotVars, accepting>>
    BY <1>6, <2>2 DEF ReplayData, TypeOK
  <2>3. CASE ~UNCHANGED <<slotVars, accepting>>
    <3>1. WriteOK(i, f, "data", DataSize["H"]) \/ WriteFails(i, f, DataSize["H"])
      BY <1>6, <2>1, <2>3 DEF ReplayData
    <3>2. DataSize["H"] \in Nat
      BY DEF FrameKinds
    <3>3. SlotsOK'
      BY <3>1, <3>2, WriteTyped
    <3> QED
      BY <1>6, <3>3 DEF ReplayData, TypeOK, SlotsOK
  <2> QED
    BY <2>2, <2>3
<1>7. CASE NextFrame
  <2>1. frame.n \in Nat /\ frame.n + 1 \in 0 .. MaxFrames
    BY <1>7, <1>c DEF NextFrame, ControlOK, Frames
  <2>2. /\ frame' \in Frames /\ header' \in {header, frame.n + 1}
        /\ pc' \in [{"cam", "req"} -> {"idle", "save", "list", "meta", "data", "accept", "check"}]
        /\ cur' \in [{"cam", "req"} -> 0 .. NClient]
        /\ CursOK'
    BY <1>7, <1>c, <2>1 DEF NextFrame, ControlOK, Frames
  <2> QED
    BY <1>7, <2>1, <2>2 DEF NextFrame, TypeOK
<1>8. CASE SaveHeaderMeta \/ FrameDone
  BY <1>8 DEF SaveHeaderMeta, FrameDone, TypeOK, Frames
<1>9. CASE SkipClient \/ AcceptPFrames
  <2>1. cur["cam"] \in Slots
    BY <1>9, <1>c DEF SkipClient, AcceptPFrames, ControlOK, CursOK, Slots
  <2>2. cur["cam"] + 1 \in 0 .. NClient
    BY <2>1 DEF Slots
  <2> QED
    BY <1>9, <2>1, <2>2 DEF SkipClient, AcceptPFrames, TypeOK
<1>10. CASE SendList
  <2>1. PICK i \in Slots, f \in Frames : i = cur["cam"] /\ f = frame
    BY <1>10, <1>c DEF SendList, ControlOK, Slots
  <2>2. WriteList(i, f)
    BY <1>10, <2>1 DEF SendList
  <2>3. i + 1 \in 0 .. NClient
    BY DEF Slots
  <2>4. SlotsOK'
    BY <2>2, WriteListTyped
  <2> QED
    BY <1>10, <2>1, <2>3, <2>4 DEF SendList, TypeOK, SlotsOK
<1>11. CASE SendMeta \/ SendData
  <2>1. PICK i \in Slots, f \in Frames : i = cur["cam"] /\ f = frame
    BY <1>11, <1>c DEF SendMeta, SendData, ControlOK, CursOK, Slots
  <2>2. DataSize[f.kind] \in Nat
    BY DEF Frames
  <2>3. CASE SendMeta
    <3>1. WriteOK(i, f, "meta", 1) \/ WriteFails(i, f, 1)
      BY <2>1, <2>3 DEF SendMeta
    <3>2. cur' \in [{"cam", "req"} -> 0 .. NClient] /\ cur'["req"] = cur["req"]
      BY <1>c, <2>1, <2>3 DEF SendMeta, ControlOK, Slots
    <3>3. /\ pc' \in [{"cam", "req"} -> {"idle", "save", "list", "meta", "data", "accept", "check"}]
          /\ pc'["req"] = pc["req"]
          /\ pc'["cam"] \in {"data", "accept"} => cur' = cur
      BY <1>c, <2>3 DEF SendMeta, ControlOK
    <3>4. SlotsOK'
      BY <3>1, WriteTyped
    <3> QED
      BY <2>1, <2>3, <3>2, <3>3, <3>4 DEF SendMeta, TypeOK, SlotsOK
  <2>4. CASE SendData
    <3>1. WriteOK(i, f, "data", DataSize[f.kind]) \/ WriteFails(i, f, DataSize[f.kind])
      BY <2>1, <2>4 DEF SendData
    <3>2. cur' \in [{"cam", "req"} -> 0 .. NClient] /\ cur'["req"] = cur["req"]
      BY <1>c, <2>1, <2>4 DEF SendData, ControlOK, Slots
    <3>3. /\ pc' \in [{"cam", "req"} -> {"idle", "save", "list", "meta", "data", "accept", "check"}]
          /\ pc'["req"] = pc["req"]
          /\ pc'["cam"] \in {"data", "accept"} => cur' = cur
      BY <1>c, <2>4 DEF SendData, ControlOK
    <3>4. SlotsOK'
      BY <2>2, <3>1, WriteTyped
    <3> QED
      BY <2>1, <2>4, <3>2, <3>3, <3>4 DEF SendData, TypeOK, SlotsOK
  <2> QED
    BY <1>11, <2>3, <2>4
<1>12. CASE UNCHANGED vars
  BY <1>12 DEF vars, TypeOK
<1> QED
  BY <1>1, <1>2, <1>3, <1>4, <1>5, <1>6, <1>7, <1>8, <1>9, <1>10, <1>11, <1>12
    DEF Next, ClientStep, Replay, Camera

LEMMA TypeInit == Init => TypeOK /\ CursOK
<1> SUFFICES ASSUME Init
             PROVE  TypeOK /\ CursOK
  OBVIOUS
<1>1. PipeSize \in Nat /\ 0 * PageSize = 0
  BY EncodedStreamAssumption DEF PipeSize
<1> QED
  BY <1>1, EncodedStreamAssumption
    DEF Init, TypeOK, CursOK, Slots, Frames, NoFrame, FrameKinds

(* No pipe ever holds more than its size, nor more than its pages do, and  *)
(* the loops stay in the table.                                            *)
THEOREM TypeCorrect == Spec => []TypeOK
<1> QED
  BY TypeInit, TypeInductive, PTL DEF Spec
-----------------------------------------------------------------------------
(* A channel without encoded video: every frame goes through a list write. *)
OnlyLists ==
  /\ pc["cam"] \in {"idle", "list"}
  /\ pc["req"] \in {"idle", "check"}
  /\ header = 0

NoCut(s) == \A k \in 1 .. Len(s) : s[k].part # "cut"
Whole(s) == DataAnnouncedIn(s) /\ MetaFollowedIn(s) /\ NoCut(s)
EndsIn(s, parts) == s # <<>> => s[Len(s)].part \in parts
Complete(s) == EndsIn(s, {"data"})

(* Appending a frame, or the beginning of one, to whole frames.            *)
LEMMA AppendWhole ==
  ASSUME NEW s \in Seq(Parts), Whole(s), Complete(s), NEW f \in Frames,
         NEW m, m = Part(f, "meta"), NEW d, d = Part(f, "data")
  PROVE  /\ Whole(s \o <<m, d>>) /\ Complete(s \o <<m, d>>)
         /\ Whole(s \o <<m>>)
<1> DEFINE n == Len(s)
           t == s \o <<m, d>>
           u == s \o <<m>>
<1>1. n \in Nat /\ \A k \in 1 .. n : s[k] \in Parts
  OBVIOUS
<1>2. m.part = "meta" /\ d.part = "data" /\ d = [m EXCEPT !.part = "data"]
      /\ m = [d EXCEPT !.part = "meta"]
  BY DEF Part
<1>3. /\ Len(t) = n + 2 /\ \A k \in 1 .. n : t[k] = s[k]
      /\ t[n + 1] = m /\ t[n + 2] = d
  BY <1>1
<1>4. /\ Len(u) = n + 1 /\ \A k \in 1 .. n : u[k] = s[k]
      /\ u[n + 1] = m
  BY <1>1
<1>5. n > 0 => s[n].part = "data"
  BY DEF Complete, EndsIn
<1> HIDE DEF t, u
<1>6. DataAnnouncedIn(t)
  <2>1. ASSUME NEW k \in 1 .. n + 2, t[k].part = "data"
        PROVE  k > 1 /\ t[k - 1] = [t[k] EXCEPT !.part = "meta"]
    <3>1. CASE k \in 1 .. n
      BY <1>1, <1>3, <2>1, <3>1 DEF Whole, DataAnnouncedIn
    <3>2. CASE k = n + 1
      BY <1>2, <1>3, <2>1, <3>2
    <3>3. CASE k = n + 2
      BY <1>1, <1>2, <1>3, <3>3
    <3> QED
      BY <1>1, <3>1, <3>2, <3>3
  <2> QED
    BY <1>3, <2>1 DEF DataAnnouncedIn
<1>7. MetaFollowedIn(t)
  <2>1. ASSUME NEW k \in 1 .. n + 1, t[k].part = "meta"
        PROVE  t[k + 1] = [t[k] EXCEPT !.part = "data"]
    <3>1. CASE k \in 1 .. n - 1
      BY <1>1, <1>3, <2>1, <3>1 DEF Whole, MetaFollowedIn
    <3>2. CASE k = n
      BY <1>1, <1>3, <1>5, <2>1, <3>2
    <3>3. CASE k = n + 1
      BY <1>1, <1>2, <1>3, <3>3
    <3> QED
      BY <1>1, <3>1, <3>2, <3>3
  <2> QED
    BY <1>1, <1>3, <2>1 DEF MetaFollowedIn
<1>8. DataAnnouncedIn(u)
  <2>1. ASSUME NEW k \in 1 .. n + 1, u[k].part = "data"
        PROVE  k > 1 /\ u[k - 1] = [u[k] EXCEPT !.part = "meta"]
    <3>1. CASE k \in 1 .. n
      BY <1>1, <1>4, <2>1, <3>1 DEF Whole, DataAnnouncedIn
    <3>2. CASE k = n + 1
      BY <1>2, <1>4, <2>1, <3>2
    <3> QED
      BY <1>1, <3>1, <3>2
  <2> QED
    BY <1>4, <2>1 DEF DataAnnouncedIn
<1>9. MetaFollowedIn(u)
  <2>1. ASSUME NEW k \in 1 .. n, u[k].part = "meta"
        PROVE  u[k + 1] = [u[k] EXCEPT !.part = "data"]
    <3>1. CASE k \in 1 .. n - 1
      BY <1>1, <1>4, <2>1, <3>1 DEF Whole, MetaFollowedIn
    <3>2. CASE k = n
      BY <1>1, <1>4, <1>5, <2>1, <3>2
    <3> QED
      BY <1>1, <3>1, <3>2
  <2> QED
    BY <1>1, <1>4, <2>1 DEF MetaFollowedIn
<1>10. Complete(t)
  BY <1>1, <1>2, <1>3 DEF Complete, EndsIn
<1>11. NoCut(t) /\ NoCut(u)
  BY <1>1, <1>2, <1>3, <1>4 DEF Whole, NoCut
<1> QED
  BY <1>6, <1>7, <1>8, <1>9, <1>10, <1>11 DEF Whole, t, u

(* Who was refused nothing has whole frames, and nobody who is connected   *)
(* ends in metadata, between two frames.                                   *)
SlotsWhole ==
  \A i \in Slots :
    /\ i \notin overrun => Whole(stream[i]) /\ (i \in live => Complete(stream[i]))
    /\ i \in live => EndsIn(stream[i], {"data", "cut"})

WholeInv == OnlyLists /\ SlotsWhole

(* Slot i alone changes: its stream has new parts at its end.              *)
LEMMA FillWhole ==
  ASSUME TypeOK, SlotsWhole, NEW i \in Slots, NEW ps \in Seq(Parts), NEW size, NEW n,
         Fill(i, ps, size, n),
         overrun' \in {overrun, overrun \cup {i}}, live' \in {live, live \ {i}},
         i \notin overrun' =>
           Whole(stream[i] \o ps) /\ (i \in live' => Complete(stream[i] \o ps)),
         i \in live' => EndsIn(stream[i] \o ps, {"data", "cut"})
  PROVE  SlotsWhole'
<1>1. /\ stream \in [Slots -> Seq(Parts)]
      /\ stream' = [stream EXCEPT ![i] = stream[i] \o ps]
  BY DEF TypeOK, Fill
<1> SUFFICES ASSUME NEW j \in Slots
             PROVE  /\ j \notin overrun' =>
                         Whole(stream'[j]) /\ (j \in live' => Complete(stream'[j]))
                    /\ j \in live' => EndsIn(stream'[j], {"data", "cut"})
  BY DEF SlotsWhole
<1>2. CASE j = i
  BY <1>1, <1>2
<1>3. CASE j # i
  <2>1. stream'[j] = stream[j] /\ (j \in live' <=> j \in live) /\ (j \in overrun' <=> j \in overrun)
    BY <1>1, <1>3
  <2> QED
    BY <2>1 DEF SlotsWhole
<1> QED
  BY <1>2, <1>3

(* What comes last.                                                        *)
LEMMA AppendEnds ==
  ASSUME NEW s \in Seq(Parts), NEW ps \in Seq(Parts), NEW e \in Parts, NEW parts,
         e.part \in parts
  PROVE  /\ Append(ps, e) \in Seq(Parts)
         /\ EndsIn(s \o Append(ps, e), parts)
<1>1. /\ s \o Append(ps, e) \in Seq(Parts)
      /\ Len(s \o Append(ps, e)) = Len(s) + Len(ps) + 1
      /\ (s \o Append(ps, e))[Len(s) + Len(ps) + 1] = e
  OBVIOUS
<1> QED
  BY <1>1 DEF EndsIn

(* A write that is cut short, or not taken at all.                         *)
LEMMA RefusedWhole ==
  ASSUME TypeOK, SlotsWhole, NEW i \in Slots, NEW f \in Frames, NEW ps \in Seq(Parts),
         NEW size, NEW o, Refused(i, ps, f, size, o)
  PROVE  SlotsWhole'
<1>1. stream[i] \in Seq(Parts)
  BY DEF TypeOK
<1>2. Part(f, "cut") \in Parts /\ Part(f, "cut").part = "cut"
  BY DEF Part, Parts, Frames
<1>3. i \in overrun' /\ overrun' = overrun \cup {i}
  BY DEF Refused
<1>4. CASE o.put > 0
  <2>1. /\ Fill(i, Append(ps, Part(f, "cut")), Len(ps) + o.put, o.pages) /\ live' = live
    BY <1>4 DEF Refused
  <2>2. /\ Append(ps, Part(f, "cut")) \in Seq(Parts)
        /\ EndsIn(stream[i] \o Append(ps, Part(f, "cut")), {"data", "cut"})
    BY <1>1, <1>2, AppendEnds
  <2> QED
    BY <1>3, <2>1, <2>2, FillWhole
<1>5. CASE ~(o.put > 0)
  <2>1. Fill(i, ps, Len(ps), o.pages) /\ live' = live \ {i} /\ i \notin live'
    BY <1>5 DEF Refused, Disconnect
  <2> QED
    BY <1>3, <2>1, FillWhole
<1> QED
  BY <1>4, <1>5

LEMMA SeqEqual ==
  ASSUME NEW S, NEW s \in Seq(S), NEW t \in Seq(S), Len(s) = Len(t),
         \A k \in 1 .. Len(s) : s[k] = t[k]
  PROVE  s = t
OBVIOUS

LEMMA AppendToOne ==
  ASSUME NEW m \in Parts, NEW d \in Parts
  PROVE  Append(<<m>>, d) = <<m, d>> /\ <<m, d>> \in Seq(Parts)
<1> DEFINE s == Append(<<m>>, d)
           t == <<m, d>>
<1>1. s \in Seq(Parts) /\ t \in Seq(Parts)
  OBVIOUS
<1>2. /\ Len(s) = 2 /\ s[1] = m /\ s[2] = d
      /\ Len(t) = 2 /\ t[1] = m /\ t[2] = d
  OBVIOUS
<1> HIDE DEF s, t
<1>3. \A k \in 1 .. 2 : s[k] = t[k]
  BY <1>2
<1>4. s = t
  BY <1>1, <1>2, <1>3, SeqEqual
<1> QED
  BY <1>1, <1>4 DEF s, t

LEMMA AppendToNone ==
  ASSUME NEW e \in Parts
  PROVE  Append(<<>>, e) = <<e>> /\ <<e>> \in Seq(Parts)
<1> DEFINE s == Append(<<>>, e)
           t == <<e>>
<1>1. s \in Seq(Parts) /\ t \in Seq(Parts)
  <2>1. <<>> \in Seq(Parts)
    OBVIOUS
  <2> QED
    BY <2>1
<1>2. /\ Len(s) = 1 /\ s[1] = e
      /\ Len(t) = 1 /\ t[1] = e
  <2>1. <<>> \in Seq(Parts) /\ Len(<<>>) = 0
    OBVIOUS
  <2> QED
    BY <2>1
<1> HIDE DEF s, t
<1>3. \A k \in 1 .. 1 : s[k] = t[k]
  BY <1>2
<1>4. s = t
  BY <1>1, <1>2, <1>3, SeqEqual
<1> QED
  BY <1>1, <1>4 DEF s, t

(* What the list write does to one client.                                 *)
LEMMA ListWriteWhole ==
  ASSUME TypeOK, SlotsWhole, NEW i \in Slots, NEW f \in Frames, WriteList(i, f)
  PROVE  SlotsWhole'
<1> DEFINE size == DataSize[f.kind]
<1>1. PICK m, d : m = Part(f, "meta") /\ d = Part(f, "data")
  OBVIOUS
<1>2. /\ m \in Parts /\ d \in Parts /\ d.part = "data" /\ <<m>> \in Seq(Parts)
      /\ stream[i] \in Seq(Parts) /\ <<>> \in Seq(Parts)
  <2>1. stream[i] \in Seq(Parts)
    BY DEF TypeOK
  <2>2. m \in Parts /\ d \in Parts /\ d.part = "data"
    BY <1>1 DEF Part, Parts, Frames
  <2> QED
    BY <2>1, <2>2
<1>3. CASE NotWritten(i, 1 + size)
  BY <1>3 DEF NotWritten, Disconnect, SlotsWhole
<1>4. ASSUME i \in live, NEW n, NEW k, Fill(i, Append(<<m>>, d), k, n), UNCHANGED <<live, overrun>>
      PROVE  SlotsWhole'
  <2>1. Append(<<m>>, d) = <<m, d>> /\ <<m, d>> \in Seq(Parts)
    BY <1>2, AppendToOne
  <2>2. i \notin overrun => Whole(stream[i] \o <<m, d>>) /\ Complete(stream[i] \o <<m, d>>)
    BY <1>1, <1>2, <1>4, AppendWhole DEF SlotsWhole
  <2>3. EndsIn(stream[i] \o <<m, d>>, {"data", "cut"})
    BY <1>2, <2>1, AppendEnds
  <2> QED
    BY <1>4, <2>1, <2>2, <2>3, FillWhole
<1>5. ASSUME i \in live, NEW n, Fill(i, <<m>>, 1, n), Disconnect(i), UNCHANGED overrun
      PROVE  SlotsWhole'
  <2>1. i \notin overrun => Whole(stream[i] \o <<m>>)
    BY <1>1, <1>2, <1>5, AppendWhole DEF SlotsWhole
  <2>2. live' = live \ {i} /\ i \notin live'
    BY <1>5 DEF Disconnect
  <2> QED
    BY <1>2, <1>5, <2>1, <2>2, FillWhole
<1>6. CASE i \in live /\ WriteBoth(i, f)
  <2>1. PICK o :
          \/ Refused(i, <<>>, f, 1, o)
          \/ \E e : Taken(i, <<m>>, d, size, e) \/ Refused(i, <<m>>, f, size, e)
          \/ Fill(i, <<m>>, 1, o.pages) /\ Disconnect(i) /\ UNCHANGED overrun
    BY <1>1, <1>6 DEF WriteBoth
  <2>2. CASE Refused(i, <<>>, f, 1, o) \/ \E e : Refused(i, <<m>>, f, size, e)
    BY <1>2, <2>2, RefusedWhole
  <2>3. CASE \E e : Taken(i, <<m>>, d, size, e)
    BY <1>4, <1>6, <2>3 DEF Taken
  <2>4. CASE Fill(i, <<m>>, 1, o.pages) /\ Disconnect(i) /\ UNCHANGED overrun
    BY <1>5, <1>6, <2>4
  <2> QED
    BY <2>1, <2>2, <2>3, <2>4
<1> QED
  BY <1>3, <1>6 DEF WriteList, CanWrite

LEMMA WholeInductive ==
  ASSUME Kinds \subseteq {"R"}, TypeOK, CursOK, WholeInv, [Next]_vars
  PROVE  WholeInv'
<1> USE DEF WholeInv, OnlyLists, SlotsWhole, Goto, AdvanceTo, slotVars, savedVars
<1>1. ASSUME NEW i \in Slots, Read(i) \/ CloseReader(i)
      PROVE  WholeInv'
  BY <1>1 DEF Read, CloseReader
<1>2. ASSUME NEW i \in Slots, MonitorDisconnect(i)
      PROVE  WholeInv'
  BY <1>2 DEF MonitorDisconnect, Disconnect
<1>3. ASSUME NEW i \in Slots, Connect(i)
      PROVE  WholeInv'
  <2>1. Whole(<<>>) /\ Complete(<<>>) /\ EndsIn(<<>>, {"data", "cut"})
    BY DEF Whole, Complete, EndsIn, NoCut, DataAnnouncedIn, MetaFollowedIn
  <2>2. /\ stream' = [stream EXCEPT ![i] = <<>>] /\ live' = live \cup {i}
        /\ overrun' = overrun \ {i}
    BY <1>3 DEF Connect
  <2>3. OnlyLists'
    BY <1>3 DEF Connect, TypeOK
  <2>4. stream \in [Slots -> Seq(Parts)]
    BY DEF TypeOK
  <2> QED
    BY <2>1, <2>2, <2>3, <2>4
<1>4. CASE Replay
  BY <1>4 DEF Replay, CheckHeader, ReplayMeta, ReplayData, TypeOK
<1>5. CASE NextFrame
  <2>1. UNCHANGED <<live, stream, overrun>>
    BY <1>5 DEF NextFrame
  <2>2. OnlyLists'
    BY <1>5 DEF NextFrame, TypeOK
  <2> QED
    BY <2>1, <2>2
<1>6. CASE SendList
  <2>1. PICK i \in Slots, f \in Frames : i = cur["cam"] /\ f = frame
    BY <1>6, EncodedStreamAssumption DEF SendList, TypeOK, Slots
  <2>2. WriteList(i, f)
    BY <1>6, <2>1 DEF SendList
  <2>3. OnlyLists'
    BY <1>6 DEF SendList
  <2> QED
    BY <2>2, <2>3, ListWriteWhole
<1>7. CASE FrameDone
  BY <1>7 DEF FrameDone, TypeOK
<1>8. CASE SaveHeaderMeta \/ SkipClient \/ SendMeta \/ SendData \/ AcceptPFrames
  BY <1>8 DEF SaveHeaderMeta, SkipClient, SendMeta, SendData, AcceptPFrames
<1>9. CASE UNCHANGED vars
  BY <1>9 DEF vars
<1> QED
  BY <1>1, <1>2, <1>3, <1>4, <1>5, <1>6, <1>7, <1>8, <1>9 DEF Next, ClientStep, Camera

LEMMA WholeInvariant ==
  ASSUME Kinds \subseteq {"R"}
  PROVE  Spec => [](TypeOK /\ WholeInv)
<1>1. Init => WholeInv
  <2>1. Whole(<<>>) /\ Complete(<<>>) /\ EndsIn(<<>>, {"data", "cut"})
    BY DEF Whole, Complete, EndsIn, NoCut, DataAnnouncedIn, MetaFollowedIn
  <2> QED
    BY <2>1 DEF Init, WholeInv, OnlyLists, SlotsWhole
<1>2. TypeOK /\ CursOK /\ WholeInv /\ [Next]_vars => WholeInv'
  BY WholeInductive
<1> QED
  BY <1>1, <1>2, TypeInit, TypeInductive, PTL DEF Spec

(* Frames written as one list reach every client whole, or, when the       *)
(* client is gone, cut short at the end of its stream: unless the kernel   *)
(* had no pages for a write that was found to fit.                         *)
THEOREM ListWritesAreWhole ==
  ASSUME Kinds \subseteq {"R"}
  PROVE  Spec => []FramesWhole
<1>1. TypeOK /\ WholeInv => FramesWhole
  BY DEF WholeInv, SlotsWhole, Whole, NoCut, FramesWhole, TypeOK
<1> QED
  BY <1>1, WholeInvariant, PTL

(* With list writes only, whoever is still connected when a list write is  *)
(* over was sent metadata with its data, or with what the kernel took of   *)
(* it: metadata alone means that the client is gone, EAGAIN included.      *)
THEOREM HalfFramesMeanGone ==
  ASSUME Kinds \subseteq {"R"}
  PROVE  Spec => []HalfFrameMeansGone
<1>1. TypeOK /\ WholeInv => HalfFrameMeansGone
  BY DEF WholeInv, SlotsWhole, Complete, EndsIn, HalfFrameMeansGone, TypeOK
<1> QED
  BY <1>1, WholeInvariant, PTL

-----------------------------------------------------------------------------
(* Clients that stay: nobody closes its end or is refused what was found   *)
(* to fit, so nobody is disconnected, and an encoded stream can be         *)
(* followed from the first I frame on.                                     *)

(* Who is connected reads, and who accepts P frames is connected, also     *)
(* between the two writes of a frame and the setting of the flag.          *)
StayInv ==
  /\ live \subseteq reading
  /\ accepting \subseteq live
  /\ pc["cam"] \in {"data", "accept"} => cur["cam"] \in live

(* Where each kind of frame is sent from, and how the saved header relates *)
(* to it.                                                                  *)
FrameInv ==
  /\ header <= frame.n /\ header_meta <= header
  /\ pc["cam"] = "save" => frame.kind = "H" /\ header = frame.n
  /\ pc["cam"] = "list" => frame.kind \in {"H", "R"} /\ (frame.kind = "H" => header = frame.n)
  /\ pc["cam"] \in {"meta", "data", "accept"} => frame.kind \in {"I", "P"} /\ header < frame.n
  /\ pc["cam"] = "accept" => frame.kind = "I"

(* Part of an I frame newer than header h is in stream s.                  *)
NewerI(s, h) == \E j \in 1 .. Len(s) : s[j].kind = "I" /\ h < s[j].n

(* In stream s, P frames newer than header h follow such an I frame.       *)
Follows(s, h) ==
  \A p \in 1 .. Len(s) : s[p].kind = "P" /\ h < s[p].n =>
    \E j \in 1 .. p : s[j].kind = "I" /\ h < s[j].n

(* Stream s up to frame n, with h and hm saved: what is said of the        *)
(* headers in the stream holds of the two saved ones already.              *)
StreamOK(s, n, h, hm) ==
  /\ \A k \in 1 .. Len(s) :
       s[k].n <= n /\ (s[k].kind = "H" => s[k].n <= h /\ Follows(s, s[k].n))
  /\ Follows(s, h) /\ Follows(s, hm)

(* Who accepts P frames was sent an I frame after the last header, except  *)
(* for the moment before the flags are reset.                              *)
HeaderInv ==
  /\ pc["cam"] # "save" => \A i \in accepting : NewerI(stream[i], header)
  /\ pc["cam"] \in {"data", "accept"} => NewerI(stream[cur["cam"]], header)
  /\ \A i \in Slots : StreamOK(stream[i], frame.n, header, header_meta)

(* A whole I frame is in stream s.                                         *)
HasI(s) == \E j \in 1 .. Len(s) : s[j].kind = "I" /\ s[j].part = "data"

(* Who accepts P frames was sent a whole I frame.                          *)
WholeIInv ==
  /\ \A i \in accepting : HasI(stream[i])
  /\ pc["cam"] = "accept" \/ (pc["cam"] = "data" /\ frame.kind = "P") =>
       HasI(stream[cur["cam"]])
  /\ StartsWithIFrame

(* The data of an I frame fits when its turn comes, the metadata written.  *)
IFramesFit ==
  pc["cam"] = "data" /\ frame.kind = "I" => Room(cur["cam"], DataSize["I"])

(* A stream with one more part.                                            *)
LEMMA AppendPart ==
  ASSUME NEW s \in Seq(Parts), NEW e \in Parts
  PROVE  /\ s \o <<e>> \in Seq(Parts)
         /\ Len(s \o <<e>>) = Len(s) + 1
         /\ \A k \in 1 .. Len(s) : (s \o <<e>>)[k] = s[k]
         /\ (s \o <<e>>)[Len(s) + 1] = e
OBVIOUS

(* What was sent stays sent, and what is sent counts.                      *)
LEMMA AppendNewer ==
  ASSUME NEW s \in Seq(Parts), NEW e \in Parts, NEW h \in Nat
  PROVE  /\ NewerI(s, h) => NewerI(s \o <<e>>, h)
         /\ e.kind = "I" /\ h < e.n => NewerI(s \o <<e>>, h)
         /\ HasI(s) => HasI(s \o <<e>>)
         /\ e.kind = "I" /\ e.part = "data" => HasI(s \o <<e>>)
<1>1. Len(s) \in Nat
  OBVIOUS
<1> QED
  BY <1>1, AppendPart DEF NewerI, HasI

(* A P frame may be appended to a stream that has an I frame before it.    *)
LEMMA AppendFollows ==
  ASSUME NEW s \in Seq(Parts), NEW e \in Parts, NEW h \in Nat, Follows(s, h),
         e.kind = "P" /\ h < e.n => NewerI(s, h)
  PROVE  Follows(s \o <<e>>, h)
<1> DEFINE t == s \o <<e>>
           n == Len(s)
<1>1. /\ n \in Nat /\ Len(t) = n + 1 /\ t[n + 1] = e
      /\ \A k \in 1 .. n : t[k] = s[k]
  BY AppendPart
<1> HIDE DEF t, n
<1>2. ASSUME NEW p \in 1 .. n + 1, t[p].kind = "P", h < t[p].n
      PROVE  \E j \in 1 .. p : t[j].kind = "I" /\ h < t[j].n
  <2>1. CASE p \in 1 .. n
    <3>1. PICK j \in 1 .. p : s[j].kind = "I" /\ h < s[j].n
      BY <1>1, <1>2, <2>1 DEF Follows, n
    <3>2. j \in 1 .. n
      BY <1>1, <2>1
    <3> QED
      BY <1>1, <3>1, <3>2
  <2>2. CASE p = n + 1
    <3>1. PICK j \in 1 .. n : s[j].kind = "I" /\ h < s[j].n
      BY <1>1, <1>2, <2>2 DEF NewerI, n
    <3> QED
      BY <1>1, <2>2, <3>1
  <2> QED
    BY <1>1, <2>1, <2>2
<1> QED
  BY <1>1, <1>2 DEF Follows, t

(* So may an I frame, a saved header, or an image.                         *)
LEMMA AppendOK ==
  ASSUME NEW s \in Seq(Parts), NEW e \in Parts, NEW n \in Nat, NEW h \in Nat, NEW hm \in Nat,
         StreamOK(s, n, h, hm), hm <= h, e.n <= n,
         e.kind = "H" => e.n \in {h, hm},
         e.kind = "P" => NewerI(s, h)
  PROVE  StreamOK(s \o <<e>>, n, h, hm)
<1> DEFINE t == s \o <<e>>
           l == Len(s)
<1>1. /\ l \in Nat /\ Len(t) = l + 1 /\ t[l + 1] = e
      /\ \A k \in 1 .. l : t[k] = s[k] /\ s[k] \in Parts
  BY AppendPart
<1>2. ASSUME NEW m \in Nat, m <= h, Follows(s, m)
      PROVE  Follows(t, m)
  <2>1. e.kind = "P" => NewerI(s, m)
    <3>1. ASSUME NewerI(s, h)
          PROVE  NewerI(s, m)
      <4>1. PICK j \in 1 .. l : s[j].kind = "I" /\ h < s[j].n
        BY <3>1 DEF NewerI
      <4>2. s[j].n \in Nat
        BY <1>1 DEF Parts
      <4>3. m < s[j].n
        BY <1>2, <4>1, <4>2
      <4> QED
        BY <4>1, <4>3 DEF NewerI
    <3> QED
      BY <3>1
  <2> QED
    BY <1>2, <2>1, AppendFollows
<1>3. Follows(t, h) /\ Follows(t, hm)
  BY <1>2 DEF StreamOK
<1>4. ASSUME NEW k \in 1 .. l + 1
      PROVE  t[k].n <= n /\ (t[k].kind = "H" => t[k].n <= h /\ Follows(t, t[k].n))
  <2>1. CASE k \in 1 .. l
    <3>1. s[k].n <= n /\ (s[k].kind = "H" => s[k].n <= h /\ Follows(s, s[k].n))
      BY <2>1 DEF StreamOK
    <3>2. s[k].n \in Nat /\ t[k] = s[k]
      BY <1>1, <2>1 DEF Parts
    <3> QED
      BY <1>2, <3>1, <3>2
  <2>2. CASE k = l + 1
    <3>1. t[k] = e
      BY <1>1, <2>2
    <3> QED
      BY <1>3, <3>1
  <2> QED
    BY <1>1, <2>1, <2>2
<1> QED
  BY <1>1, <1>3, <1>4 DEF StreamOK

-----------------------------------------------------------------------------
(* Nobody is gone, so a write to one client adds to its stream or leaves   *)
(* everything as it is.                                                    *)
LEMMA WriteStays ==
  ASSUME StayInv, NobodyOverrun', NEW i, NEW f, NEW part, NEW size,
         WriteOK(i, f, part, size) \/ WriteFails(i, f, size)
  PROVE  UNCHANGED <<live, reading, accepting>>
BY DEF StayInv, NobodyOverrun, WriteOK, WriteFails, NotWritten, Taken, Refused

LEMMA WriteListStays ==
  ASSUME StayInv, NobodyOverrun', ~CanClose, NEW i, NEW f, WriteList(i, f)
  PROVE  UNCHANGED <<live, reading, accepting>>
BY DEF StayInv, NobodyOverrun, WriteList, WriteBoth, NotWritten, Taken, Refused

LEMMA WriteOKSends ==
  ASSUME NEW i, NEW f \in Frames, NEW part \in {"meta", "data"}, NEW size,
         WriteOK(i, f, part, size)
  PROVE  stream' = [stream EXCEPT ![i] = @ \o <<Part(f, part)>>]
<1>1. Part(f, part) \in Parts
  BY DEF Part, Parts, Frames
<1>2. Append(<<>>, Part(f, part)) = <<Part(f, part)>>
  BY <1>1, AppendToNone
<1> QED
  BY <1>2 DEF WriteOK, Taken, Fill

LEMMA WriteAdds ==
  ASSUME StayInv, NobodyOverrun', NEW i, NEW f \in Frames, NEW part \in {"meta", "data"},
         NEW size, WriteOK(i, f, part, size) \/ WriteFails(i, f, size)
  PROVE  /\ UNCHANGED <<live, reading, accepting>>
         /\ \/ i \in live /\ stream' = [stream EXCEPT ![i] = @ \o <<Part(f, part)>>]
            \/ UNCHANGED stream
<1>1. CASE WriteOK(i, f, part, size)
  <2>1. i \in live
    BY <1>1 DEF WriteOK, CanWrite
  <2> QED
    BY <1>1, <2>1, WriteStays, WriteOKSends
<1>2. CASE WriteFails(i, f, size)
  <2>1. UNCHANGED stream
    BY <1>2 DEF NobodyOverrun, WriteFails, NotWritten, Refused
  <2> QED
    BY <1>2, <2>1, WriteStays
<1> QED
  BY <1>1, <1>2

LEMMA WriteListAdds ==
  ASSUME StayInv, NobodyOverrun', ~CanClose, NEW i, NEW f \in Frames, WriteList(i, f)
  PROVE  /\ UNCHANGED <<live, reading, accepting>>
         /\ \/ stream' = [stream EXCEPT ![i] = @ \o <<Part(f, "meta"), Part(f, "data")>>]
            \/ UNCHANGED stream
<1>1. Part(f, "meta") \in Parts /\ Part(f, "data") \in Parts
  BY DEF Part, Parts, Frames
<1>2. Append(<<Part(f, "meta")>>, Part(f, "data")) = <<Part(f, "meta"), Part(f, "data")>>
  BY <1>1, AppendToOne
<1>3. \/ UNCHANGED stream
      \/ \E size, d : Taken(i, <<Part(f, "meta")>>, Part(f, "data"), size, d)
  BY DEF NobodyOverrun, WriteList, WriteBoth, NotWritten, Refused
<1> QED
  BY <1>2, <1>3, WriteListStays DEF Taken, Fill

(* Every step keeps who is connected and where frames are.                 *)
LEMMA StayInductive ==
  ASSUME ~CanClose, NobodyOverrun', TypeOK, CursOK, StayInv, FrameInv, [Next]_vars
  PROVE  StayInv' /\ FrameInv'
<1> USE DEF Goto, AdvanceTo, slotVars, savedVars
<1>1. ASSUME NEW i \in Slots, ClientStep(i)
      PROVE  StayInv' /\ FrameInv'
  <2>1. CASE Read(i) \/ CloseReader(i) \/ MonitorDisconnect(i)
    BY <2>1 DEF Read, CloseReader, MonitorDisconnect, Disconnect, StayInv, FrameInv
  <2>2. CASE Connect(i)
    BY <2>2 DEF Connect, StayInv, FrameInv, TypeOK
  <2> QED
    BY <1>1, <2>1, <2>2 DEF ClientStep
<1>2. CASE Replay
  <2>1. CASE CheckHeader
    BY <2>1 DEF CheckHeader, StayInv, FrameInv, TypeOK
  <2>2. CASE ReplayMeta
    <3>1. UNCHANGED <<live, reading, accepting>>
      BY <2>2, WriteStays DEF ReplayMeta
    <3> QED
      BY <2>2, <3>1 DEF ReplayMeta, StayInv, FrameInv, TypeOK
  <2>3. CASE ReplayData
    <3>1. UNCHANGED <<live, reading, accepting>>
      BY <2>3, WriteStays DEF ReplayData
    <3> QED
      BY <2>3, <3>1 DEF ReplayData, StayInv, FrameInv, TypeOK
  <2> QED
    BY <1>2, <2>1, <2>2, <2>3 DEF Replay
<1>3. CASE NextFrame
  BY <1>3, EncodedStreamAssumption
  DEF NextFrame, StayInv, FrameInv, TypeOK, Frames, FrameKinds
<1>4. CASE SaveHeaderMeta \/ FrameDone \/ SkipClient \/ AcceptPFrames
  BY <1>4 DEF SaveHeaderMeta, FrameDone, SkipClient, AcceptPFrames, StayInv, FrameInv,
              TypeOK, Frames
<1>5. CASE SendList
  <2>1. UNCHANGED <<live, reading, accepting>>
    BY <1>5, WriteListStays DEF SendList
  <2> QED
    BY <1>5, <2>1 DEF SendList, StayInv, FrameInv, TypeOK
<1>6. CASE SendMeta
  <2>1. UNCHANGED <<live, reading, accepting>>
    BY <1>6, WriteStays DEF SendMeta
  <2>2. pc'["cam"] = "data" => cur["cam"] \in live /\ UNCHANGED cur
    BY <1>6 DEF SendMeta, WriteOK, CanWrite, TypeOK
  <2> QED
    BY <1>6, <2>1, <2>2 DEF SendMeta, StayInv, FrameInv, TypeOK
<1>7. CASE SendData
  <2>1. UNCHANGED <<live, reading, accepting>>
    BY <1>7, WriteStays DEF SendData
  <2> QED
    BY <1>7, <2>1 DEF SendData, StayInv, FrameInv, TypeOK
<1>8. CASE UNCHANGED vars
  BY <1>8 DEF vars, StayInv, FrameInv
<1> QED
  BY <1>1, <1>2, <1>3, <1>4, <1>5, <1>6, <1>7, <1>8 DEF Next, Camera

LEMMA StayInvariant ==
  ASSUME ~CanClose
  PROVE  Spec /\ []NobodyOverrun => [](TypeOK /\ CursOK /\ StayInv /\ FrameInv)
<1>1. Init => StayInv /\ FrameInv
  BY DEF Init, StayInv, FrameInv, NoFrame
<1>2. TypeOK /\ CursOK /\ StayInv /\ FrameInv /\ NobodyOverrun' /\ [Next]_vars
        => StayInv' /\ FrameInv'
  BY StayInductive
<1> QED
  BY <1>1, <1>2, TypeInit, TypeInductive, PTL DEF Spec

-----------------------------------------------------------------------------
(* A step that adds parts of frame f, or none, to the stream of slot i.    *)
Adds(i, f) ==
  \/ \E part \in {"meta", "data"} : stream' = [stream EXCEPT ![i] = @ \o <<Part(f, part)>>]
  \/ stream' = [stream EXCEPT ![i] = @ \o <<Part(f, "meta"), Part(f, "data")>>]
  \/ UNCHANGED stream

LEMMA SendAdds ==
  ASSUME StayInv, NobodyOverrun', ~CanClose, NEW i, NEW f \in Frames,
         NEW part \in {"meta", "data"}, NEW size,
         WriteOK(i, f, part, size) \/ WriteFails(i, f, size) \/ WriteList(i, f)
  PROVE  UNCHANGED accepting /\ Adds(i, f)
<1>1. CASE WriteList(i, f)
  BY <1>1, WriteListAdds DEF Adds
<1>2. CASE WriteOK(i, f, part, size) \/ WriteFails(i, f, size)
  <2>1. /\ UNCHANGED accepting
        /\ \/ stream' = [stream EXCEPT ![i] = @ \o <<Part(f, part)>>]
           \/ UNCHANGED stream
    BY <1>2, WriteAdds
  <2> QED
    BY <2>1, Zenon DEF Adds
<1> QED
  BY <1>1, <1>2

(* What is said of all streams holds after such a step, if the frame is    *)
(* one that may be sent.                                                   *)
LEMMA AddsKeepsStreams ==
  ASSUME TypeOK, FrameInv, HeaderInv, UNCHANGED <<frame, header, header_meta>>,
         NEW i \in Slots, NEW f \in Frames, Adds(i, f),
         f.n <= frame.n,
         f.kind = "H" => f.n \in {header, header_meta},
         f.kind = "P" => NewerI(stream[i], header)
  PROVE  /\ \A j \in Slots : StreamOK(stream'[j], frame'.n, header', header_meta')
         /\ \A j \in Slots : NewerI(stream[j], header) => NewerI(stream'[j], header)
<1>1. stream \in [Slots -> Seq(Parts)] /\ stream[i] \in Seq(Parts)
  BY DEF TypeOK
<1>2. frame.n \in Nat /\ header \in Nat /\ header_meta \in Nat /\ header_meta <= header
  BY DEF TypeOK, Frames, FrameInv
<1>3. ASSUME NEW s \in Seq(Parts), StreamOK(s, frame.n, header, header_meta),
             f.kind = "P" => NewerI(s, header), NEW part \in {"meta", "data"}
      PROVE  /\ s \o <<Part(f, part)>> \in Seq(Parts)
             /\ StreamOK(s \o <<Part(f, part)>>, frame.n, header, header_meta)
             /\ NewerI(s, header) => NewerI(s \o <<Part(f, part)>>, header)
  <2> DEFINE e == Part(f, part)
  <2>1. e \in Parts /\ e.n = f.n /\ e.kind = f.kind
    BY DEF Part, Parts, Frames
  <2> HIDE DEF e
  <2>2. StreamOK(s \o <<e>>, frame.n, header, header_meta)
    BY <1>2, <1>3, <2>1, AppendOK
  <2>3. s \o <<e>> \in Seq(Parts) /\ (NewerI(s, header) => NewerI(s \o <<e>>, header))
    BY <1>2, <2>1, AppendPart, AppendNewer
  <2> QED
    BY <2>2, <2>3 DEF e
<1>4. StreamOK(stream[i], frame.n, header, header_meta)
  BY DEF HeaderInv
<1>5. ASSUME NEW part \in {"meta", "data"},
             stream' = [stream EXCEPT ![i] = @ \o <<Part(f, part)>>]
      PROVE  /\ StreamOK(stream'[i], frame.n, header, header_meta)
             /\ NewerI(stream[i], header) => NewerI(stream'[i], header)
             /\ \A j \in Slots \ {i} : stream'[j] = stream[j]
  BY <1>1, <1>3, <1>4, <1>5
<1>6. ASSUME stream' = [stream EXCEPT ![i] = @ \o <<Part(f, "meta"), Part(f, "data")>>]
      PROVE  /\ StreamOK(stream'[i], frame.n, header, header_meta)
             /\ NewerI(stream[i], header) => NewerI(stream'[i], header)
             /\ \A j \in Slots \ {i} : stream'[j] = stream[j]
  <2> DEFINE t == stream[i] \o <<Part(f, "meta")>>
  <2>1. /\ t \in Seq(Parts) /\ StreamOK(t, frame.n, header, header_meta)
        /\ NewerI(stream[i], header) => NewerI(t, header)
    BY <1>1, <1>3, <1>4
  <2>2. stream'[i] = t \o <<Part(f, "data")>>
    <3>1. Part(f, "meta") \in Parts /\ Part(f, "data") \in Parts
      BY DEF Part, Parts, Frames
    <3> QED
      BY <1>1, <1>6, <3>1
  <2> HIDE DEF t
  <2>3. /\ StreamOK(t \o <<Part(f, "data")>>, frame.n, header, header_meta)
        /\ NewerI(t, header) => NewerI(t \o <<Part(f, "data")>>, header)
    BY <1>3, <2>1
  <2>4. \A j \in Slots \ {i} : stream'[j] = stream[j]
    BY <1>1, <1>6
  <2> QED
    BY <2>1, <2>2, <2>3, <2>4
<1>7. \A j \in Slots : StreamOK(stream[j], frame.n, header, header_meta)
  BY DEF HeaderInv
<1>8. CASE UNCHANGED stream
  BY <1>7, <1>8
<1> QED
  BY <1>5, <1>6, <1>7, <1>8 DEF Adds

LEMMA HeaderInductive ==
  ASSUME ~CanClose, NobodyOverrun', TypeOK, CursOK, StayInv, FrameInv, HeaderInv, [Next]_vars
  PROVE  HeaderInv'
<1> USE DEF Goto, AdvanceTo, slotVars, savedVars
<1>t. /\ stream \in [Slots -> Seq(Parts)] /\ accepting \in SUBSET Slots
      /\ frame \in Frames /\ frame.n \in Nat /\ header \in Nat /\ header_meta \in Nat
      /\ pc["cam"] \in {"data", "accept"} => cur["cam"] \in Slots
  BY DEF TypeOK, Frames, CursOK
<1>1. ASSUME NEW i \in Slots, ClientStep(i)
      PROVE  HeaderInv'
  <2>1. CASE Read(i) \/ CloseReader(i) \/ MonitorDisconnect(i)
    BY <2>1 DEF Read, CloseReader, MonitorDisconnect, StayInv, HeaderInv
  <2>2. CASE Connect(i)
    <3>1. StreamOK(<<>>, frame.n, header, header_meta)
      BY DEF StreamOK, Follows
    <3>2. /\ stream' = [stream EXCEPT ![i] = <<>>] /\ i \notin live
          /\ UNCHANGED <<accepting, header, header_meta, frame>>
          /\ pc'["cam"] = pc["cam"] /\ cur'["cam"] = cur["cam"]
      BY <2>2 DEF Connect, TypeOK
    <3>3. i \notin accepting /\ (pc["cam"] \in {"data", "accept"} => cur["cam"] # i)
      BY <3>2 DEF StayInv
    <3> QED
      BY <1>t, <3>1, <3>2, <3>3 DEF HeaderInv
  <2> QED
    BY <1>1, <2>1, <2>2 DEF ClientStep
<1>2. CASE Replay
  <2>1. CASE CheckHeader
    BY <2>1 DEF CheckHeader, HeaderInv, TypeOK
  <2>2. CASE ReplayMeta \/ ReplayData
    <3>1. PICK i \in Slots, f \in Frames, part \in {"meta", "data"} :
            /\ f.kind = "H" /\ f.n \in {header, header_meta}
            /\ \/ \E size : WriteOK(i, f, part, size) \/ WriteFails(i, f, size)
               \/ UNCHANGED <<accepting, stream>>
      <4>1. SavedHeader(header) \in Frames /\ SavedHeader(header_meta) \in Frames
        BY DEF TypeOK, SavedHeader, Frames, FrameKinds
      <4>2. /\ SavedHeader(header).kind = "H" /\ SavedHeader(header).n = header
            /\ SavedHeader(header_meta).kind = "H" /\ SavedHeader(header_meta).n = header_meta
        BY DEF SavedHeader
      <4>3. cur["req"] \in Slots
        BY DEF CursOK
      <4>4. CASE ReplayMeta
        <5>1. \/ WriteOK(cur["req"], SavedHeader(header_meta), "meta", 1)
              \/ WriteFails(cur["req"], SavedHeader(header_meta), 1)
          BY <4>4 DEF ReplayMeta
        <5> QED
          BY <4>1, <4>2, <4>3, <5>1
      <4>5. CASE ReplayData
        <5>1. \/ WriteOK(cur["req"], SavedHeader(header), "data", DataSize["H"])
              \/ WriteFails(cur["req"], SavedHeader(header), DataSize["H"])
              \/ UNCHANGED <<accepting, stream>>
          BY <4>5 DEF ReplayData
        <5> QED
          BY <4>1, <4>2, <4>3, <5>1
      <4> QED
        BY <2>2, <4>4, <4>5
    <3>2. UNCHANGED accepting /\ Adds(i, f)
      <4>1. CASE \E size : WriteOK(i, f, part, size) \/ WriteFails(i, f, size)
        BY <4>1, SendAdds
      <4>2. CASE UNCHANGED <<accepting, stream>>
        BY <4>2 DEF Adds
      <4> QED
        BY <3>1, <4>1, <4>2
    <3>3. /\ UNCHANGED <<header, header_meta, frame>>
          /\ pc'["cam"] = pc["cam"] /\ cur'["cam"] = cur["cam"]
      BY <2>2 DEF ReplayMeta, ReplayData, TypeOK
    <3>4. f.n <= frame.n
      BY <1>t, <3>1 DEF FrameInv
    <3>5. /\ \A j \in Slots : StreamOK(stream'[j], frame'.n, header', header_meta')
          /\ \A j \in Slots : NewerI(stream[j], header) => NewerI(stream'[j], header)
      BY <3>1, <3>2, <3>3, <3>4, AddsKeepsStreams
    <3> QED
      BY <1>t, <3>2, <3>3, <3>5 DEF HeaderInv
  <2> QED
    BY <1>2, <2>1, <2>2 DEF Replay
<1>3. CASE NextFrame
  <2>1. /\ frame'.n = frame.n + 1 /\ header' \in {header, frame.n + 1}
        /\ UNCHANGED <<header_meta, stream, accepting>>
        /\ pc'["cam"] \in {"save", "list", "meta"}
        /\ pc'["cam"] # "save" => header' = header
        /\ pc["cam"] = "idle"
    BY <1>3 DEF NextFrame, TypeOK
  <2>2. ASSUME NEW s \in Seq(Parts), StreamOK(s, frame.n, header, header_meta)
        PROVE  StreamOK(s, frame.n + 1, header', header_meta)
    <3>1. \A k \in 1 .. Len(s) : s[k].n \in Nat
      <4>1. \A k \in 1 .. Len(s) : s[k] \in Parts
        OBVIOUS
      <4> QED
        BY <4>1 DEF Parts
    <3>2. Follows(s, frame.n + 1)
      BY <1>t, <2>2, <3>1 DEF StreamOK, Follows
    <3>3. header <= frame.n
      BY DEF FrameInv
    <3>4. \A k \in 1 .. Len(s) : s[k].n <= frame.n
      BY <2>2 DEF StreamOK
    <3>5. \A k \in 1 .. Len(s) : s[k].n <= frame.n + 1
      BY <1>t, <3>1, <3>4
    <3>6. \A k \in 1 .. Len(s) : s[k].kind = "H" => s[k].n <= header' /\ Follows(s, s[k].n)
      BY <1>t, <2>1, <2>2, <3>1, <3>3 DEF StreamOK
    <3> QED
      BY <2>1, <2>2, <3>2, <3>5, <3>6 DEF StreamOK
  <2> QED
    BY <1>t, <2>1, <2>2 DEF HeaderInv
<1>4. CASE SaveHeaderMeta
  <2>1. /\ header_meta' = header /\ accepting' = {} /\ UNCHANGED <<header, frame, stream>>
        /\ pc'["cam"] = "list"
    BY <1>4 DEF SaveHeaderMeta, FrameInv, TypeOK
  <2> QED
    BY <2>1 DEF HeaderInv, StreamOK
<1>5. CASE FrameDone \/ SkipClient
  BY <1>5 DEF FrameDone, SkipClient, HeaderInv, TypeOK
<1>6. CASE AcceptPFrames
  BY <1>6 DEF AcceptPFrames, HeaderInv, TypeOK
<1>7. CASE SendList \/ SendMeta \/ SendData
  <2>1. PICK i \in Slots : i = cur["cam"]
    BY <1>7, EncodedStreamAssumption DEF SendList, SendMeta, SendData, TypeOK, CursOK, Slots
  <2>2. UNCHANGED accepting /\ Adds(i, frame)
    <3>1. CASE SendList
      BY <1>t, <2>1, <3>1, SendAdds DEF SendList
    <3>2. CASE SendMeta
      <4>1. WriteOK(i, frame, "meta", 1) \/ WriteFails(i, frame, 1)
        BY <2>1, <3>2 DEF SendMeta
      <4> QED
        BY <1>t, <4>1, SendAdds
    <3>3. CASE SendData
      <4>1. \/ WriteOK(i, frame, "data", DataSize[frame.kind])
            \/ WriteFails(i, frame, DataSize[frame.kind])
        BY <2>1, <3>3 DEF SendData
      <4> QED
        BY <1>t, <4>1, SendAdds
    <3> QED
      BY <1>7, <3>1, <3>2, <3>3
  <2>3. UNCHANGED <<header, header_meta, frame>> /\ pc["cam"] # "save" /\ pc'["cam"] # "save"
    BY <1>7 DEF SendList, SendMeta, SendData, TypeOK
  <2>4. /\ frame.kind = "H" => frame.n \in {header, header_meta}
        /\ frame.kind = "P" => NewerI(stream[i], header)
    BY <1>7, <2>1 DEF SendList, SendMeta, SendData, FrameInv, HeaderInv, Accepts
  <2>5. /\ \A j \in Slots : StreamOK(stream'[j], frame'.n, header', header_meta')
        /\ \A j \in Slots : NewerI(stream[j], header) => NewerI(stream'[j], header)
    BY <1>t, <2>2, <2>3, <2>4, AddsKeepsStreams
  <2>6. pc'["cam"] \in {"data", "accept"} => NewerI(stream'[cur'["cam"]], header)
    <3>1. CASE SendList
      BY <3>1 DEF SendList, TypeOK
    <3>2. CASE SendMeta /\ pc'["cam"] = "data"
      <4>1. cur' = cur /\ stream' = [stream EXCEPT ![i] = @ \o <<Part(frame, "meta")>>]
        BY <1>t, <2>1, <3>2, WriteOKSends DEF SendMeta, TypeOK
      <4>2. frame.kind \in {"I", "P"} /\ header < frame.n
        BY <3>2 DEF SendMeta, FrameInv
      <4>3. /\ Part(frame, "meta") \in Parts /\ Part(frame, "meta").kind = frame.kind
            /\ Part(frame, "meta").n = frame.n
        BY <1>t DEF Part, Parts, Frames
      <4>4. stream[i] \in Seq(Parts) /\ stream'[i] = stream[i] \o <<Part(frame, "meta")>>
        BY <1>t, <4>1
      <4> QED
        BY <1>t, <2>1, <2>4, <4>1, <4>2, <4>3, <4>4, AppendNewer
    <3>3. CASE SendMeta /\ pc'["cam"] # "data"
      BY <3>3 DEF SendMeta, TypeOK
    <3>4. CASE SendData
      <4>1. pc'["cam"] \in {"data", "accept"} => cur' = cur
        BY <3>4 DEF SendData, TypeOK
      <4> QED
        BY <2>1, <2>5, <3>4, <4>1 DEF SendData, HeaderInv
    <3> QED
      BY <1>7, <3>1, <3>2, <3>3, <3>4
  <2> QED
    BY <1>t, <2>2, <2>3, <2>5, <2>6 DEF HeaderInv
<1>8. CASE UNCHANGED vars
  BY <1>8 DEF vars, HeaderInv
<1> QED
  BY <1>1, <1>2, <1>3, <1>4, <1>5, <1>6, <1>7, <1>8 DEF Next, Camera

(* As long as clients stay, nobody is sent a P frame after a new header    *)
(* and before an I frame that follows it: not when the header is replayed  *)
(* in between, and not when a pipe is full and frames are lost (the reset  *)
(* of accepting_p_frames in pipe_server_write_camera_frame).  A client     *)
(* whose pipe runs out of pages does not stay: it is disconnected.         *)
THEOREM NewHeadersReset ==
  ASSUME ~CanClose
  PROVE  Spec /\ []NobodyOverrun => []NewHeaderNeedsIFrame
<1>1. Init => HeaderInv
  BY DEF Init, HeaderInv, StreamOK, Follows
<1>2. TypeOK /\ CursOK /\ StayInv /\ FrameInv /\ HeaderInv /\ NobodyOverrun' /\ [Next]_vars
        => HeaderInv'
  BY HeaderInductive
<1>3. HeaderInv => NewHeaderNeedsIFrame
  BY DEF HeaderInv, StreamOK, Follows, NewHeaderNeedsIFrame
<1> QED
  BY <1>1, <1>2, <1>3, StayInvariant, PTL DEF Spec

-----------------------------------------------------------------------------
(* A P frame may be sent once a whole I frame was.                         *)
LEMMA AppendIFrameFirst ==
  ASSUME NEW s \in Seq(Parts), NEW e \in Parts, IFrameFirst(s), e.kind = "P" => HasI(s)
  PROVE  IFrameFirst(s \o <<e>>)
<1> DEFINE t == s \o <<e>>
           n == Len(s)
<1>1. /\ n \in Nat /\ Len(t) = n + 1 /\ t[n + 1] = e
      /\ \A k \in 1 .. n : t[k] = s[k]
  BY AppendPart
<1> HIDE DEF t, n
<1>2. ASSUME NEW p \in 1 .. n + 1, t[p].kind = "P"
      PROVE  \E j \in 1 .. p : t[j].kind = "I" /\ t[j].part = "data"
  <2>1. CASE p \in 1 .. n
    <3>1. PICK j \in 1 .. p : s[j].kind = "I" /\ s[j].part = "data"
      BY <1>1, <1>2, <2>1 DEF IFrameFirst, n
    <3>2. j \in 1 .. n
      BY <1>1, <2>1
    <3> QED
      BY <1>1, <3>1, <3>2
  <2>2. CASE p = n + 1
    <3>1. PICK j \in 1 .. n : s[j].kind = "I" /\ s[j].part = "data"
      BY <1>1, <1>2, <2>2 DEF HasI, n
    <3> QED
      BY <1>1, <2>2, <3>1
  <2> QED
    BY <1>1, <2>1, <2>2
<1> QED
  BY <1>1, <1>2 DEF IFrameFirst, t

(* A step that adds parts of frame f, which may be sent, to slot i.        *)
LEMMA AddsKeepsIFrames ==
  ASSUME TypeOK, StartsWithIFrame,
         NEW i \in Slots, NEW f \in Frames, Adds(i, f), f.kind = "P" => HasI(stream[i])
  PROVE  /\ StartsWithIFrame'
         /\ \A j \in Slots : HasI(stream[j]) => HasI(stream'[j])
<1>1. stream \in [Slots -> Seq(Parts)] /\ stream[i] \in Seq(Parts)
  BY DEF TypeOK
<1>2. ASSUME NEW s \in Seq(Parts), IFrameFirst(s), f.kind = "P" => HasI(s),
             NEW part \in {"meta", "data"}
      PROVE  /\ s \o <<Part(f, part)>> \in Seq(Parts)
             /\ IFrameFirst(s \o <<Part(f, part)>>)
             /\ HasI(s) => HasI(s \o <<Part(f, part)>>)
  <2> DEFINE e == Part(f, part)
  <2>1. e \in Parts /\ e.kind = f.kind
    BY DEF Part, Parts, Frames
  <2> HIDE DEF e
  <2>2. IFrameFirst(s \o <<e>>) /\ s \o <<e>> \in Seq(Parts)
    BY <1>2, <2>1, AppendIFrameFirst, AppendPart
  <2>3. HasI(s) => HasI(s \o <<e>>)
    BY <2>1, AppendNewer
  <2> QED
    BY <2>2, <2>3 DEF e
<1>3. IFrameFirst(stream[i])
  BY DEF StartsWithIFrame
<1>4. ASSUME NEW part \in {"meta", "data"},
             stream' = [stream EXCEPT ![i] = @ \o <<Part(f, part)>>]
      PROVE  /\ IFrameFirst(stream'[i])
             /\ HasI(stream[i]) => HasI(stream'[i])
             /\ \A j \in Slots \ {i} : stream'[j] = stream[j]
  BY <1>1, <1>2, <1>3, <1>4
<1>5. ASSUME stream' = [stream EXCEPT ![i] = @ \o <<Part(f, "meta"), Part(f, "data")>>]
      PROVE  /\ IFrameFirst(stream'[i])
             /\ HasI(stream[i]) => HasI(stream'[i])
             /\ \A j \in Slots \ {i} : stream'[j] = stream[j]
  <2> DEFINE t == stream[i] \o <<Part(f, "meta")>>
  <2>1. t \in Seq(Parts) /\ IFrameFirst(t) /\ (HasI(stream[i]) => HasI(t))
    BY <1>1, <1>2, <1>3
  <2>2. stream'[i] = t \o <<Part(f, "data")>>
    <3>1. Part(f, "meta") \in Parts /\ Part(f, "data") \in Parts
      BY DEF Part, Parts, Frames
    <3> QED
      BY <1>1, <1>5, <3>1
  <2> HIDE DEF t
  <2>3. /\ IFrameFirst(t \o <<Part(f, "data")>>)
        /\ HasI(t) => HasI(t \o <<Part(f, "data")>>)
    BY <1>2, <2>1
  <2>4. \A j \in Slots \ {i} : stream'[j] = stream[j]
    BY <1>1, <1>5
  <2> QED
    BY <2>1, <2>2, <2>3, <2>4
<1> QED
  BY <1>4, <1>5 DEF Adds, StartsWithIFrame

LEMMA WholeIInductive ==
  ASSUME ~CanClose, NobodyOverrun', TypeOK, CursOK, StayInv, FrameInv, WholeIInv,
         IFramesFit, [Next]_vars
  PROVE  WholeIInv'
<1> USE DEF Goto, AdvanceTo, slotVars, savedVars
<1>t. /\ stream \in [Slots -> Seq(Parts)] /\ accepting \in SUBSET Slots
      /\ frame \in Frames
      /\ pc["cam"] \in {"data", "accept"} => cur["cam"] \in Slots
  BY DEF TypeOK, CursOK
<1>1. ASSUME NEW i \in Slots, ClientStep(i)
      PROVE  WholeIInv'
  <2>1. CASE Read(i) \/ CloseReader(i) \/ MonitorDisconnect(i)
    BY <2>1 DEF Read, CloseReader, MonitorDisconnect, StayInv, WholeIInv, StartsWithIFrame
  <2>2. CASE Connect(i)
    <3>1. IFrameFirst(<<>>)
      BY DEF IFrameFirst
    <3>2. /\ stream' = [stream EXCEPT ![i] = <<>>] /\ i \notin live
          /\ UNCHANGED <<accepting, frame>>
          /\ pc'["cam"] = pc["cam"] /\ cur'["cam"] = cur["cam"]
      BY <2>2 DEF Connect, TypeOK
    <3>3. i \notin accepting /\ (pc["cam"] \in {"data", "accept"} => cur["cam"] # i)
      BY <3>2 DEF StayInv
    <3> QED
      BY <1>t, <3>1, <3>2, <3>3 DEF WholeIInv, StartsWithIFrame
  <2> QED
    BY <1>1, <2>1, <2>2 DEF ClientStep
<1>2. CASE Replay
  <2>1. CASE CheckHeader
    BY <2>1 DEF CheckHeader, WholeIInv, StartsWithIFrame, TypeOK
  <2>2. CASE ReplayMeta \/ ReplayData
    <3>1. PICK i \in Slots : i = cur["req"]
      BY DEF CursOK
    <3>2. \E f \in Frames : f.kind = "H" /\ Adds(i, f)
      <4>1. SavedHeader(header) \in Frames /\ SavedHeader(header_meta) \in Frames
        BY DEF TypeOK, SavedHeader, Frames, FrameKinds
      <4>2. SavedHeader(header).kind = "H" /\ SavedHeader(header_meta).kind = "H"
        BY DEF SavedHeader
      <4>3. CASE ReplayMeta
        <5>1. WriteOK(i, SavedHeader(header_meta), "meta", 1) \/ WriteFails(i, SavedHeader(header_meta), 1)
          BY <3>1, <4>3 DEF ReplayMeta
        <5>2. Adds(i, SavedHeader(header_meta))
          BY <4>1, <5>1, SendAdds
        <5> QED
          BY <4>1, <4>2, <5>2
      <4>4. CASE ReplayData
        <5>1. \/ WriteOK(i, SavedHeader(header), "data", DataSize["H"])
              \/ WriteFails(i, SavedHeader(header), DataSize["H"])
              \/ UNCHANGED stream
          BY <3>1, <4>4 DEF ReplayData
        <5>2. UNCHANGED stream => Adds(i, SavedHeader(header))
          BY DEF Adds
        <5>3. Adds(i, SavedHeader(header))
          BY <4>1, <5>1, <5>2, SendAdds
        <5> QED
          BY <4>1, <4>2, <5>3
      <4> QED
        BY <2>2, <4>3, <4>4
    <3>3. UNCHANGED accepting
      BY <2>2, WriteStays DEF ReplayMeta, ReplayData
    <3>4. UNCHANGED frame /\ pc'["cam"] = pc["cam"] /\ cur'["cam"] = cur["cam"]
      BY <2>2 DEF ReplayMeta, ReplayData, TypeOK
    <3>5. /\ StartsWithIFrame'
          /\ \A j \in Slots : HasI(stream[j]) => HasI(stream'[j])
      BY <3>2, AddsKeepsIFrames DEF WholeIInv
    <3> QED
      BY <1>t, <3>3, <3>4, <3>5 DEF WholeIInv
  <2> QED
    BY <1>2, <2>1, <2>2 DEF Replay
<1>3. CASE NextFrame \/ SaveHeaderMeta \/ FrameDone \/ SkipClient
  BY <1>3 DEF NextFrame, SaveHeaderMeta, FrameDone, SkipClient, WholeIInv, StartsWithIFrame,
              TypeOK
<1>4. CASE AcceptPFrames
  BY <1>4 DEF AcceptPFrames, WholeIInv, StartsWithIFrame, TypeOK
<1>5. CASE SendList \/ SendMeta \/ SendData
  <2>1. PICK i \in Slots : i = cur["cam"]
    BY <1>5, EncodedStreamAssumption DEF SendList, SendMeta, SendData, TypeOK, CursOK, Slots
  <2>2. UNCHANGED accepting /\ Adds(i, frame)
    <3>1. CASE SendList
      BY <1>t, <2>1, <3>1, SendAdds DEF SendList
    <3>2. CASE SendMeta
      <4>1. WriteOK(i, frame, "meta", 1) \/ WriteFails(i, frame, 1)
        BY <2>1, <3>2 DEF SendMeta
      <4> QED
        BY <1>t, <4>1, SendAdds
    <3>3. CASE SendData
      <4>1. \/ WriteOK(i, frame, "data", DataSize[frame.kind])
            \/ WriteFails(i, frame, DataSize[frame.kind])
        BY <2>1, <3>3 DEF SendData
      <4> QED
        BY <1>t, <4>1, SendAdds
    <3> QED
      BY <1>5, <3>1, <3>2, <3>3
  <2>3. UNCHANGED frame /\ (frame.kind = "P" => HasI(stream[i]))
    BY <1>5, <2>1 DEF SendList, SendMeta, SendData, FrameInv, WholeIInv, Accepts
  <2>4. /\ StartsWithIFrame'
        /\ \A j \in Slots : HasI(stream[j]) => HasI(stream'[j])
    BY <1>t, <2>2, <2>3, AddsKeepsIFrames DEF WholeIInv
  <2>5. pc'["cam"] = "accept" \/ (pc'["cam"] = "data" /\ frame'.kind = "P") =>
          HasI(stream'[cur'["cam"]])
    <3>1. CASE SendList
      BY <3>1 DEF SendList, TypeOK
    <3>2. CASE SendMeta
      BY <2>1, <2>3, <2>4, <3>2 DEF SendMeta, TypeOK, FrameInv
    <3>3. CASE SendData
      <4>1. CASE frame.kind = "I"
        <5>1. i \in live /\ i \in reading /\ Room(i, DataSize["I"])
          BY <2>1, <3>3, <4>1 DEF SendData, StayInv, IFramesFit
        <5>2. stream' = [stream EXCEPT ![i] = @ \o <<Part(frame, "data")>>]
          <6>1. WriteOK(i, frame, "data", DataSize["I"])
            BY <2>1, <3>3, <4>1, <5>1
            DEF SendData, WriteFails, NotWritten, Refused, NobodyOverrun
          <6> QED
            BY <1>t, <6>1, WriteOKSends
        <5>3. /\ Part(frame, "data") \in Parts /\ Part(frame, "data").kind = "I"
              /\ Part(frame, "data").part = "data"
          BY <1>t, <4>1 DEF Part, Parts, Frames
        <5>4. stream[i] \in Seq(Parts) /\ stream'[i] = stream[i] \o <<Part(frame, "data")>>
          BY <1>t, <5>2
        <5>5. cur' = cur
          BY <3>3, <4>1 DEF SendData
        <5>6. HasI(stream[i] \o <<Part(frame, "data")>>)
          BY <5>3, <5>4, AppendNewer, 0 \in Nat
        <5> QED
          BY <2>1, <5>4, <5>5, <5>6
      <4>2. CASE frame.kind # "I"
        BY <3>3, <4>2 DEF SendData, TypeOK
      <4> QED
        BY <4>1, <4>2
    <3> QED
      BY <1>5, <3>1, <3>2, <3>3
  <2> QED
    BY <1>t, <2>2, <2>3, <2>4, <2>5 DEF WholeIInv
<1>6. CASE UNCHANGED vars
  BY <1>6 DEF vars, WholeIInv, StartsWithIFrame
<1> QED
  BY <1>1, <1>2, <1>3, <1>4, <1>5, <1>6 DEF Next, Camera

(* As long as clients stay, and the data of I frames finds room when its   *)
(* turn comes, nobody is sent a P frame before a whole I frame, whoever    *)
(* connects when and whatever else is lost (accepting_p_frames).           *)
THEOREM PFramesFollow ==
  ASSUME ~CanClose
  PROVE  Spec /\ []NobodyOverrun /\ []IFramesFit => []StartsWithIFrame
<1>1. Init => WholeIInv
  BY DEF Init, WholeIInv, StartsWithIFrame, IFrameFirst
<1>2. TypeOK /\ CursOK /\ StayInv /\ FrameInv /\ WholeIInv /\ IFramesFit /\ NobodyOverrun'
        /\ [Next]_vars => WholeIInv'
  BY WholeIInductive
<1>3. WholeIInv => StartsWithIFrame
  BY DEF WholeIInv
<1> QED
  BY <1>1, <1>2, <1>3, StayInvariant, PTL DEF Spec

-----------------------------------------------------------------------------
(* A pipe with pages for all that is ever sent, B for each frame and for   *)
(* one replay, as an application gets that asks for large enough pipes.    *)

Units(n, B) == n * B

Roomy(B) ==
  /\ \A k \in FrameKinds : 1 + PagesFor(DataSize[k]) <= B
  /\ Units(MaxFrames + 1, B) <= PipePages

(* The pages "cam" has filled of slot i, at most: with c the slot it is     *)
(* working on, n the frame and label where it is.                          *)
SentTo(i, label, c, n, B) ==
  IF label = "idle" \/ i < c \/ (i = c /\ label = "accept")
    THEN Units(n, B)
    ELSE Units(n - 1, B) + (IF i = c /\ label = "data" THEN 1 ELSE 0)

CamShare(i, B) == SentTo(i, pc["cam"], cur["cam"], frame.n, B)

(* What "req" has, once: a client that stays is connected once.            *)
ReqShare(i, B) ==
  IF i \notin live \/ (i = cur["req"] /\ pc["req"] \in {"check", "meta"}) THEN 0
  ELSE IF i = cur["req"] /\ pc["req"] = "data" THEN 1
  ELSE B

ShareInv(B) ==
  /\ pc["cam"] # "idle" => frame.n >= 1
  /\ \A i \in Slots : pages[i] <= CamShare(i, B) + ReqShare(i, B)

LEMMA UnitsFacts ==
  ASSUME NEW B \in Nat, NEW n \in Nat
  PROVE  /\ Units(n, B) \in Nat
         /\ Units(n + 1, B) = Units(n, B) + B
         /\ n >= 1 => n - 1 \in Nat /\ Units(n, B) = Units(n - 1, B) + B
         /\ \A m \in Nat : n <= m => Units(n, B) <= Units(m, B)
<1>1. Units(n, B) \in Nat /\ Units(n + 1, B) = Units(n, B) + B
  BY DEF Units
<1>2. n >= 1 => n - 1 \in Nat /\ Units(n, B) = Units(n - 1, B) + B
  BY DEF Units
<1>3. ASSUME NEW m \in Nat, n <= m
      PROVE  Units(n, B) <= Units(m, B)
  <2>1. m * B = n * B + (m - n) * B
    OBVIOUS
  <2>2. (m - n) * B >= 0
    <3>1. m - n \in Nat
      BY <1>3
    <3> QED
      BY <3>1
  <2> QED
    BY <2>1, <2>2 DEF Units
<1> QED
  BY <1>1, <1>2, <1>3

LEMMA SentToFacts ==
  ASSUME NEW B \in Nat, NEW n \in Nat, NEW c \in Nat, NEW i \in Nat, NEW label
  PROVE  /\ label = "idle" \/ i < c => SentTo(i, label, c, n, B) = Units(n, B)
         /\ i = c /\ label = "accept" => SentTo(i, label, c, n, B) = Units(n, B)
         /\ n >= 1 /\ c < i /\ label # "idle" => SentTo(i, label, c, n, B) + B = Units(n, B)
         /\ n >= 1 /\ c = i /\ label \in {"save", "list", "meta"} =>
              SentTo(i, label, c, n, B) + B = Units(n, B)
         /\ n >= 1 /\ c = i /\ label = "data" => SentTo(i, label, c, n, B) + B = Units(n, B) + 1
         /\ n >= 1 \/ label = "idle" => SentTo(i, label, c, n, B) \in Nat
<1>1. Units(n, B) \in Nat
  BY UnitsFacts
<1>2. ASSUME n >= 1
      PROVE  Units(n, B) = Units(n - 1, B) + B /\ Units(n - 1, B) \in Nat
  <2>1. n - 1 \in Nat /\ Units(n, B) = Units(n - 1, B) + B
    BY <1>2, UnitsFacts
  <2> QED
    BY <2>1, UnitsFacts
<1>3. CASE label = "idle" \/ i < c
  BY <1>1, <1>3 DEF SentTo
<1>4. CASE label # "idle" /\ c < i
  BY <1>1, <1>2, <1>4 DEF SentTo
<1>5. CASE label # "idle" /\ c = i
  BY <1>1, <1>2, <1>5 DEF SentTo
<1> QED
  BY <1>3, <1>4, <1>5

(* How that changes as "cam" moves on.                                     *)
Moves(i, c, n, B) ==
  LET At(label, d) == SentTo(i, label, d, n, B) IN
  /\ At("list", c) = At("save", c)
  /\ i < c => At("idle", c) = At("list", c) /\ At("idle", c) = At("meta", c)
  /\ At("meta", c + 1) = At("accept", c)
  /\ i # c => /\ At("list", c + 1) = At("list", c)
              /\ At("meta", c + 1) = At("meta", c)
              /\ At("data", c) = At("meta", c)
              /\ At("accept", c) = At("meta", c)
  /\ i = c => /\ At("list", c + 1) = At("list", c) + B
              /\ At("meta", c + 1) = At("meta", c) + B
              /\ At("data", c) = At("meta", c) + 1
              /\ At("accept", c) = At("meta", c) + B
  /\ At("list", c) \in Nat /\ At("meta", c) \in Nat /\ At("accept", c) \in Nat

LEMMA SentToMoves ==
  ASSUME NEW B \in Nat, NEW n \in Nat, n >= 1, NEW c \in Nat, NEW i \in Nat
  PROVE  Moves(i, c, n, B)
<1>1. Units(n, B) \in Nat
  BY UnitsFacts
<1>2. Units(n, B) = Units(n - 1, B) + B /\ Units(n - 1, B) \in Nat
  <2>1. n - 1 \in Nat /\ Units(n, B) = Units(n - 1, B) + B
    BY UnitsFacts
  <2> QED
    BY <2>1, UnitsFacts
<1>3. CASE i < c
  BY <1>1, <1>2, <1>3 DEF SentTo, Moves
<1>4. CASE c < i
  BY <1>1, <1>2, <1>4 DEF SentTo, Moves
<1>5. CASE c = i
  BY <1>1, <1>2, <1>5 DEF SentTo, Moves
<1> QED
  BY <1>3, <1>4, <1>5

(* What one write adds to the pipes, when nobody is gone and there are     *)
(* pages for it.                                                           *)
LEMMA OnePage == PagesFor(1) = 1
<1>1. PageSize \in Nat \ {0}
  BY EncodedStreamAssumption
<1>2. 1 <= 1 * PageSize /\ 0 * PageSize = 0
  BY <1>1
<1>3. PagesFor(1) \in Nat /\ PagesFor(1) <= 1 /\ 1 <= PagesFor(1) * PageSize
  BY <1>2, PagesForRounds
<1>4. PagesFor(1) # 0
  BY <1>2, <1>3
<1> QED
  BY <1>3, <1>4

LEMMA PagesAreRoom ==
  ASSUME TypeOK, NEW i \in Slots, NEW size \in Nat, pages[i] + PagesFor(size) <= PipePages
  PROVE  Room(i, size)
<1>1. /\ PageSize \in Nat /\ PipePages \in Nat
      /\ used[i] \in Nat /\ pages[i] \in Nat /\ used[i] <= pages[i] * PageSize
  BY EncodedStreamAssumption DEF TypeOK
<1>2. PagesFor(size) \in Nat /\ size <= PagesFor(size) * PageSize
  BY PagesForRounds
<1>3. (pages[i] + PagesFor(size)) * PageSize <= PipeSize
  BY <1>1, <1>2, TimesMonotone DEF PipeSize
<1>4. (pages[i] + PagesFor(size)) * PageSize = pages[i] * PageSize + PagesFor(size) * PageSize
  BY <1>1, <1>2
<1>5. /\ pages[i] * PageSize \in Nat /\ PagesFor(size) * PageSize \in Nat /\ PipeSize \in Nat
  BY <1>1, <1>2 DEF PipeSize
<1> QED
  BY <1>1, <1>2, <1>3, <1>4, <1>5 DEF Room

LEMMA WriteUses ==
  ASSUME TypeOK, StayInv, NEW i \in Slots, NEW f, NEW part, NEW size \in Nat,
         pages[i] + PagesFor(size) <= PipePages,
         WriteOK(i, f, part, size) \/ WriteFails(i, f, size)
  PROVE  /\ UNCHANGED <<live, overrun>>
         /\ \A j \in Slots : pages'[j] <= pages[j] + (IF j = i THEN PagesFor(size) ELSE 0)
         /\ WriteFails(i, f, size) => UNCHANGED pages
<1>1. /\ pages \in [Slots -> Nat] /\ used[i] \in Nat /\ pages[i] \in 0 .. PipePages
      /\ used[i] <= pages[i] * PageSize /\ PagesFor(size) \in Nat
  BY PagesForRounds, EncodedStreamAssumption DEF TypeOK
<1>2. \A o \in Kernel(used[i], pages[i], size) :
        o.put = size /\ o.pages <= pages[i] + PagesFor(size)
  BY <1>1, KernelTakes
<1>3. WriteFails(i, f, size) => NotWritten(i, size)
  BY <1>2 DEF WriteFails, Refused
<1>4. CASE NotWritten(i, size)
  <2>1. UNCHANGED <<live, overrun, pages>>
    BY <1>4 DEF NotWritten, StayInv
  <2> QED
    BY <1>1, <2>1
<1>5. CASE WriteOK(i, f, part, size) /\ ~WriteFails(i, f, size)
  <2>1. PICK o \in Kernel(used[i], pages[i], size) :
          pages' = [pages EXCEPT ![i] = o.pages] /\ UNCHANGED <<live, overrun>>
    BY <1>5 DEF WriteOK, Taken, Fill
  <2>2. o.pages <= pages[i] + PagesFor(size)
    BY <1>2
  <2>3. ASSUME NEW j \in Slots
        PROVE  pages'[j] <= pages[j] + (IF j = i THEN PagesFor(size) ELSE 0)
    <3>1. CASE j = i
      BY <1>1, <2>1, <2>2, <3>1
    <3>2. CASE j # i
      BY <1>1, <2>1, <3>2
    <3> QED
      BY <3>1, <3>2
  <2> QED
    BY <1>5, <2>1, <2>3
<1> QED
  BY <1>3, <1>4, <1>5

LEMMA WriteListUses ==
  ASSUME TypeOK, StayInv, ~CanClose, NEW i \in Slots, NEW f \in Frames, NEW cost,
         cost = 1 + PagesFor(DataSize[f.kind]), pages[i] + cost <= PipePages, WriteList(i, f)
  PROVE  /\ UNCHANGED <<live, overrun>>
         /\ \A j \in Slots : pages'[j] <= pages[j] + (IF j = i THEN cost ELSE 0)
<1> DEFINE size == DataSize[f.kind]
<1>0. size \in Nat
  BY EncodedStreamAssumption DEF Frames
<1> HIDE DEF size
<1>1. /\ pages \in [Slots -> Nat] /\ used[i] \in Nat /\ pages[i] \in 0 .. PipePages
      /\ used[i] <= pages[i] * PageSize /\ PagesFor(size) \in Nat
      /\ cost = 1 + PagesFor(size) /\ PipePages \in Nat
  <2>1. /\ pages \in [Slots -> Nat] /\ used[i] \in Nat /\ pages[i] \in 0 .. PipePages
        /\ used[i] <= pages[i] * PageSize /\ PipePages \in Nat
    BY EncodedStreamAssumption DEF TypeOK
  <2>2. PagesFor(size) \in Nat
    BY <1>0, PagesForRounds
  <2>3. cost = 1 + PagesFor(size)
    BY DEF size
  <2> QED
    BY <2>1, <2>2, <2>3
<1>2. CASE NotWritten(i, 1 + size)
  <2>1. UNCHANGED <<live, overrun, pages>>
    BY <1>2 DEF NotWritten, StayInv
  <2> QED
    BY <1>1, <2>1
<1>3. CASE WriteBoth(i, f)
  <2>1. PICK o \in Kernel(used[i], pages[i], 1) :
          \/ Refused(i, <<>>, f, 1, o)
          \/ /\ o.put = 1
             /\ \E d \in Kernel(used[i] + 1, o.pages, size) :
                  \/ Taken(i, <<Part(f, "meta")>>, Part(f, "data"), size, d)
                  \/ Refused(i, <<Part(f, "meta")>>, f, size, d)
    BY <1>3 DEF WriteBoth, size
  <2>2. /\ o.put = 1 /\ o.pages <= pages[i] + 1 /\ o.pages \in 0 .. PipePages
        /\ used[i] + 1 <= o.pages * PageSize
    <3>1. pages[i] + PagesFor(1) <= PipePages
      BY <1>1, OnePage
    <3> QED
      BY <1>1, <3>1, OnePage, KernelTakes
  <2>3. PICK d \in Kernel(used[i] + 1, o.pages, size) :
          \/ Taken(i, <<Part(f, "meta")>>, Part(f, "data"), size, d)
          \/ Refused(i, <<Part(f, "meta")>>, f, size, d)
    BY <2>1, <2>2 DEF Refused
  <2>4. d.put = size /\ d.pages <= o.pages + PagesFor(size) /\ d.pages \in Nat
    <3>1. used[i] + 1 \in Nat /\ o.pages + PagesFor(size) <= PipePages
      BY <1>1, <2>2
    <3> QED
      BY <1>0, <1>1, <2>2, <3>1, KernelTakes
  <2>5. pages' = [pages EXCEPT ![i] = d.pages] /\ UNCHANGED <<live, overrun>>
    BY <1>0, <2>3, <2>4 DEF Refused, Taken, Fill
  <2>6. d.pages <= pages[i] + cost
    BY <1>1, <2>2, <2>4
  <2> QED
    BY <1>1, <2>5, <2>6
<1> QED
  BY <1>2, <1>3 DEF WriteList, size

(* Whoever is about to write finds the pages it needs.                     *)
HasPages(B) ==
  /\ pc["req"] = "meta" => pages[cur["req"]] + B <= PipePages
  /\ pc["req"] = "data" => pages[cur["req"]] + (B - 1) <= PipePages
  /\ pc["cam"] \in {"list", "meta"} /\ cur["cam"] \in Slots =>
       pages[cur["cam"]] + B <= PipePages
  /\ pc["cam"] = "data" => pages[cur["cam"]] + (B - 1) <= PipePages

LEMMA ShareLeavesPages ==
  ASSUME NEW B \in Nat, Roomy(B), TypeOK, CursOK, ShareInv(B)
  PROVE  HasPages(B) /\ B >= 1
<1> DEFINE n == frame.n
<1>t. /\ n \in Nat /\ n <= MaxFrames /\ MaxFrames \in Nat /\ PipePages \in Nat
      /\ pages \in [Slots -> Nat] /\ cur["cam"] \in Nat /\ cur["req"] \in Slots
      /\ pc["cam"] # "idle" => n >= 1
      /\ pc["cam"] = "data" => cur["cam"] \in Slots
  BY EncodedStreamAssumption DEF TypeOK, Frames, CursOK, ShareInv
<1>b. B >= 1
  <2>1. PagesFor(DataSize["I"]) \in Nat
    BY EncodedStreamAssumption, PagesForRounds DEF FrameKinds
  <2> QED
    BY <2>1 DEF Roomy, FrameKinds
<1>u. /\ Units(n, B) \in Nat /\ Units(n, B) + B <= PipePages
      /\ n >= 1 => Units(n - 1, B) \in Nat /\ Units(n, B) = Units(n - 1, B) + B
  <2>1. n + 1 \in Nat /\ MaxFrames + 1 \in Nat /\ n + 1 <= MaxFrames + 1
    BY <1>t
  <2>2. Units(n + 1, B) <= Units(MaxFrames + 1, B)
    BY <2>1, UnitsFacts
  <2>3. Units(n + 1, B) = Units(n, B) + B /\ Units(n, B) \in Nat
    BY <1>t, UnitsFacts
  <2>4. Units(MaxFrames + 1, B) <= PipePages /\ Units(MaxFrames + 1, B) \in Nat
    BY <2>1, UnitsFacts DEF Roomy
  <2>5. n >= 1 => Units(n - 1, B) \in Nat /\ Units(n, B) = Units(n - 1, B) + B
    <3>1. n >= 1 => n - 1 \in Nat /\ Units(n, B) = Units(n - 1, B) + B
      BY <1>t, UnitsFacts
    <3>2. n - 1 \in Nat => Units(n - 1, B) \in Nat
      BY UnitsFacts
    <3> QED
      BY <3>1, <3>2
  <2> QED
    BY <1>t, <2>2, <2>3, <2>4, <2>5
<1>s. \A i \in Slots : pages[i] \in Nat /\ pages[i] <= CamShare(i, B) + ReqShare(i, B)
  BY <1>t DEF ShareInv
<1>r. ASSUME NEW i \in Slots
      PROVE  /\ CamShare(i, B) \in Nat /\ CamShare(i, B) <= Units(n, B)
             /\ ReqShare(i, B) \in Nat /\ ReqShare(i, B) <= B
             /\ cur["cam"] = i /\ pc["cam"] \in {"list", "meta"} =>
                  CamShare(i, B) + B = Units(n, B)
             /\ cur["cam"] = i /\ pc["cam"] = "data" =>
                  CamShare(i, B) + B = Units(n, B) + 1
  <2>1. ReqShare(i, B) \in Nat /\ ReqShare(i, B) <= B
    BY <1>b DEF ReqShare
  <2>2. CamShare(i, B) \in Nat /\ CamShare(i, B) <= Units(n, B)
    BY <1>t, <1>u, <1>b DEF CamShare, SentTo
  <2>3. i \in Nat
    BY EncodedStreamAssumption DEF Slots
  <2>4. /\ cur["cam"] = i /\ pc["cam"] \in {"list", "meta"} =>
             CamShare(i, B) + B = Units(n, B)
        /\ cur["cam"] = i /\ pc["cam"] = "data" =>
             CamShare(i, B) + B = Units(n, B) + 1
    BY <1>t, <1>u, <1>b, <2>3 DEF CamShare, SentTo
  <2> QED
    BY <2>1, <2>2, <2>4
<1>1. pc["req"] = "meta" => pages[cur["req"]] + B <= PipePages
  <2>1. pc["req"] = "meta" => ReqShare(cur["req"], B) = 0
    BY DEF ReqShare
  <2> QED
    BY <1>t, <1>u, <1>s, <1>r, <2>1
<1>2. pc["req"] = "data" => pages[cur["req"]] + (B - 1) <= PipePages
  <2>1. pc["req"] = "data" => ReqShare(cur["req"], B) <= 1
    BY DEF ReqShare
  <2> QED
    BY <1>t, <1>u, <1>s, <1>r, <2>1
<1>3. pc["cam"] \in {"list", "meta"} /\ cur["cam"] \in Slots =>
        pages[cur["cam"]] + B <= PipePages
  BY <1>t, <1>u, <1>s, <1>r
<1>4. pc["cam"] = "data" => pages[cur["cam"]] + (B - 1) <= PipePages
  BY <1>t, <1>u, <1>s, <1>r
<1> QED
  BY <1>b, <1>1, <1>2, <1>3, <1>4 DEF HasPages

LEMMA ShareInductive ==
  ASSUME ~CanClose, NEW B \in Nat, Roomy(B), NobodyOverrun, TypeOK, CursOK, StayInv,
         FrameInv, ShareInv(B), [Next]_vars
  PROVE  ShareInv(B)' /\ NobodyOverrun'
<1> USE DEF Goto, AdvanceTo, slotVars, savedVars
<1> DEFINE n == frame.n
<1>t. /\ n \in Nat /\ cur["cam"] \in 0 .. NClient /\ pages \in [Slots -> 0 .. PipePages]
      /\ NClient \in Nat /\ PipePages \in Nat /\ Slots = 0 .. NClient - 1
      /\ cur["req"] \in Slots /\ (pc["cam"] \in {"data", "accept"} => cur["cam"] \in Slots)
      /\ pc["cam"] # "idle" => n >= 1
  <2>1. /\ n \in Nat /\ cur["cam"] \in 0 .. NClient /\ pages \in [Slots -> 0 .. PipePages]
        /\ pc["cam"] # "idle" => n >= 1
    BY EncodedStreamAssumption DEF TypeOK, Frames, ShareInv
  <2>2. /\ NClient \in Nat /\ PipePages \in Nat /\ Slots = 0 .. NClient - 1
        /\ cur["req"] \in Slots /\ (pc["cam"] \in {"data", "accept"} => cur["cam"] \in Slots)
    BY EncodedStreamAssumption DEF CursOK, Slots
  <2> QED
    BY <2>1, <2>2
<1>u. /\ Units(n, B) \in Nat /\ Units(n + 1, B) = Units(n, B) + B
      /\ n >= 1 => /\ n - 1 \in Nat /\ Units(n - 1, B) \in Nat
                   /\ Units(n, B) = Units(n - 1, B) + B
  BY <1>t, UnitsFacts
<1>s. \A i \in Slots : pages[i] \in Nat /\ pages[i] <= CamShare(i, B) + ReqShare(i, B)
  BY <1>t DEF ShareInv
<1>d. \A k \in FrameKinds : /\ DataSize[k] \in Nat /\ PagesFor(DataSize[k]) \in Nat
                           /\ 1 + PagesFor(DataSize[k]) <= B
  BY EncodedStreamAssumption, PagesForRounds DEF Roomy
<1>h. HasPages(B) /\ B >= 1
  BY ShareLeavesPages
<1>o. overrun = {}
  BY DEF NobodyOverrun
<1> DEFINE c == cur["cam"]
<1>r. ASSUME NEW j \in Slots
      PROVE  /\ j \in Nat /\ c \in Nat /\ B \in Nat
             /\ CamShare(j, B) \in Nat /\ ReqShare(j, B) \in Nat
  <2>1. j \in Nat /\ c \in Nat
    BY <1>t
  <2>2. SentTo(j, pc["cam"], c, n, B) \in Nat
    BY <1>t, <2>1, SentToFacts
  <2> QED
    BY <2>1, <2>2 DEF CamShare, ReqShare
<1>p. pages' \in [Slots -> 0 .. PipePages]
  BY TypeInductive DEF TypeOK
<1>1. ASSUME NEW i \in Slots, ClientStep(i)
      PROVE  ShareInv(B)' /\ NobodyOverrun'
  <2>1. CASE Read(i)
    <3>1. \A j \in Slots : pages'[j] <= pages[j]
      BY <1>t, <2>1 DEF Read
    <3>2. \A j \in Slots : pages'[j] \in Nat
      BY <1>t, <2>1 DEF Read
    <3>3. \A j \in Slots : /\ CamShare(j, B)' = CamShare(j, B)
                           /\ ReqShare(j, B)' = ReqShare(j, B)
      BY <2>1 DEF Read, CamShare, ReqShare
    <3>4. \A j \in Slots : CamShare(j, B) \in Int /\ ReqShare(j, B) \in Int
      BY <1>r
    <3>5. pc' = pc /\ frame' = frame /\ overrun' = overrun
      BY <2>1 DEF Read
    <3> QED
      BY <1>s, <1>o, <3>1, <3>2, <3>3, <3>4, <3>5 DEF ShareInv, NobodyOverrun
  <2>2. CASE CloseReader(i) \/ MonitorDisconnect(i)
    BY <2>2 DEF CloseReader, MonitorDisconnect, StayInv
  <2>3. CASE Connect(i)
    <3>1. /\ pc'["cam"] = pc["cam"] /\ cur'["cam"] = cur["cam"] /\ frame' = frame
          /\ pc["req"] = "idle" /\ pc'["req"] = "check" /\ cur'["req"] = i
          /\ live' = live \cup {i} /\ pages' = [pages EXCEPT ![i] = 0]
          /\ overrun' = overrun \ {i}
      BY <2>3 DEF Connect, TypeOK
    <3>2. \A j \in Slots : pages'[j] <= CamShare(j, B)' + ReqShare(j, B)'
      <4>1. \A j \in Slots : CamShare(j, B)' = CamShare(j, B) /\ CamShare(j, B) \in Nat
        BY <1>r, <3>1 DEF CamShare
      <4>2. ReqShare(i, B)' = 0 /\ pages'[i] = 0
        BY <1>t, <3>1 DEF ReqShare
      <4>3. \A j \in Slots \ {i} : pages'[j] = pages[j] /\ ReqShare(j, B)' = ReqShare(j, B)
        BY <1>t, <3>1 DEF ReqShare
      <4> QED
        BY <1>s, <4>1, <4>2, <4>3
    <3> QED
      BY <1>t, <1>o, <3>1, <3>2 DEF ShareInv, NobodyOverrun
  <2> QED
    BY <1>1, <2>1, <2>2, <2>3 DEF ClientStep
<1>2. CASE Replay
  <2>1. /\ pc'["cam"] = pc["cam"] /\ UNCHANGED <<cur, frame>>
        /\ pc["req"] # "idle"
    BY <1>2 DEF Replay, CheckHeader, ReplayMeta, ReplayData, TypeOK
  <2>2. \A j \in Slots : CamShare(j, B)' = CamShare(j, B) /\ CamShare(j, B) \in Nat
    BY <1>r, <2>1 DEF CamShare
  <2>3. /\ \A j \in Slots : pages'[j] <= CamShare(j, B)' + ReqShare(j, B)'
        /\ overrun' = overrun
    <3>1. CASE CheckHeader
      BY <1>s, <2>1, <2>2, <3>1 DEF CheckHeader, ReqShare, TypeOK
    <3>2. CASE ReplayMeta
      <4>1. PICK i \in Slots : i = cur["req"]
        BY <1>t
      <4>2. \/ /\ WriteOK(i, SavedHeader(header_meta), "meta", 1) /\ pc'["req"] = "data"
            \/ /\ WriteFails(i, SavedHeader(header_meta), 1) /\ pc'["req"] = "idle"
        BY <3>2, <4>1 DEF ReplayMeta, TypeOK
      <4>3. /\ UNCHANGED <<live, overrun>>
            /\ \A j \in Slots : pages'[j] <= pages[j] + (IF j = i THEN 1 ELSE 0)
            /\ pc'["req"] = "idle" => pages' = pages
        <5>1. pages[i] + PagesFor(1) <= PipePages
          BY <1>t, <1>h, <3>2, <4>1, OnePage DEF HasPages, ReplayMeta
        <5> QED
          BY <4>2, <5>1, OnePage, WriteUses
      <4>4. \A j \in Slots : pages'[j] \in Int
        BY <1>t, <1>p
      <4>5. i \notin live => pages' = pages
        BY <4>2, <4>3 DEF WriteOK, CanWrite
      <4>6. pc["req"] = "meta"
        BY <3>2 DEF ReplayMeta
      <4> QED
        BY <1>s, <2>1, <2>2, <4>1, <4>2, <4>3, <4>4, <4>5, <4>6 DEF ReqShare
    <3>3. CASE ReplayData
      <4>1. PICK i \in Slots : i = cur["req"]
        BY <1>t
      <4>2. \/ WriteOK(i, SavedHeader(header), "data", DataSize["H"])
            \/ WriteFails(i, SavedHeader(header), DataSize["H"])
            \/ UNCHANGED <<live, pages, overrun>>
        BY <3>3, <4>1 DEF ReplayData, slotVars
      <4>3. /\ DataSize["H"] \in Nat /\ PagesFor(DataSize["H"]) \in Nat
            /\ 1 + PagesFor(DataSize["H"]) <= B
        BY <1>d DEF FrameKinds
      <4>4. /\ UNCHANGED <<live, overrun>>
            /\ \A j \in Slots :
                 pages'[j] <= pages[j] + (IF j = i THEN PagesFor(DataSize["H"]) ELSE 0)
        <5>1. CASE UNCHANGED <<live, pages, overrun>>
          BY <1>t, <4>3, <5>1
        <5>2. CASE ~UNCHANGED <<live, pages, overrun>>
          <6>1. pages[i] + PagesFor(DataSize["H"]) <= PipePages
            <7>1. pages[cur["req"]] + (B - 1) <= PipePages
              BY <1>h, <3>3 DEF HasPages, ReplayData
            <7>2. pages[i] \in Nat /\ PipePages \in Nat
              BY <1>t
            <7>3. pages[i] + (B - 1) <= PipePages
              BY <4>1, <7>1
            <7> QED
              BY <4>3, <7>2, <7>3
          <6> QED
            BY <4>2, <4>3, <5>2, <6>1, WriteUses
        <5> QED
          BY <5>1, <5>2
      <4>5. \A j \in Slots : pages'[j] \in Int
        BY <1>t, <1>p
      <4>6. i \notin live => pages' = pages
        BY <4>2 DEF WriteOK, WriteFails, CanWrite, NotWritten
      <4>7. pc["req"] = "data" /\ pc'["req"] = "idle"
        BY <3>3 DEF ReplayData, TypeOK
      <4> QED
        BY <1>s, <2>1, <2>2, <4>1, <4>3, <4>4, <4>5, <4>6, <4>7 DEF ReqShare
    <3> QED
      BY <1>2, <3>1, <3>2, <3>3 DEF Replay
  <2> QED
    BY <1>t, <1>o, <2>1, <2>3 DEF ShareInv, NobodyOverrun
<1>3. CASE NextFrame
  <2>1. /\ pc["cam"] = "idle" /\ pc'["cam"] \in {"save", "list", "meta"}
        /\ pc'["req"] = pc["req"] /\ cur'["cam"] = 0 /\ cur'["req"] = cur["req"]
        /\ frame'.n = n + 1 /\ UNCHANGED <<live, pages, overrun>>
    BY <1>3 DEF NextFrame, TypeOK
  <2>2. ASSUME NEW j \in Slots
        PROVE  CamShare(j, B)' = CamShare(j, B)
    <3>1. j \in Nat /\ n + 1 \in Nat /\ 0 \in Nat /\ n + 1 >= 1
      BY <1>t
    <3>2. CamShare(j, B)' = SentTo(j, pc'["cam"], 0, n + 1, B)
      BY <2>1 DEF CamShare
    <3>3. CamShare(j, B)' + B = Units(n + 1, B) /\ CamShare(j, B)' \in Nat
      BY <2>1, <3>1, <3>2, SentToFacts
    <3>4. CamShare(j, B) = Units(n, B)
      BY <1>t, <2>1, SentToFacts DEF CamShare
    <3> QED
      BY <1>u, <3>3, <3>4
  <2>3. \A j \in Slots : ReqShare(j, B)' = ReqShare(j, B)
    BY <2>1 DEF ReqShare
  <2> QED
    BY <1>t, <1>s, <1>o, <2>1, <2>2, <2>3 DEF ShareInv, NobodyOverrun
<1>4. CASE SaveHeaderMeta \/ FrameDone \/ SkipClient \/ AcceptPFrames
  <2>1. /\ pc["cam"] # "idle" /\ pc'["req"] = pc["req"] /\ cur'["req"] = cur["req"]
        /\ UNCHANGED <<live, pages, frame, overrun>>
    BY <1>4 DEF SaveHeaderMeta, FrameDone, SkipClient, AcceptPFrames, TypeOK
  <2>2. \A j \in Slots : ReqShare(j, B)' = ReqShare(j, B)
    BY <2>1 DEF ReqShare
  <2>3. ASSUME NEW j \in Slots
        PROVE  CamShare(j, B)' >= CamShare(j, B) /\ CamShare(j, B)' \in Nat
    <3> DEFINE l2 == pc'["cam"]
               c2 == cur'["cam"]
    <3>1. /\ c \in Nat /\ j \in Nat /\ n \in Nat /\ n >= 1 /\ j < NClient
          /\ CamShare(j, B)' = SentTo(j, l2, c2, n, B)
          /\ CamShare(j, B) = SentTo(j, pc["cam"], c, n, B)
      BY <1>t, <1>r, <2>1 DEF CamShare
    <3>m. Moves(j, c, n, B)
      BY <3>1, SentToMoves, Zenon
    <3>2. CASE SaveHeaderMeta
      <4>1. pc["cam"] = "save" /\ l2 = "list" /\ c2 = c
        BY <3>2 DEF SaveHeaderMeta, TypeOK
      <4> QED
        BY <3>1, <3>m, <4>1 DEF Moves
    <3>3. CASE FrameDone
      <4>1. pc["cam"] \in {"list", "meta"} /\ l2 = "idle" /\ c2 = c /\ j < c
        BY <3>1, <3>3 DEF FrameDone, TypeOK
      <4> QED
        BY <3>1, <3>m, <4>1 DEF Moves
    <3>4. CASE SkipClient
      <4>1. pc["cam"] = "meta" /\ l2 = "meta" /\ c2 = c + 1
        BY <3>4 DEF SkipClient, TypeOK
      <4> QED
        BY <3>1, <3>m, <4>1 DEF Moves
    <3>5. CASE AcceptPFrames
      <4>1. pc["cam"] = "accept" /\ l2 = "meta" /\ c2 = c + 1
        BY <3>5 DEF AcceptPFrames, TypeOK
      <4> QED
        BY <3>1, <3>m, <4>1 DEF Moves
    <3> QED
      BY <1>4, <3>2, <3>3, <3>4, <3>5
  <2>4. \A j \in Slots : pages'[j] <= CamShare(j, B)' + ReqShare(j, B)'
    BY <1>s, <1>r, <2>1, <2>2, <2>3
  <2> QED
    BY <1>t, <1>o, <2>1, <2>4 DEF ShareInv, NobodyOverrun
<1>5. CASE SendList
  <2>1. /\ pc["cam"] = "list" /\ c \in Slots /\ frame \in Frames
        /\ WriteList(c, frame) /\ UNCHANGED <<pc, frame>>
        /\ cur'["cam"] = c + 1 /\ cur'["req"] = cur["req"]
    BY <1>t, <1>5 DEF SendList, TypeOK
  <2>3. /\ 1 + PagesFor(DataSize[frame.kind]) <= B
        /\ PagesFor(DataSize[frame.kind]) \in Nat
    BY <1>d, <2>1 DEF Frames
  <2> DEFINE cost == 1 + PagesFor(DataSize[frame.kind])
  <2>2. /\ UNCHANGED <<live, overrun>>
        /\ \A j \in Slots : pages'[j] <= pages[j] + (IF j = c THEN cost ELSE 0)
    <3>1. pages[c] + cost <= PipePages
      BY <1>t, <1>h, <2>1, <2>3 DEF HasPages
    <3> QED
      BY <2>1, <3>1, WriteListUses
  <2>4. \A j \in Slots : ReqShare(j, B)' = ReqShare(j, B)
    BY <2>1, <2>2 DEF ReqShare
  <2>5. ASSUME NEW j \in Slots
        PROVE  /\ j = c => CamShare(j, B)' = CamShare(j, B) + B
               /\ j # c => CamShare(j, B)' = CamShare(j, B)
    <3>1. c \in Nat /\ j \in Nat /\ n \in Nat /\ n >= 1 /\ B \in Nat
      BY <1>t, <1>r, <2>1
    <3>m. Moves(j, c, n, B)
      BY <3>1, SentToMoves, Zenon
    <3>2. /\ CamShare(j, B) = SentTo(j, "list", c, n, B)
          /\ CamShare(j, B)' = SentTo(j, "list", c + 1, n, B)
      BY <2>1 DEF CamShare
    <3> QED
      BY <3>1, <3>m, <3>2 DEF Moves
  <2>6. pages' \in [Slots -> Int]
    BY <1>t, <1>p
  <2>7. \A j \in Slots : pages'[j] <= CamShare(j, B)' + ReqShare(j, B)'
    BY <1>s, <1>r, <2>2, <2>3, <2>4, <2>5, <2>6
  <2> QED
    BY <1>t, <1>o, <2>1, <2>2, <2>7 DEF ShareInv, NobodyOverrun
<1>6. CASE SendMeta
  <2>0. pc["cam"] = "meta" /\ c \in Slots /\ UNCHANGED frame
    BY <1>t, <1>6 DEF SendMeta
  <2>1. /\ pc["cam"] = "meta" /\ c \in Slots /\ UNCHANGED frame
        /\ pc'["req"] = pc["req"] /\ cur'["req"] = cur["req"]
        /\ \/ WriteOK(c, frame, "meta", 1) /\ pc'["cam"] = "data" /\ cur'["cam"] = c
           \/ WriteFails(c, frame, 1) /\ pc'["cam"] = "meta" /\ cur'["cam"] = c + 1
    BY <2>0, <1>6 DEF SendMeta, TypeOK
  <2>2. /\ UNCHANGED <<live, overrun>>
        /\ \A j \in Slots : pages'[j] <= pages[j] + (IF j = c THEN 1 ELSE 0)
        /\ WriteFails(c, frame, 1) => pages' = pages
    <3>1. pages[c] + PagesFor(1) <= PipePages
      BY <1>t, <1>h, <2>1, OnePage DEF HasPages
    <3> QED
      BY <2>1, <3>1, OnePage, WriteUses
  <2>3. pc'["cam"] = "meta" => pages' = pages
    BY <2>1, <2>2
  <2>4. \A j \in Slots : ReqShare(j, B)' = ReqShare(j, B)
    BY <2>1, <2>2 DEF ReqShare
  <2>5. ASSUME NEW j \in Slots
        PROVE  /\ j = c /\ pc'["cam"] = "data" => CamShare(j, B)' = CamShare(j, B) + 1
               /\ j # c => CamShare(j, B)' = CamShare(j, B)
               /\ j = c /\ pc'["cam"] = "meta" => CamShare(j, B)' = CamShare(j, B) + B
    <3>1. c \in Nat /\ j \in Nat /\ n \in Nat /\ n >= 1 /\ B \in Nat
      BY <1>t, <1>r, <2>1
    <3>m. Moves(j, c, n, B)
      BY <3>1, SentToMoves, Zenon
    <3>2. CASE pc'["cam"] = "data" /\ cur'["cam"] = c
      <4>1. /\ CamShare(j, B) = SentTo(j, "meta", c, n, B)
            /\ CamShare(j, B)' = SentTo(j, "data", c, n, B)
        BY <2>1, <3>2 DEF CamShare
      <4> QED
        BY <3>1, <3>m, <3>2, <4>1 DEF Moves
    <3>3. CASE pc'["cam"] = "meta" /\ cur'["cam"] = c + 1
      <4>1. /\ CamShare(j, B) = SentTo(j, "meta", c, n, B)
            /\ CamShare(j, B)' = SentTo(j, "meta", c + 1, n, B)
        BY <2>1, <3>3 DEF CamShare
      <4> QED
        BY <3>1, <3>m, <3>3, <4>1 DEF Moves
    <3> QED
      BY <2>1, <3>2, <3>3
  <2>6. pages' \in [Slots -> Int]
    BY <1>t, <1>p
  <2>7. \A j \in Slots : pages'[j] <= CamShare(j, B)' + ReqShare(j, B)'
    <3>1. CASE pc'["cam"] = "meta" /\ pages' = pages
      BY <1>s, <1>r, <2>4, <2>5, <3>1
    <3>2. CASE pc'["cam"] = "data"
      BY <1>s, <1>r, <2>1, <2>2, <2>4, <2>5, <2>6, <3>2
    <3> QED
      BY <2>1, <2>3, <3>1, <3>2
  <2> QED
    BY <1>t, <1>o, <2>1, <2>2, <2>7 DEF ShareInv, NobodyOverrun
<1>7. CASE SendData
  <2>1. /\ pc["cam"] = "data" /\ c \in Slots /\ UNCHANGED frame /\ frame \in Frames
        /\ pc'["req"] = pc["req"] /\ cur'["req"] = cur["req"]
        /\ \/ WriteOK(c, frame, "data", DataSize[frame.kind])
           \/ WriteFails(c, frame, DataSize[frame.kind])
        /\ \/ pc'["cam"] = "accept" /\ cur'["cam"] = c
           \/ pc'["cam"] = "meta" /\ cur'["cam"] = c + 1
    BY <1>t, <1>7 DEF SendData, TypeOK
  <2> DEFINE cost == PagesFor(DataSize[frame.kind])
  <2>2. 1 + cost <= B /\ cost \in Nat /\ DataSize[frame.kind] \in Nat
    BY <1>d, <2>1 DEF Frames
  <2>3. /\ UNCHANGED <<live, overrun>>
        /\ \A j \in Slots : pages'[j] <= pages[j] + (IF j = c THEN cost ELSE 0)
    <3>1. pages[c] + cost <= PipePages
      <4>1. pages[cur["cam"]] + (B - 1) <= PipePages
        BY <1>h, <1>7 DEF HasPages, SendData
      <4>2. cost \in Nat /\ 1 + cost <= B
        BY <2>2
      <4>3. pages[c] \in Nat /\ PipePages \in Nat
        BY <1>t, <2>1
      <4> HIDE DEF cost
      <4> QED
        BY <4>1, <4>2, <4>3
    <3> QED
      BY <2>1, <2>2, <3>1, WriteUses
  <2>4. \A j \in Slots : ReqShare(j, B)' = ReqShare(j, B)
    BY <2>1, <2>3 DEF ReqShare
  <2>5. ASSUME NEW j \in Slots
        PROVE  /\ CamShare(j, B)' \in Nat
               /\ j = c => CamShare(j, B)' + 1 = CamShare(j, B) + B
               /\ j # c => CamShare(j, B)' = CamShare(j, B)
    <3>1. c \in Nat /\ j \in Nat /\ n \in Nat /\ n >= 1 /\ B \in Nat
      BY <1>t, <1>r, <2>1
    <3>m. Moves(j, c, n, B)
      BY <3>1, SentToMoves, Zenon
    <3>2. CASE pc'["cam"] = "accept" /\ cur'["cam"] = c
      <4>1. /\ CamShare(j, B) = SentTo(j, "data", c, n, B)
            /\ CamShare(j, B)' = SentTo(j, "accept", c, n, B)
        BY <2>1, <3>2 DEF CamShare
      <4> QED
        BY <3>1, <3>m, <3>2, <4>1 DEF Moves
    <3>3. CASE pc'["cam"] = "meta" /\ cur'["cam"] = c + 1
      <4>1. /\ CamShare(j, B) = SentTo(j, "data", c, n, B)
            /\ CamShare(j, B)' = SentTo(j, "meta", c + 1, n, B)
        BY <2>1, <3>3 DEF CamShare
      <4> QED
        BY <3>1, <3>m, <3>3, <4>1 DEF Moves
    <3> QED
      BY <2>1, <3>2, <3>3
  <2>6. pages' \in [Slots -> Int]
    BY <1>t, <1>p
  <2>7. \A j \in Slots : pages'[j] <= CamShare(j, B)' + ReqShare(j, B)'
    <3> SUFFICES ASSUME NEW j \in Slots
                 PROVE  pages'[j] <= CamShare(j, B)' + ReqShare(j, B)'
      OBVIOUS
    <3>1. /\ pages[j] \in Nat /\ pages[j] <= CamShare(j, B) + ReqShare(j, B)
          /\ CamShare(j, B) \in Nat /\ ReqShare(j, B) \in Nat /\ B \in Nat
          /\ pages'[j] \in Nat /\ ReqShare(j, B)' = ReqShare(j, B)
      BY <1>s, <1>r, <1>t, <1>p, <2>4
    <3>2. CASE j = c
      <4>1. pages'[j] <= pages[j] + cost
        BY <2>3, <3>2
      <4>2. CamShare(j, B)' + 1 = CamShare(j, B) + B /\ CamShare(j, B)' \in Int
        BY <2>5, <3>2
      <4> QED
        BY <2>2, <3>1, <4>1, <4>2
    <3>3. CASE j # c
      <4>1. pages'[j] <= pages[j] + 0 /\ CamShare(j, B)' = CamShare(j, B)
        BY <2>3, <2>5, <3>3
      <4> QED
        BY <3>1, <4>1
    <3> QED
      BY <3>2, <3>3
  <2> QED
    BY <1>t, <1>o, <2>1, <2>3, <2>7 DEF ShareInv, NobodyOverrun
<1>8. CASE UNCHANGED vars
  BY <1>8 DEF vars, ShareInv, CamShare, ReqShare, NobodyOverrun
<1> QED
  BY <1>1, <1>2, <1>3, <1>4, <1>5, <1>6, <1>7, <1>8 DEF Next, Camera

-----------------------------------------------------------------------------
LEMMA ShareFits ==
  ASSUME NEW B \in Nat, Roomy(B), TypeOK, CursOK, ShareInv(B)
  PROVE  IFramesFit
<1> SUFFICES ASSUME pc["cam"] = "data", frame.kind = "I"
             PROVE  Room(cur["cam"], DataSize["I"])
  BY DEF IFramesFit
<1>1. cur["cam"] \in Slots /\ DataSize["I"] \in Nat
  BY EncodedStreamAssumption DEF CursOK, FrameKinds
<1>2. PagesFor(DataSize["I"]) \in Nat /\ 1 + PagesFor(DataSize["I"]) <= B
  BY <1>1, PagesForRounds DEF Roomy, FrameKinds
<1>3. pages[cur["cam"]] + (B - 1) <= PipePages /\ pages[cur["cam"]] \in Nat
  <2>1. HasPages(B)
    BY ShareLeavesPages
  <2>2. pages \in [Slots -> 0 .. PipePages] /\ PipePages \in Nat
    BY EncodedStreamAssumption DEF TypeOK
  <2> QED
    BY <1>1, <2>1, <2>2 DEF HasPages
<1>4. pages[cur["cam"]] + PagesFor(DataSize["I"]) <= PipePages
  BY <1>2, <1>3, EncodedStreamAssumption
<1> QED
  BY <1>1, <1>4, PagesAreRoom

LEMMA RoomyInvariant ==
  ASSUME ~CanClose, NEW B \in Nat, Roomy(B)
  PROVE  Spec => [](NobodyOverrun /\ IFramesFit)
<1>1. Init => ShareInv(B) /\ NobodyOverrun /\ StayInv /\ FrameInv
  <2> SUFFICES ASSUME Init
               PROVE  ShareInv(B) /\ NobodyOverrun /\ StayInv /\ FrameInv
    OBVIOUS
  <2>1. frame.n = 0 /\ pc["cam"] = "idle" /\ live = {} /\ pages = [i \in Slots |-> 0]
    BY DEF Init, NoFrame
  <2>2. \A i \in Slots : CamShare(i, B) = 0 /\ ReqShare(i, B) = 0
    BY <2>1 DEF CamShare, SentTo, ReqShare, Units
  <2> QED
    BY <2>1, <2>2 DEF Init, ShareInv, NobodyOverrun, StayInv, FrameInv, NoFrame
<1>2. NobodyOverrun /\ TypeOK /\ CursOK /\ StayInv /\ FrameInv /\ ShareInv(B) /\ [Next]_vars
        => ShareInv(B)' /\ NobodyOverrun'
  BY ShareInductive
<1>3. TypeOK /\ CursOK /\ StayInv /\ FrameInv /\ NobodyOverrun' /\ [Next]_vars
        => StayInv' /\ FrameInv'
  BY StayInductive
<1>4. TypeOK /\ CursOK /\ ShareInv(B) => IFramesFit
  BY ShareFits
<1> QED
  BY <1>1, <1>2, <1>3, <1>4, TypeInit, TypeInductive, PTL DEF Spec

(* No client of a server whose pipes have pages for all that is ever sent  *)
(* gets a P frame before a whole I frame (server.c 1599-1600), nor, after  *)
(* a new header, before a new one, and no write is cut short.  This is the *)
(* run stream_roomy for every number of clients, frames, pages and sizes.  *)
THEOREM RoomyStreams ==
  ASSUME ~CanClose, NEW B \in Nat, Roomy(B)
  PROVE  Spec => [](StartsWithIFrame /\ NewHeaderNeedsIFrame /\ NobodyOverrun)
BY RoomyInvariant, PFramesFollow, NewHeadersReset, PTL
=============================================================================
