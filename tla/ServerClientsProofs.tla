------------------------ MODULE ServerClientsProofs ------------------------
(***************************************************************************)
(* Proofs about ServerClients, for every set of names and table size.      *)
(* Type correctness and TableInv hold for every channel; NameInv, and what *)
(* follows from it, for a channel on which no client setup fails halfway.  *)
(***************************************************************************)
EXTENDS ServerClients, SequenceTheorems, TLAPS

(* Adding a client under an id is a step of the register.                  *)
LEMMA AddIsStep ==
  ASSUME NEW i \in Slots, NEW x \in Clients, Registry!Add(i, x)
  PROVE  Registry!Next
BY Zenon DEF Registry!Next

USE DEF Slots, Threads, Counted, Writable

(* A slot is free or in use, never both.                                   *)
LEMMA FreeIsNotLive ==
  ASSUME TypeOK, NEW i \in Slots
  PROVE  Free(i) <=> ~Live(i)
BY DEF TypeOK, Free, Live, SlotStates, UNINITIALIZED, INITIALIZED, CONNECTED, DISCONNECTED

(* Every step of every thread preserves the types.                         *)
LEMMA TypeInductive == TypeOK /\ PcOK /\ [Next]_vars => TypeOK'
<1> SUFFICES ASSUME TypeOK, PcOK, [Next]_vars
             PROVE  TypeOK'
  OBVIOUS
<1> USE ServerClientsAssumption DEF TypeOK, PcOK, SlotStates, ClientStates, Goto,
      AdvanceTo, HandleName, Return, clientVars, tableVars, Unlink, Live,
      UNINITIALIZED, INITIALIZED, CONNECTED, DISCONNECTED, InHand, Closed
<1>1. ASSUME NEW x \in Clients, Ask(x)
      PROVE  TypeOK'
  BY <1>1 DEF Ask
<1>2. ASSUME NEW x \in Clients, OpenFifo(x) \/ ClientTimeout(x) \/ CrashWaiting(x)
      PROVE  TypeOK'
  BY <1>2 DEF OpenFifo, ClientTimeout, CrashWaiting
<1>3. ASSUME NEW x \in Clients, CloseReader(x)
      PROVE  TypeOK'
  BY <1>3 DEF CloseReader
<1>4. ASSUME NEW x \in Clients, DrainPipe(x)
      PROVE  TypeOK'
  BY <1>4 DEF DrainPipe
<1>5. ASSUME TakeRequest
      PROVE  TypeOK'
  <2>1. requests' \in Seq(Clients)
    BY <1>5, SubSeqProperties DEF TakeRequest
  <2>2. Head(requests) \in Clients
    BY <1>5 DEF TakeRequest
  <2> QED
    BY <1>5, <2>1, <2>2 DEF TakeRequest
<1>6. ASSUME FindSlot
      PROVE  TypeOK'
  BY <1>6 DEF FindSlot
<1>7. ASSUME OpenPipe
      PROVE  TypeOK'
  BY <1>7 DEF OpenPipe
<1>8. ASSUME OpenTimeout \/ RemoveFailedFifo \/ SaveName
      PROVE  TypeOK'
  <2>1. CASE OpenTimeout
    BY <2>1 DEF OpenTimeout
  <2>2. CASE RemoveFailedFifo
    BY <2>2 DEF RemoveFailedFifo
  <2>3. CASE SaveName
    BY <2>3 DEF SaveName
  <2> QED
    BY <1>8, <2>1, <2>2, <2>3
<1>9. ASSUME ActivateSlot
      PROVE  TypeOK'
  <2> DEFINE i == cur["req"]
             x == handling["req"]
  <2>1. i \in Slots /\ x \in Clients
    BY <1>9 DEF ActivateSlot
  <2>2. at' \in [Clients -> Slots \cup {InHand, Closed}]
    BY <1>9, <2>1 DEF ActivateSlot
  <2>3. backlog' \in SUBSET Slots
    BY <1>9, <2>1 DEF ActivateSlot
  <2>4. n_clients' \in 0 .. NClient
    BY <1>9, <2>1 DEF ActivateSlot
  <2>5. state' \in [Slots -> SlotStates]
    BY <1>9, <2>1 DEF ActivateSlot
  <2>6. /\ pc' \in [Threads -> {"idle", "scan", "open", "giveup", "name", "activate",
                         "compare", "lock", "remove", "callback"}]
        /\ cur' \in [Threads -> 0 .. NClient]
        /\ handling' \in [Threads -> Clients \cup {NoName}]
    BY <1>9, <2>1 DEF ActivateSlot
  <2>7. UNCHANGED <<cl, fifos, requests, events, names, client_mtx>>
    BY <1>9 DEF ActivateSlot
  <2> QED
    BY <2>2, <2>3, <2>4, <2>5, <2>6, <2>7
<1>10. ASSUME NEW t \in {"mon", "wr"}, RemoveFifo(t)
       PROVE  TypeOK'
  BY <1>10 DEF RemoveFifo
<1>11. ASSUME NEW t \in {"mon", "wr"}, DisconnectCallback(t)
       PROVE  TypeOK'
  BY <1>11 DEF DisconnectCallback
<1>12. ASSUME TakeEvent
       PROVE  TypeOK'
  <2>1. Head(events) \in Clients /\ Tail(events) \in Seq(Clients)
    BY <1>12 DEF TakeEvent
  <2> QED
    BY <1>12, <2>1 DEF TakeEvent
<1>13. ASSUME CheckState \/ CompareName
       PROVE  TypeOK'
  <2>1. CASE CheckState
    BY <2>1 DEF CheckState
  <2>2. CASE CompareName
    BY <2>2 DEF CompareName
  <2> QED
    BY <1>13, <2>1, <2>2
<1>14. ASSUME NEW t \in {"mon", "wr"}, NEW i \in Slots, FlagDisconnected(t, i),
              UNCHANGED <<cl, fifos, requests, events, names, n_clients, cur, handling>>
       PROVE  TypeOK'
  BY <1>14 DEF FlagDisconnected
<1>15. ASSUME StartWrite \/ NextClient
       PROVE  TypeOK'
  <2>1. CASE StartWrite
    BY <2>1 DEF StartWrite
  <2>2. CASE NextClient
    BY <2>2 DEF NextClient
  <2> QED
    BY <1>15, <2>1, <2>2
<1>16. ASSUME WriteOrSkip
       PROVE  TypeOK'
  <2>1. cur["wr"] \in Slots
    BY <1>16 DEF WriteOrSkip
  <2>2. backlog' \in SUBSET Slots /\ state' \in [Slots -> SlotStates]
    BY <1>16, <2>1 DEF WriteOrSkip
  <2> QED
    BY <1>16, <2>1, <2>2 DEF WriteOrSkip
<1>17. CASE UNCHANGED vars
  BY <1>17 DEF vars
<1>18. CASE \E x \in Clients : ClientStep(x)
  BY <1>18, <1>1, <1>2, <1>3, <1>4 DEF ClientStep
<1>19. CASE RequestThread
  BY <1>19, <1>5, <1>6, <1>7, <1>8, <1>9 DEF RequestThread
<1>20. CASE MonitorThread
  <2>1. CASE MonitorDisconnect
    BY <2>1, <1>14 DEF MonitorDisconnect
  <2> QED
    BY <1>20, <1>10, <1>11, <1>12, <1>13, <2>1 DEF MonitorThread
<1>21. CASE StartWrite \/ WriterLoop
  <2>1. CASE WriteFails
    BY <2>1, <1>14 DEF WriteFails
  <2> QED
    BY <1>21, <1>10, <1>11, <1>15, <1>16, <2>1 DEF WriterLoop
<1> QED
  BY <1>17, <1>18, <1>19, <1>20, <1>21 DEF Next

(* Each thread goes from one of its own labels to another.                 *)
LEMMA PcInductive == TypeOK /\ PcOK /\ [Next]_vars => PcOK'
<1> SUFFICES ASSUME TypeOK, PcOK, [Next]_vars
             PROVE  PcOK'
  OBVIOUS
<1> USE ServerClientsAssumption DEF TypeOK, PcOK, Goto, AdvanceTo, HandleName, Return,
      clientVars, tableVars
<1>1. ASSUME UNCHANGED <<pc, cur, handling>>
      PROVE  PcOK'
  BY <1>1
<1>2. CASE \E x \in Clients : ClientStep(x)
  BY <1>2, <1>1 DEF ClientStep, Ask, OpenFifo, ClientTimeout, CrashWaiting, CloseReader, DrainPipe
<1>3. CASE TakeRequest
  <2>1. Head(requests) \in Clients
    BY <1>3 DEF TakeRequest
  <2> QED
    BY <1>3, <2>1 DEF TakeRequest
<1>4. CASE FindSlot
  BY <1>4 DEF FindSlot
<1>5. CASE OpenPipe
  BY <1>5 DEF OpenPipe
<1>6. CASE OpenTimeout
  BY <1>6 DEF OpenTimeout
<1>7. CASE RemoveFailedFifo
  BY <1>7 DEF RemoveFailedFifo
<1>8. CASE SaveName
  BY <1>8 DEF SaveName
<1>9. CASE ActivateSlot
  BY <1>9 DEF ActivateSlot
<1>10. ASSUME NEW t \in {"mon", "wr"}, RemoveFifo(t)
       PROVE  PcOK'
  BY <1>10 DEF RemoveFifo
<1>11. ASSUME NEW t \in {"mon", "wr"}, DisconnectCallback(t)
       PROVE  PcOK'
  BY <1>11 DEF DisconnectCallback
<1>12. CASE TakeEvent
  BY <1>12 DEF TakeEvent
<1>13. CASE CheckState
  BY <1>13 DEF CheckState
<1>14. CASE CompareName
  BY <1>14 DEF CompareName
<1>15. CASE MonitorDisconnect
  BY <1>15 DEF MonitorDisconnect, FlagDisconnected
<1>16. CASE StartWrite
  BY <1>16 DEF StartWrite
<1>17. CASE NextClient
  BY <1>17 DEF NextClient
<1>18. CASE WriteOrSkip
  BY <1>18 DEF WriteOrSkip
<1>19. CASE WriteFails
  BY <1>19 DEF WriteFails, FlagDisconnected
<1>20. CASE UNCHANGED vars
  BY <1>20, <1>1 DEF vars
<1> QED
  BY <1>2, <1>3, <1>4, <1>5, <1>6, <1>7, <1>8, <1>9, <1>10, <1>11, <1>12, <1>13,
     <1>14, <1>15, <1>16, <1>17, <1>18, <1>19, <1>20
  DEF Next, RequestThread, MonitorThread, WriterLoop

-----------------------------------------------------------------------------
(* The table changes in three ways only, and in each of them what the      *)
(* invariants read of the other variables is known.                        *)

(* A slot is flagged disconnected, and its pipe closed.                    *)
Drops(i) ==
  /\ state' = [state EXCEPT ![i] = DISCONNECTED]
  /\ at' = [x \in Clients |-> IF at[x] = i THEN Closed ELSE at[x]]
  /\ UNCHANGED <<names, n_clients, handling>>
  /\ pc'["req"] = pc["req"] /\ cur'["req"] = cur["req"]

(* Nothing but the kind of liveness of a slot changes, or a client closes  *)
(* its pipe.                                                               *)
Rests ==
  /\ \A i \in Slots : Live(i)' <=> Live(i)
  /\ at' \in [Clients -> Slots \cup {InHand, Closed}]
  /\ \A x \in Clients : at'[x] \in {at[x], Closed}
  /\ UNCHANGED <<names, n_clients>>
  /\ pc'["req"] = pc["req"] /\ cur'["req"] = cur["req"]
  /\ handling'["req"] = handling["req"]

LEMMA StepKinds ==
  ASSUME TypeOK, PcOK, [Next]_vars
  PROVE  \/ Rests
         \/ \E i \in Slots : Drops(i)
         \/ RequestThread
<1> USE ServerClientsAssumption DEF TypeOK, PcOK, Goto, AdvanceTo, HandleName, Return,
      clientVars, tableVars
<1>1. CASE \E x \in Clients : ClientStep(x)
  BY <1>1 DEF Rests, Live, ClientStep, Ask, OpenFifo, ClientTimeout, CrashWaiting,
       CloseReader, DrainPipe
<1>2. ASSUME NEW t \in {"mon", "wr"}, RemoveFifo(t) \/ DisconnectCallback(t)
      PROVE  Rests
  BY <1>2 DEF Rests, Live, RemoveFifo, DisconnectCallback
<1>3. CASE TakeEvent \/ CheckState \/ CompareName
  BY <1>3 DEF Rests, Live, TakeEvent, CheckState, CompareName
<1>4. CASE MonitorDisconnect
  BY <1>4 DEF Drops, MonitorDisconnect, FlagDisconnected
<1>5. CASE StartWrite \/ NextClient
  BY <1>5 DEF Rests, Live, StartWrite, NextClient
<1>6. CASE WriteOrSkip
  <2>1. cur["wr"] \in Slots
    BY <1>6 DEF WriteOrSkip
  <2>2. \A i \in Slots : Live(i)' <=> Live(i)
    BY <1>6, <2>1 DEF WriteOrSkip, Live, INITIALIZED, CONNECTED
  <2> QED
    BY <1>6, <2>2 DEF Rests, WriteOrSkip
<1>7. CASE WriteFails
  BY <1>7 DEF Drops, WriteFails, FlagDisconnected
<1>8. CASE UNCHANGED vars
  BY <1>8 DEF Rests, Live, vars
<1> QED
  BY <1>1, <1>2, <1>3, <1>4, <1>5, <1>6, <1>7, <1>8 DEF Next, MonitorThread, WriterLoop

-----------------------------------------------------------------------------
(* TableInv, for every channel.                                            *)

LEMMA NotSlots == InHand \notin Slots /\ Closed \notin Slots /\ InHand # Closed
  BY ServerClientsAssumption DEF InHand, Closed

(* Activating a slot moves the write end from add_client's hand there.     *)
LEMMA HandMovesToSlot ==
  ASSUME TableInv, ActivateSlot, NEW y \in Clients
  PROVE  /\ at'[y] # InHand
         /\ \/ at'[y] = at[y]
            \/ at'[y] = cur["req"] /\ y = handling["req"]
<1> DEFINE i == cur["req"]
           x == handling["req"]
<1>1. i \in Slots /\ x \in Clients
  BY DEF TableInv, PcOK, ActivateSlot
<1>2. at[y] = InHand => y = x
  BY DEF TableInv, ChosenSlotFree
<1>3. at \in [Clients -> Slots \cup {InHand, Closed}]
  BY DEF TableInv, TypeOK
<1>4. at' = [at EXCEPT ![x] = IF at[x] = InHand THEN i ELSE at[x]]
  BY DEF ActivateSlot
<1>5. CASE y = x
  BY <1>1, <1>3, <1>4, <1>5, NotSlots
<1>6. CASE y # x
  BY <1>2, <1>3, <1>4, <1>6
<1> QED
  BY <1>5, <1>6

LEMMA TableKept ==
  ASSUME TableInv, [Next]_vars
  PROVE  ChosenSlotFree' /\ LiveNamed' /\ PipeBelongsToName'
<1> USE NotSlots DEF TableInv, TypeOK, PcOK, ChosenSlotFree, LiveNamed, PipeBelongsToName
<1>1. CASE Rests
  <2>1. ChosenSlotFree' /\ LiveNamed'
    BY <1>1 DEF Rests
  <2>2. ASSUME NEW x \in Clients, at'[x] \in Slots
        PROVE  (Live(at[x]) /\ names[at[x]] = x)'
    <3>1. at'[x] = at[x]
      BY <1>1, <2>2 DEF Rests
    <3> QED
      BY <1>1, <2>2, <3>1 DEF Rests
  <2> QED
    BY <2>1, <2>2
<1>2. ASSUME NEW i \in Slots, Drops(i)
      PROVE  ChosenSlotFree' /\ LiveNamed' /\ PipeBelongsToName'
  BY <1>2 DEF Drops, Live, DISCONNECTED, INITIALIZED, CONNECTED
<1>3. CASE RequestThread
  <2> USE DEF Goto, AdvanceTo, HandleName, Return, clientVars, tableVars, Live
  <2>1. CASE TakeRequest
    BY <2>1 DEF TakeRequest
  <2>2. CASE FindSlot
    BY <2>2 DEF FindSlot, Free, UNINITIALIZED, INITIALIZED, CONNECTED, DISCONNECTED
  <2>3. CASE OpenPipe
    BY <2>3 DEF OpenPipe
  <2>4. CASE OpenTimeout \/ RemoveFailedFifo
    BY <2>4 DEF OpenTimeout, RemoveFailedFifo, Unlink
  <2>5. CASE SaveName
    BY <2>5 DEF SaveName
  <2>6. CASE ActivateSlot
    <3> DEFINE i == cur["req"]
               x == handling["req"]
    <3>1. i \in Slots /\ x \in Clients /\ ~Live(i) /\ names[i] = x
      BY <2>6 DEF ActivateSlot
    <3>2. /\ \A j \in Slots : Live(j)' <=> Live(j) \/ j = i
          /\ pc'["req"] = "idle" /\ names' = names
      BY <2>6, <3>1 DEF ActivateSlot, INITIALIZED, CONNECTED
    <3>4. \A y \in Clients : at'[y] # InHand /\ (at'[y] = at[y] \/ (at'[y] = i /\ y = x))
      BY <2>6, HandMovesToSlot
    <3>5. ChosenSlotFree'
      BY <3>2, <3>4
    <3>6. LiveNamed'
      BY <3>1, <3>2
    <3>7. ASSUME NEW y \in Clients, at'[y] \in Slots
          PROVE  (Live(at[y]) /\ names[at[y]] = y)'
      BY <3>1, <3>2, <3>4, <3>7
    <3> QED
      BY <3>5, <3>6, <3>7
  <2> QED
    BY <1>3, <2>1, <2>2, <2>3, <2>4, <2>5, <2>6 DEF RequestThread
<1> QED
  BY <1>1, <1>2, <1>3, StepKinds

(* TableInv holds of every channel, for any table size and any number of   *)
(* clients, also when client setups fail halfway.                          *)
THEOREM TableInvariant == Spec => []TableInv
<1>1. Init => TableInv
  BY ServerClientsAssumption
  DEF Init, TableInv, TypeOK, PcOK, ChosenSlotFree, LiveNamed, PipeBelongsToName, Live,
      SlotStates, ClientStates, UNINITIALIZED, INITIALIZED, CONNECTED, InHand, Closed
<1>2. TableInv /\ [Next]_vars => TableInv'
  BY TypeInductive, PcInductive, TableKept DEF TableInv
<1> QED
  BY <1>1, <1>2, PTL DEF Spec

(* Every variable stays in its type.                                       *)
THEOREM TypeCorrect == Spec => []TypeOK
<1>1. TableInv => TypeOK
  BY DEF TableInv
<1> QED
  BY <1>1, TableInvariant, PTL

(* An open pipe is held by the live slot of its client's own name: what is *)
(* written to a slot goes to the client registered there.                  *)
THEOREM PipesBelongToNames == Spec => []PipeBelongsToName
<1>1. TableInv => PipeBelongsToName
  BY DEF TableInv
<1> QED
  BY <1>1, TableInvariant, PTL

-----------------------------------------------------------------------------
(* NameInv, for a channel on which setups do not fail halfway.             *)

LEMMA NamesKept ==
  ASSUME TableInv, NameInv, [Next]_vars, ~SetupCanFail
  PROVE  NameInv'
<1> USE ServerClientsAssumption DEF TableInv, TypeOK, PcOK, ChosenSlotFree, LiveNamed,
      NameInv, LiveCounted, AddedNameFresh, NoLowerNamesake
<1>1. CASE Rests
  BY <1>1 DEF Rests
<1>2. ASSUME NEW i \in Slots, Drops(i)
      PROVE  NameInv'
  BY <1>2 DEF Drops, Live, DISCONNECTED, INITIALIZED, CONNECTED
<1>3. CASE RequestThread
  <2> USE DEF Goto, AdvanceTo, HandleName, Return, clientVars, tableVars, Live
  <2>1. CASE TakeRequest
    <3>1. UNCHANGED <<state, names, n_clients, cur>>
      BY <2>1 DEF TakeRequest
    <3>2. LiveCounted' /\ NoLowerNamesake'
      BY <3>1
    <3>3. CASE NameTaken(Head(requests))
      BY <2>1, <3>1, <3>2, <3>3 DEF TakeRequest
    <3>4. CASE ~NameTaken(Head(requests))
      <4>1. ASSUME NEW i \in Slots, Live(i)
            PROVE  names[i] # Head(requests)
        BY <3>4, <4>1 DEF NameTaken
      <4>2. cur["req"] = 0 /\ handling'["req"] = Head(requests)
        BY <2>1, <3>4 DEF TakeRequest
      <4> QED
        BY <3>1, <3>2, <4>1, <4>2
    <3> QED
      BY <3>3, <3>4
  <2>2. CASE FindSlot
    BY <2>2, FreeIsNotLive DEF FindSlot
  <2>3. CASE OpenPipe
    BY <2>3 DEF OpenPipe
  <2>4. CASE OpenTimeout \/ RemoveFailedFifo
    BY <2>4 DEF OpenTimeout, RemoveFailedFifo
  <2>5. CASE SaveName
    BY <2>5 DEF SaveName
  <2>6. CASE ActivateSlot
    <3> DEFINE i == cur["req"]
    <3>1. i \in Slots /\ ~Live(i) /\ names[i] = handling["req"] /\ pc["req"] # "idle"
      BY <2>6 DEF ActivateSlot
    <3>2. /\ \A j \in Slots : Live(j)' <=> Live(j) \/ j = i
          /\ pc'["req"] = "idle" /\ names' = names
          /\ n_clients' = IF i >= n_clients THEN i + 1 ELSE n_clients
      BY <2>6, <3>1 DEF ActivateSlot, INITIALIZED, CONNECTED
    <3>3. LiveCounted' /\ AddedNameFresh'
      BY <3>1, <3>2
    <3>4. NoLowerNamesake'
      BY <3>1, <3>2
    <3> QED
      BY <3>3, <3>4
  <2> QED
    BY <1>3, <2>1, <2>2, <2>3, <2>4, <2>5, <2>6 DEF RequestThread
<1> QED
  BY <1>1, <1>2, <1>3, StepKinds

(* On a channel whose client setups never fail halfway, the names in the   *)
(* table stay as add_client's checks intend.                               *)
THEOREM NameInvariant == ASSUME ~SetupCanFail PROVE Spec => []NameInv
<1>1. Init => NameInv
  BY ServerClientsAssumption
  DEF Init, NameInv, LiveCounted, AddedNameFresh, NoLowerNamesake, Live,
      UNINITIALIZED, INITIALIZED, CONNECTED
<1>2. TableInv /\ NameInv /\ [Next]_vars => NameInv'
  BY NamesKept
<1> QED
  BY <1>1, <1>2, TableInvariant, PTL DEF Spec

(* What the two invariants say about names, in one state.                  *)
LEMMA NamesDetermineSlots ==
  ASSUME TableInv, NameInv
  PROVE  LiveNamesUnique /\ LookupFindsLive
<1> USE DEF NameInv, LiveCounted, NoLowerNamesake
<1>1. LiveNamesUnique
  <2> SUFFICES ASSUME NEW i \in Slots, NEW j \in Slots, Live(i), Live(j),
                      names[i] = names[j]
               PROVE  i = j
    BY DEF LiveNamesUnique
  <2>1. ~(i < j) /\ ~(j < i)
    OBVIOUS
  <2> QED
    BY <2>1, ServerClientsAssumption
<1>2. ASSUME NEW i \in Slots, Live(i)
      PROVE  GetClientIdFromName(names[i]) = i
  <2> DEFINE matches == {k \in 0 .. n_clients - 1 : names[k] = names[i]}
  <2>1. n_clients \in 0 .. NClient
    BY DEF TableInv, TypeOK
  <2>2. i \in matches
    BY <1>2, <2>1, ServerClientsAssumption
  <2>3. \A k \in matches : k \in Slots /\ i <= k
    BY <1>2, <2>1, ServerClientsAssumption
  <2>4. (CHOOSE k \in matches : \A j \in matches : k <= j) = i
    <3>1. \E k \in matches : \A j \in matches : k <= j
      BY <2>2, <2>3
    <3>2. ASSUME NEW k \in matches, \A j \in matches : k <= j
          PROVE  k = i
      BY <2>2, <2>3, <3>2, ServerClientsAssumption
    <3> HIDE DEF matches
    <3> QED
      BY <3>1, <3>2
  <2> QED
    BY <2>2, <2>4 DEF GetClientIdFromName
<1> QED
  BY <1>1, <1>2 DEF LookupFindsLive

(* Every live slot is below n_clients, so the loops that stop there miss   *)
(* no client, on a channel whose client setups never fail halfway.         *)
THEOREM LiveSlotsCounted == ASSUME ~SetupCanFail PROVE Spec => []LiveCounted
<1>1. NameInv => LiveCounted
  BY DEF NameInv
<1> QED
  BY <1>1, NameInvariant, PTL

(* No two live slots have the same client name.                            *)
THEOREM NamesAreUnique == ASSUME ~SetupCanFail PROVE Spec => []LiveNamesUnique
<1>1. TableInv /\ NameInv => LiveNamesUnique
  BY NamesDetermineSlots
<1> QED
  BY <1>1, TableInvariant, NameInvariant, PTL

(* Looking up a live client's name returns its slot.                       *)
THEOREM LookupIsRight == ASSUME ~SetupCanFail PROVE Spec => []LookupFindsLive
<1>1. TableInv /\ NameInv => LookupFindsLive
  BY NamesDetermineSlots
<1> QED
  BY <1>1, TableInvariant, NameInvariant, PTL

-----------------------------------------------------------------------------
(* The client table implements the abstract register.                      *)

LEMMA StepRegisters ==
  ASSUME TableInv, NameInv, TableInv', [Next]_vars, ~SetupCanFail
  PROVE  [Registry!Next]_([i \in Slots |-> IF Live(i) THEN names[i] ELSE NoName])
<1> DEFINE reg == [i \in Slots |-> IF Live(i) THEN names[i] ELSE NoName]
<1> USE ServerClientsAssumption DEF TableInv, TypeOK, PcOK, LiveNamed
<1>1. CASE Rests
  <2>1. reg' = reg
    BY <1>1 DEF Rests
  <2> QED
    BY <2>1
<1>2. ASSUME NEW i \in Slots, Drops(i)
      PROVE  [Registry!Next]_reg
  <2>1. reg' = [reg EXCEPT ![i] = NoName]
    BY <1>2 DEF Drops, Live, DISCONNECTED, INITIALIZED, CONNECTED
  <2>2. CASE Live(i)
    <3>1. reg[i] # NoName
      BY <2>2
    <3> QED
      BY <2>1, <3>1 DEF Registry!Next, Registry!Drop
  <2>3. CASE ~Live(i)
    <3>1. reg' = reg
      BY <2>1, <2>3
    <3> QED
      BY <3>1
  <2> QED
    BY <2>2, <2>3
<1>3. CASE RequestThread /\ ~ActivateSlot
  <2>1. /\ state' = state
        /\ \A i \in Slots : Live(i) => names'[i] = names[i]
    BY <1>3 DEF RequestThread, TakeRequest, FindSlot, OpenPipe, OpenTimeout,
         RemoveFailedFifo, SaveName, ChosenSlotFree, tableVars
  <2>2. reg' = reg
    BY <2>1 DEF Live
  <2> QED
    BY <2>2
<1>4. CASE ActivateSlot
  <2>1. PICK i \in Slots, x \in Clients : i = cur["req"] /\ x = handling["req"]
    BY <1>4 DEF ActivateSlot
  <2>2. ~Live(i) /\ names[i] = x
    BY <1>4, <2>1 DEF ActivateSlot, ChosenSlotFree
  <2>3. names' = names /\ \A j \in Slots : Live(j)' <=> (Live(j) \/ j = i)
    BY <1>4, <2>1, <2>2 DEF ActivateSlot, Live, INITIALIZED, CONNECTED
  <2>4. reg' = [reg EXCEPT ![i] = x]
    <3>1. ASSUME NEW j \in Slots
          PROVE  reg'[j] = IF j = i THEN x ELSE reg[j]
      BY <2>2, <2>3
    <3> QED
      BY <3>1
  <2>5. reg[i] = NoName /\ \A j \in Slots : reg[j] # x
    BY <1>4, <2>1, <2>2 DEF ActivateSlot, NameInv, AddedNameFresh
  <2>6. Registry!Add(i, x)
    BY <2>4, <2>5 DEF Registry!Add
  <2> QED
    BY <2>6, AddIsStep
<1> QED
  BY <1>1, <1>2, <1>3, <1>4, StepKinds

(* A client id keeps its client from CLIENT_INITIALIZED to                 *)
(* CLIENT_DISCONNECTED: Spec implements the abstract register.             *)
THEOREM ImplementsRegistry == ASSUME ~SetupCanFail PROVE Spec => RegistrySpec
<1>1. Init => Registry!Init
  BY DEF Init, Registry!Init, Live, UNINITIALIZED, INITIALIZED, CONNECTED
<1>2. TableInv /\ NameInv /\ TableInv' /\ [Next]_vars
        => [Registry!Next]_([i \in Slots |-> IF Live(i) THEN names[i] ELSE NoName])
  BY StepRegisters
<1> QED
  BY <1>1, <1>2, TableInvariant, NameInvariant, PTL DEF Spec, RegistrySpec, Registry!Spec
=============================================================================
