------------------------- MODULE ServerChannelsProofs -------------------------
(***************************************************************************)
(* For any number of threads, channels, directories and listeners: types   *)
(* and who holds which mutex, without any assumption; the directories and  *)
(* their files, if creates do not overlap; claims, clean channels and      *)
(* listeners, if threads keep to the numbers they have been given or have  *)
(* of their own and close their own channels only; and, under both         *)
(* assumptions, that the channels implement the register of                *)
(* ChannelRegister.                                                        *)
(***************************************************************************)
EXTENDS ServerChannels, TLAPS

\* The types, by the part of the program that changes them.
CallTypes ==
  /\ pc \in [Threads -> {"idle"} \union CreateStates \union CloseStates]
  /\ target \in [Threads -> Channels \union {NoChannel}]
  /\ \A t \in Threads : pc[t] = "idle" <=> target[t] = NoChannel
  /\ wanted \in [Threads -> Dirs \union {NoDir}]
  /\ \A t \in Threads : pc[t] \in CreateStates => wanted[t] \in Dirs
  /\ old_claim \in [Threads -> BOOLEAN]
  /\ owner \in [Channels -> Threads \union {NoThread}]
  /\ lost \subseteq Channels
  /\ claimed \in [Channels -> BOOLEAN]

ChanTypes ==
  /\ running \in [Channels -> BOOLEAN]
  /\ base_dir \in [Channels -> Dirs \union {NoDir}]
  /\ request_thread \in [Channels -> Listeners \union {NoListener}]
  /\ has_clients \in [Channels -> BOOLEAN]
  /\ header \in [Channels -> {"null", "valid", "freed"}]
  /\ files \subseteq Dirs

ListTypes ==
  /\ lpc \in [Listeners -> ListStates]
  /\ lch \in [Listeners -> Channels \union {NoChannel}]
  /\ \A l \in Listeners : lpc[l] = "none" <=> lch[l] = NoChannel
  /\ stragglers \subseteq Listeners

\* A thread has the mutex of its channel exactly in these states, and a
\* listener while it adds a client.
Held == {"setdir", "make", "wipe", "undo", "join", "remove", "clean"}

MutexInv ==
  /\ mtx \in [Channels -> Threads \union Listeners \union {NoThread}]
  /\ \A t \in Threads : pc[t] \in Held => mtx[target[t]] = t
  /\ \A ch \in Channels, t \in Threads :
       mtx[ch] = t => target[t] = ch /\ pc[t] \in Held
  /\ \A l \in Listeners : lpc[l] = "adding" => mtx[lch[l]] = l

Types == CallTypes /\ ChanTypes /\ ListTypes

\* TypeOK follows, now and after a step.
LEMMA TypeParts == Types /\ MutexInv => TypeOK
BY DEF TypeOK, Types, CallTypes, ChanTypes, ListTypes, MutexInv

USE ChannelsAssumption
USE DEF CreateStates, CloseStates, ListStates

\* The initial state is of the types, and every mutex is free.
LEMMA TypesInit == Init => Types /\ MutexInv
BY DEF Init, Types, CallTypes, ChanTypes, ListTypes, MutexInv, Held

\* Every step keeps the types of the calls and claims.
LEMMA CallTypesStep == CallTypes /\ [Next]_vars => CallTypes'
<1> SUFFICES ASSUME CallTypes, [Next]_vars PROVE CallTypes'
  OBVIOUS
<1> USE DEF CallTypes, Goto, Returns, GivesBack, LeavesChannel, callVars
<1>1. ASSUME NEW t \in Threads, GetNext(t) \/ SaveHeader(t) PROVE CallTypes'
  <2>1. CASE GetNext(t)
    <3>1. PICK ch \in Channels : /\ claimed' = [claimed EXCEPT ![ch] = TRUE]
                                 /\ owner' = [owner EXCEPT ![ch] = t]
      BY <2>1 DEF GetNext
    <3> QED BY <2>1, <3>1 DEF GetNext
  <2>2. CASE SaveHeader(t)
    BY <2>2 DEF SaveHeader
  <2> QED BY <1>1, <2>1, <2>2
<1>2. ASSUME NEW t \in Threads, Create(t) PROVE CallTypes'
  <2>1. PICK ch \in Channels, d \in Dirs :
          target' = [target EXCEPT ![t] = ch] /\ wanted' = [wanted EXCEPT ![t] = d]
    BY <1>2 DEF Create, MayCreate
  <2> QED BY <1>2, <2>1 DEF Create
<1>3. ASSUME NEW t \in Threads, Close(t) PROVE CallTypes'
  BY <1>3 DEF Close
<1>4. ASSUME NEW t \in Threads, ClaimForCreate(t) PROVE CallTypes'
  <2>1. target[t] \in Channels
    BY <1>4 DEF ClaimForCreate
  <2>2. /\ claimed' \in [Channels -> BOOLEAN] /\ lost' = lost
        /\ owner' \in [Channels -> Threads \union {NoThread}]
    BY <1>4, <2>1 DEF ClaimForCreate
  <2>3. CASE running[target[t]]
    <3>1. /\ pc' = [pc EXCEPT ![t] = "idle"]
          /\ target' = [target EXCEPT ![t] = NoChannel]
          /\ wanted' = [wanted EXCEPT ![t] = NoDir]
          /\ old_claim' = [old_claim EXCEPT ![t] = FALSE]
      BY <1>4, <2>3 DEF ClaimForCreate
    <3> QED BY <2>2, <3>1
  <2>4. CASE ~running[target[t]]
    <3>1. /\ pc' = [pc EXCEPT ![t] = "lock"]
          /\ old_claim' = [old_claim EXCEPT ![t] = claimed[target[t]]]
          /\ target' = target /\ wanted' = wanted /\ pc[t] = "claim"
      BY <1>4, <2>4 DEF ClaimForCreate
    <3>2. old_claim' \in [Threads -> BOOLEAN]
      BY <2>1, <3>1
    <3> QED BY <2>1, <2>2, <3>1, <3>2
  <2> QED BY <2>3, <2>4
<1>5. ASSUME NEW t \in Threads, LockForCreate(t) \/ SetDir(t) PROVE CallTypes'
  BY <1>5 DEF LockForCreate, SetDir
<1>6. ASSUME NEW t \in Threads, MakeFiles(t) PROVE CallTypes'
  BY <1>6 DEF MakeFiles
<1>7. ASSUME NEW t \in Threads, MakeFails(t) PROVE CallTypes'
  BY <1>7 DEF MakeFails
<1>8. ASSUME NEW t \in Threads, KeepClaim(t) PROVE CallTypes'
  BY <1>8 DEF KeepClaim
<1>9. ASSUME NEW t \in Threads, UndoClaim(t) \/ RefuseInfo(t) PROVE CallTypes'
  <2>1. claimed' \in [Channels -> BOOLEAN]
    BY <1>9 DEF UndoClaim, RefuseInfo
  <2>2. owner' \in [Channels -> Threads \union {NoThread}]
    BY <1>9 DEF UndoClaim, RefuseInfo
  <2>3. /\ pc' = [pc EXCEPT ![t] = "idle"]
        /\ target' = [target EXCEPT ![t] = NoChannel]
        /\ wanted' = [wanted EXCEPT ![t] = NoDir]
        /\ old_claim' = [old_claim EXCEPT ![t] = FALSE]
        /\ lost' = lost
    BY <1>9 DEF UndoClaim, RefuseInfo
  <2> QED BY <2>1, <2>2, <2>3
<1>10. ASSUME NEW t \in Threads,
              StopListener(t) \/ JoinListener(t) \/ RemoveFiles(t) \/ Wipe(t)
       PROVE  CallTypes'
  BY <1>10 DEF StopListener, JoinListener, RemoveFiles, Wipe
<1>11. ASSUME NEW t \in Threads, Unclaim(t) PROVE CallTypes'
  BY <1>11 DEF Unclaim
<1>12. ASSUME NEW l \in Listeners, ReadRequest(l) \/ ListenerStep(l) PROVE CallTypes'
  BY <1>12 DEF ReadRequest, ListenerStep, ListenerLoops, LockToAdd, AddClient, AddFails
<1>13. CASE UNCHANGED vars
  BY <1>13 DEF vars
<1> QED
  BY <1>1, <1>2, <1>3, <1>4, <1>5, <1>6, <1>7, <1>8, <1>9, <1>10, <1>11, <1>12,
     <1>13 DEF Next, CallStep

\* Every step keeps the types of the listeners.
LEMMA ListTypesStep == Types /\ [Next]_vars => ListTypes'
<1> SUFFICES ASSUME Types, [Next]_vars PROVE ListTypes'
  OBVIOUS
<1>p. CallTypes /\ ChanTypes /\ ListTypes
  BY DEF Types
<1> USE DEF ListTypes, LGoto, LEnds, GivesBack, LeavesChannel, listVars
<1>1. ASSUME NEW t \in Threads,
             GetNext(t) \/ SaveHeader(t) \/ Create(t) \/ Close(t) \/ ClaimForCreate(t)
             \/ LockForCreate(t) \/ SetDir(t)
      PROVE  ListTypes'
  BY <1>1, <1>p DEF GetNext, SaveHeader, Create, Close, ClaimForCreate, LockForCreate,
     SetDir
<1>2. ASSUME NEW t \in Threads, MakeFiles(t) PROVE ListTypes'
  BY <1>2, <1>p DEF MakeFiles, CallTypes
<1>3. ASSUME NEW t \in Threads,
             MakeFails(t) \/ KeepClaim(t) \/ UndoClaim(t) \/ RefuseInfo(t)
             \/ RemoveFiles(t) \/ Wipe(t) \/ Unclaim(t)
      PROVE  ListTypes'
  BY <1>3, <1>p DEF MakeFails, KeepClaim, UndoClaim, RefuseInfo, RemoveFiles, Wipe, Unclaim
<1>4. ASSUME NEW t \in Threads, StopListener(t) PROVE ListTypes'
  BY <1>4, <1>p DEF StopListener
<1>5. ASSUME NEW t \in Threads, JoinListener(t) PROVE ListTypes'
  <2>1. request_thread[target[t]] \in Listeners \union {NoListener}
    BY <1>5, <1>p DEF JoinListener, CallTypes, ChanTypes
  <2> QED BY <1>5, <1>p, <2>1 DEF JoinListener
<1>6. ASSUME NEW l \in Listeners, ReadRequest(l) PROVE ListTypes'
  BY <1>6, <1>p DEF ReadRequest
<1>7. ASSUME NEW l \in Listeners, ListenerLoops(l) PROVE ListTypes'
  BY <1>7, <1>p DEF ListenerLoops
<1>8. ASSUME NEW l \in Listeners, LockToAdd(l) \/ AddClient(l) \/ AddFails(l)
      PROVE  ListTypes'
  BY <1>8, <1>p DEF LockToAdd, AddClient, AddFails
<1>9. CASE UNCHANGED vars
  BY <1>9, <1>p DEF vars
<1> QED
  BY <1>1, <1>2, <1>3, <1>4, <1>5, <1>6, <1>7, <1>8, <1>9 DEF Next, CallStep,
     ListenerStep

\* Every step keeps the types of the channels.
LEMMA ChanTypesStep == Types /\ [Next]_vars => ChanTypes'
<1> SUFFICES ASSUME Types, [Next]_vars PROVE ChanTypes'
  OBVIOUS
<1>p. CallTypes /\ ChanTypes /\ ListTypes
  BY DEF Types
<1> USE DEF ChanTypes, GivesBack, LeavesChannel, chanVars
<1>1. ASSUME NEW t \in Threads,
             GetNext(t) \/ SaveHeader(t) \/ Create(t) \/ Close(t) \/ ClaimForCreate(t)
             \/ LockForCreate(t)
      PROVE  ChanTypes'
  BY <1>1, <1>p DEF GetNext, SaveHeader, Create, Close, ClaimForCreate, LockForCreate
<1>2. ASSUME NEW t \in Threads, SetDir(t) \/ MakeFiles(t) PROVE ChanTypes'
  <2>1. target[t] \in Channels /\ wanted[t] \in Dirs
    BY <1>2, <1>p DEF SetDir, MakeFiles, CallTypes
  <2>2. CASE SetDir(t)
    BY <2>1, <2>2, <1>p DEF SetDir
  <2>3. CASE MakeFiles(t)
    <3>1. PICK l \in Listeners :
            request_thread' = [request_thread EXCEPT ![target[t]] = l]
      BY <2>3 DEF MakeFiles
    <3> QED BY <2>1, <2>3, <3>1, <1>p DEF MakeFiles
  <2> QED BY <1>2, <2>2, <2>3
<1>3. ASSUME NEW t \in Threads, MakeFails(t) PROVE ChanTypes'
  <2>1. target[t] \in Channels
    BY <1>3, <1>p DEF MakeFails, CallTypes
  <2>2. header[target[t]] \in {"null", "valid", "freed"}
    BY <2>1, <1>p
  <2>3. header' \in [Channels -> {"null", "valid", "freed"}]
    BY <1>3, <1>p, <2>1, <2>2 DEF MakeFails
  <2>4. files' \subseteq Dirs
    BY <1>3, <1>p DEF MakeFails, CallTypes
  <2> QED BY <1>3, <1>p, <2>1, <2>3, <2>4 DEF MakeFails
<1>4. ASSUME NEW t \in Threads,
             KeepClaim(t) \/ UndoClaim(t) \/ RefuseInfo(t) \/ Unclaim(t)
             \/ JoinListener(t) \/ RemoveFiles(t)
      PROVE  ChanTypes'
  BY <1>4, <1>p DEF KeepClaim, UndoClaim, RefuseInfo, Unclaim, JoinListener, RemoveFiles
<1>5. ASSUME NEW t \in Threads, StopListener(t) PROVE ChanTypes'
  BY <1>5, <1>p DEF StopListener
<1>6. ASSUME NEW t \in Threads, Wipe(t) PROVE ChanTypes'
  <2>1. target[t] \in Channels
    BY <1>6, <1>p DEF Wipe, CallTypes
  <2>2. header[target[t]] \in {"null", "valid", "freed"}
    BY <2>1, <1>p
  <2>3. header' \in [Channels -> {"null", "valid", "freed"}]
    BY <1>6, <1>p, <2>1, <2>2 DEF Wipe
  <2> QED BY <1>6, <1>p, <2>1, <2>3 DEF Wipe
<1>7. ASSUME NEW l \in Listeners, ReadRequest(l) \/ ListenerStep(l) PROVE ChanTypes'
  BY <1>7, <1>p DEF ReadRequest, ListenerStep, ListenerLoops, LockToAdd, AddClient,
     AddFails
<1>8. CASE UNCHANGED vars
  BY <1>8, <1>p DEF vars
<1> QED
  BY <1>1, <1>2, <1>3, <1>4, <1>5, <1>6, <1>7, <1>8 DEF Next, CallStep

\* Every step keeps who holds which mutex.
LEMMA MutexStep == Types /\ MutexInv /\ [Next]_vars => MutexInv'
<1> SUFFICES ASSUME Types, MutexInv, [Next]_vars PROVE MutexInv'
  OBVIOUS
<1>p. CallTypes /\ ListTypes
  BY DEF Types
<1> USE <1>p DEF MutexInv, Held, Goto, Returns, GivesBack, LeavesChannel, Lock, Unlock,
                 LGoto, LEnds, callVars, listVars, CallTypes, ListTypes
<1>1. ASSUME NEW t \in Threads, GetNext(t) \/ SaveHeader(t) PROVE MutexInv'
  BY <1>1 DEF GetNext, SaveHeader
<1>2. ASSUME NEW t \in Threads, Create(t) \/ Close(t) PROVE MutexInv'
  <2>1. \A ch \in Channels : mtx[ch] # t
    BY <1>2 DEF Create, Close
  <2>2. /\ \A u \in Threads \ {t} : pc'[u] = pc[u] /\ target'[u] = target[u]
        /\ pc'[t] \in {"claim", "close"}
        /\ mtx' = mtx /\ lpc' = lpc /\ lch' = lch
    BY <1>2 DEF Create, Close
  <2> QED BY <2>1, <2>2
<1>3. ASSUME NEW t \in Threads, ClaimForCreate(t) \/ RefuseInfo(t) \/ Unclaim(t)
      PROVE  MutexInv'
  <2>1. \A ch \in Channels : mtx[ch] # t
    BY <1>3 DEF ClaimForCreate, RefuseInfo, Unclaim
  <2>2. /\ \A u \in Threads \ {t} : pc'[u] = pc[u] /\ target'[u] = target[u]
        /\ pc'[t] \in {"lock", "idle"}
        /\ mtx' = mtx /\ lpc' = lpc /\ lch' = lch
    BY <1>3 DEF ClaimForCreate, RefuseInfo, Unclaim
  <2> QED BY <2>1, <2>2
<1>4. ASSUME NEW t \in Threads, LockForCreate(t) \/ StopListener(t) PROVE MutexInv'
  <2>1. /\ \A u \in Threads \ {t} : pc'[u] = pc[u]
        /\ pc'[t] \in {"undo", "setdir", "join"}
        /\ target' = target /\ target[t] \in Channels
        /\ mtx[target[t]] = NoThread
        /\ mtx' = [mtx EXCEPT ![target[t]] = t]
    BY <1>4 DEF LockForCreate, StopListener
  <2>2. \A l \in Listeners : lpc'[l] = "adding" => lpc[l] = "adding" /\ lch'[l] = lch[l]
    BY <1>4 DEF LockForCreate, StopListener
  <2> QED BY <2>1, <2>2
<1>5. ASSUME NEW t \in Threads, SetDir(t) \/ MakeFails(t) PROVE MutexInv'
  BY <1>5 DEF SetDir, MakeFails
<1>6. ASSUME NEW t \in Threads,
             MakeFiles(t) \/ KeepClaim(t) \/ UndoClaim(t) \/ Wipe(t)
      PROVE  MutexInv'
  <2>1. /\ pc[t] \in Held /\ target[t] \in Channels /\ mtx[target[t]] = t
        /\ \A u \in Threads \ {t} : pc'[u] = pc[u] /\ target'[u] = target[u]
        /\ pc'[t] \in {"idle", "unclaim"}
        /\ mtx' = [mtx EXCEPT ![target[t]] = NoThread]
    BY <1>6 DEF MakeFiles, KeepClaim, UndoClaim, Wipe
  <2>2. \A l \in Listeners : lpc'[l] = "adding" => lpc[l] = "adding" /\ lch'[l] = lch[l]
    BY <1>6 DEF MakeFiles, KeepClaim, UndoClaim, Wipe
  <2>3. \A ch \in Channels : ch # target[t] => mtx[ch] # t
    BY <2>1
  <2> QED BY <2>1, <2>2, <2>3
<1>7. ASSUME NEW t \in Threads, JoinListener(t) \/ RemoveFiles(t) PROVE MutexInv'
  BY <1>7 DEF JoinListener, RemoveFiles
<1>8. ASSUME NEW l \in Listeners, ListenerLoops(l) \/ ReadRequest(l) PROVE MutexInv'
  <2>1. \A k \in Listeners : lpc'[k] = "adding" => lpc[k] = "adding" /\ lch'[k] = lch[k]
    BY <1>8 DEF ListenerLoops, ReadRequest
  <2> QED BY <1>8, <2>1 DEF ListenerLoops, ReadRequest
<1>9. ASSUME NEW l \in Listeners, LockToAdd(l) PROVE MutexInv'
  BY <1>9 DEF LockToAdd
<1>10. ASSUME NEW l \in Listeners, AddClient(l) \/ AddFails(l) PROVE MutexInv'
  BY <1>10 DEF AddClient, AddFails
<1>11. CASE UNCHANGED vars
  BY <1>11 DEF vars
<1> QED
  BY <1>1, <1>2, <1>3, <1>4, <1>5, <1>6, <1>7, <1>8, <1>9, <1>10, <1>11
     DEF Next, CallStep, ListenerStep

\* Types and mutexes throughout.
LEMMA TypesInvariant == Spec => [](Types /\ MutexInv)
<1>1. Types /\ MutexInv /\ [Next]_vars => (Types /\ MutexInv)'
  BY CallTypesStep, ListTypesStep, ChanTypesStep, MutexStep DEF Types
<1> QED
  BY TypesInit, <1>1, PTL DEF Spec

\* The types, and no thread holds the mutex of a channel it is not working on
\* (pipe_server_create, pipe_server_close, _add_client).
THEOREM TypeCorrect == Spec => []TypeOK
BY TypesInvariant, TypeParts, PTL

(* ------------------------------ directories ---------------------------- *)

\* A create that has looked at the directories of the others still has the
\* only claim on its own, on a channel that does not run.
CreatesAlone ==
  \A t, u \in Threads : pc[t] \in CreateStates /\ pc[u] \in CreateStates => t = u

DirIsFree ==
  \A t \in Threads :
    pc[t] = "setdir" => \A ch \in Channels : base_dir[ch] # wanted[t]

DirIsSet ==
  \A t \in Threads : pc[t] = "make" => base_dir[target[t]] = wanted[t]

Stopped ==
  \A t \in Threads :
    pc[t] \in {"lock", "setdir", "make", "wipe", "undo", "join", "remove", "clean"}
      => ~running[target[t]]

DirInv ==
  CreatesAlone /\ DirIsFree /\ DirIsSet /\ Stopped /\ DirsExclusive /\ FilesInPlace

\* Initially no channel has a directory.
LEMMA DirInit == Init => DirInv
BY DEF Init, DirInv, CreatesAlone, DirIsFree, DirIsSet, Stopped, DirsExclusive,
       FilesInPlace

\* Every step keeps the invariant, if creates do not overlap.
LEMMA DirStep ==
  ASSUME CreatesApart, Types, MutexInv, DirInv, [Next]_vars
  PROVE  DirInv'
<1>p. CallTypes /\ ChanTypes /\ ListTypes
  BY DEF Types
<1> USE <1>p DEF CallTypes, MutexInv, Held, DirInv, CreatesAlone, DirIsFree, DirIsSet,
                 Stopped, DirsExclusive, FilesInPlace, Goto, Returns, GivesBack,
                 LeavesChannel, callVars, chanVars
<1>1. ASSUME NEW t \in Threads, GetNext(t) \/ SaveHeader(t) PROVE DirInv'
  BY <1>1 DEF GetNext, SaveHeader
<1>2. ASSUME NEW t \in Threads, Create(t) PROVE DirInv'
  BY <1>2 DEF Create
<1>3. ASSUME NEW t \in Threads, Close(t) PROVE DirInv'
  BY <1>3 DEF Close
<1>4. ASSUME NEW t \in Threads, ClaimForCreate(t) PROVE DirInv'
  BY <1>4 DEF ClaimForCreate
<1>5. ASSUME NEW t \in Threads, LockForCreate(t) PROVE DirInv'
  BY <1>5 DEF LockForCreate, InUse
<1>6. ASSUME NEW t \in Threads, SetDir(t) PROVE DirInv'
  BY <1>6 DEF SetDir, ChanTypes
<1>7. ASSUME NEW t \in Threads, MakeFiles(t) PROVE DirInv'
  BY <1>7 DEF MakeFiles, ChanTypes
<1>8. ASSUME NEW t \in Threads, MakeFails(t) PROVE DirInv'
  BY <1>8 DEF MakeFails, ChanTypes
<1>9. ASSUME NEW t \in Threads,
             KeepClaim(t) \/ UndoClaim(t) \/ RefuseInfo(t) \/ Unclaim(t)
      PROVE  DirInv'
  BY <1>9 DEF KeepClaim, UndoClaim, RefuseInfo, Unclaim
<1>10. ASSUME NEW t \in Threads, StopListener(t) PROVE DirInv'
  BY <1>10 DEF StopListener, ChanTypes
<1>11. ASSUME NEW t \in Threads, JoinListener(t) PROVE DirInv'
  BY <1>11 DEF JoinListener
<1>12. ASSUME NEW t \in Threads, RemoveFiles(t) PROVE DirInv'
  BY <1>12 DEF RemoveFiles, ChanTypes
<1>13. ASSUME NEW t \in Threads, Wipe(t) PROVE DirInv'
  BY <1>13 DEF Wipe, ChanTypes
<1>14. ASSUME NEW l \in Listeners, ReadRequest(l) \/ ListenerStep(l) PROVE DirInv'
  BY <1>14 DEF ReadRequest, ListenerStep, ListenerLoops, LockToAdd, AddClient, AddFails
<1>15. CASE UNCHANGED vars
  BY <1>15 DEF vars
<1> QED
  BY <1>1, <1>2, <1>3, <1>4, <1>5, <1>6, <1>7, <1>8, <1>9, <1>10, <1>11, <1>12,
     <1>13, <1>14, <1>15 DEF Next, CallStep

\* The invariant holds throughout.
LEMMA DirInvariant == ASSUME CreatesApart PROVE Spec => []DirInv
<1>1. Types /\ MutexInv /\ DirInv /\ [Next]_vars => DirInv'
  BY DirStep
<1> QED
  BY DirInit, TypesInvariant, <1>1, PTL DEF Spec

\* If creates do not overlap no two channels use one directory: the look at
\* the other channels without their mutexes is enough (server.c 523-533).
THEOREM DirsAreExclusive == ASSUME CreatesApart PROVE Spec => []DirsExclusive
BY DirInvariant, PTL DEF DirInv

\* If creates do not overlap, the directory of a channel that runs is there,
\* whatever other channels are closed or fail to be created meanwhile.
THEOREM FilesStay == ASSUME CreatesApart PROVE Spec => []FilesInPlace
BY DirInvariant, PTL DEF DirInv

(* -------------------------- claims and listeners ----------------------- *)

\* Threads keep to the channel numbers they are given and those of their own,
\* which are nobody else's, and close what they created.
Polite ==
  /\ NumbersApart
  /\ \A t, u \in Threads : t # u => Fixed[t] \intersect Fixed[u] = {}
  /\ ~AnyoneCloses

\* No number of a thread is in the hands of another one.
OwnNumbers ==
  \A t, u \in Threads, ch \in Channels : owner[ch] = t /\ ch \in Fixed[u] => t = u

\* A call works on a channel its thread holds; until it is claimed, a create
\* may work on a number of the thread that nobody holds.
HoldsTarget ==
  \A t \in Threads :
    /\ pc[t] \notin {"idle", "claim"} => owner[target[t]] = t
    /\ pc[t] = "claim" =>
         \/ owner[target[t]] = t
         \/ owner[target[t]] = NoThread /\ target[t] \in Fixed[t]

Clean(ch) ==
  /\ ~running[ch] /\ base_dir[ch] = NoDir
  /\ ~has_clients[ch] /\ request_thread[ch] = NoListener

\* A create that made the claim itself found the channel clean, and has added
\* no more than the directory when it fails ...
FreshIsClean ==
  \A t \in Threads :
    pc[t] \in {"lock", "setdir", "make", "wipe", "undo"} /\ ~old_claim[t] =>
      /\ target[t] \notin lost /\ ~running[target[t]]
      /\ ~has_clients[target[t]] /\ request_thread[target[t]] = NoListener
      /\ pc[t] # "make" => base_dir[target[t]] = NoDir

\* ... and what a close has wiped stays clean until it gives the channel back.
WipedStaysClean == \A t \in Threads : pc[t] = "unclaim" => Clean(target[t])

ClaimInv ==
  /\ OwnNumbers /\ HoldsTarget /\ ClaimsHaveOwners
  /\ FreshIsClean /\ WipedStaysClean /\ UnclaimedIsClean

\* Initially nothing is claimed.
LEMMA ClaimInit == Init => ClaimInv
BY DEF Init, ClaimInv, OwnNumbers, HoldsTarget, ClaimsHaveOwners, FreshIsClean,
       WipedStaysClean, UnclaimedIsClean, Clean

\* Every step keeps the invariant, if threads are polite.
LEMMA ClaimStep ==
  ASSUME Polite, Types, MutexInv, ClaimInv, [Next]_vars
  PROVE  ClaimInv'
<1>p. CallTypes /\ ChanTypes /\ ListTypes
  BY DEF Types
<1> USE <1>p DEF CallTypes, ClaimInv, OwnNumbers, HoldsTarget, ClaimsHaveOwners,
                 FreshIsClean, WipedStaysClean, UnclaimedIsClean, Clean, Goto, Returns,
                 GivesBack, LeavesChannel, callVars, chanVars
<1>1. ASSUME NEW t \in Threads, GetNext(t) \/ SaveHeader(t) PROVE ClaimInv'
  <2>1. CASE GetNext(t)
    <3>1. PICK ch \in Channels : /\ ~claimed[ch] /\ \A u \in Threads : ch \notin Fixed[u]
                                 /\ claimed' = [claimed EXCEPT ![ch] = TRUE]
                                 /\ owner' = [owner EXCEPT ![ch] = t]
      BY <2>1 DEF GetNext, Polite
    <3>2. owner[ch] = NoThread
      BY <3>1
    <3> QED BY <2>1, <3>1, <3>2 DEF GetNext
  <2>2. CASE SaveHeader(t)
    BY <2>2 DEF SaveHeader
  <2> QED BY <1>1, <2>1, <2>2
<1>2. ASSUME NEW t \in Threads, Create(t) PROVE ClaimInv'
  <2>1. PICK ch \in Channels :
          /\ owner[ch] = t \/ ch \in Fixed[t]
          /\ target' = [target EXCEPT ![t] = ch]
    BY <1>2 DEF Create, MayCreate
  <2>2. owner[ch] = t \/ (owner[ch] = NoThread /\ ch \in Fixed[t])
    BY <2>1
  <2> QED BY <1>2, <2>1, <2>2 DEF Create
<1>3. ASSUME NEW t \in Threads, Close(t) PROVE ClaimInv'
  BY <1>3 DEF Close, Polite
<1>4. ASSUME NEW t \in Threads, ClaimForCreate(t) PROVE ClaimInv'
  <2> DEFINE ch == target[t]
  <2>1. ch \in Channels /\ pc[t] = "claim"
    BY <1>4 DEF ClaimForCreate
  <2>2. /\ claimed' = [claimed EXCEPT ![ch] = TRUE]
        /\ owner' = [owner EXCEPT ![ch] = t]
    BY <1>4, <2>1 DEF ClaimForCreate
  <2>3. \A u \in Threads \ {t} : pc[u] # "idle" => target[u] # ch
    BY <2>1 DEF Polite
  <2>4. OwnNumbers'
    BY <2>1, <2>2 DEF Polite
  <2>5. ~claimed[ch] => Clean(ch) /\ ch \notin lost
    BY <2>1
  <2>6. CASE running[ch]
    <3>1. ClaimsHaveOwners' /\ UnclaimedIsClean'
      BY <1>4, <2>1, <2>2 DEF ClaimForCreate
    <3>2. HoldsTarget' /\ FreshIsClean' /\ WipedStaysClean'
      BY <1>4, <2>1, <2>2, <2>3, <2>6 DEF ClaimForCreate
    <3> QED BY <2>4, <3>1, <3>2
  <2>7. CASE ~running[ch]
    <3>1. ClaimsHaveOwners' /\ UnclaimedIsClean'
      BY <1>4, <2>1, <2>2 DEF ClaimForCreate
    <3>2. HoldsTarget' /\ FreshIsClean' /\ WipedStaysClean'
      BY <1>4, <2>1, <2>2, <2>3, <2>5, <2>7 DEF ClaimForCreate
    <3> QED BY <2>4, <3>1, <3>2
  <2> QED BY <2>6, <2>7
<1>5. ASSUME NEW t \in Threads, LockForCreate(t) PROVE ClaimInv'
  BY <1>5 DEF LockForCreate
<1>6. ASSUME NEW t \in Threads, SetDir(t) PROVE ClaimInv'
  BY <1>6 DEF SetDir, ChanTypes
<1>7. ASSUME NEW t \in Threads, MakeFiles(t) PROVE ClaimInv'
  BY <1>7 DEF MakeFiles, ChanTypes
<1>8. ASSUME NEW t \in Threads, MakeFails(t) PROVE ClaimInv'
  BY <1>8 DEF MakeFails, ChanTypes
<1>9. ASSUME NEW t \in Threads, KeepClaim(t) PROVE ClaimInv'
  BY <1>9 DEF KeepClaim
<1>10. ASSUME NEW t \in Threads, UndoClaim(t) \/ RefuseInfo(t) PROVE ClaimInv'
  <2> DEFINE ch == target[t]
             kept == old_claim[t] /\ ch \notin lost
  <2>1. /\ ch \in Channels /\ pc[t] \in {"lock", "undo"}
        /\ owner[ch] = t /\ claimed[ch]
    BY <1>10 DEF UndoClaim, RefuseInfo
  <2>2. /\ claimed' = [claimed EXCEPT ![ch] = old_claim[t]]
        /\ owner' = [owner EXCEPT ![ch] = IF kept THEN t ELSE NoThread]
        /\ pc' = [pc EXCEPT ![t] = "idle"]
        /\ target' = [target EXCEPT ![t] = NoChannel]
        /\ old_claim' = [old_claim EXCEPT ![t] = FALSE]
        /\ UNCHANGED <<lost, chanVars>>
    BY <1>10, <2>1 DEF UndoClaim, RefuseInfo
  <2>3. \A u \in Threads \ {t} : pc[u] # "idle" => target[u] # ch
    BY <2>1 DEF Polite
  <2>4. ClaimsHaveOwners'
    BY <2>1, <2>2
  <2>5. OwnNumbers' /\ HoldsTarget'
    BY <2>1, <2>2, <2>3
  <2>6. FreshIsClean' /\ WipedStaysClean' /\ UnclaimedIsClean'
    BY <2>1, <2>2, <2>3
  <2> QED BY <2>4, <2>5, <2>6
<1>11. ASSUME NEW t \in Threads, Unclaim(t) PROVE ClaimInv'
  BY <1>11 DEF Unclaim
<1>12. ASSUME NEW t \in Threads, StopListener(t) PROVE ClaimInv'
  BY <1>12 DEF StopListener, ChanTypes
<1>13. ASSUME NEW t \in Threads, JoinListener(t) \/ RemoveFiles(t) PROVE ClaimInv'
  BY <1>13 DEF JoinListener, RemoveFiles
<1>14. ASSUME NEW t \in Threads, Wipe(t) PROVE ClaimInv'
  BY <1>14 DEF Wipe, ChanTypes
<1>15. ASSUME NEW l \in Listeners, AddClient(l) PROVE ClaimInv'
  <2>1. lch[l] \in Channels /\ base_dir[lch[l]] # NoDir
    BY <1>15 DEF AddClient, ChanTypes, ListTypes
  <2>2. has_clients' = [has_clients EXCEPT ![lch[l]] = TRUE]
    BY <1>15 DEF AddClient
  <2>3. \A t \in Threads : pc[t] \in Held => target[t] # lch[l]
    BY <1>15 DEF AddClient, MutexInv, ListTypes
  <2>4. FreshIsClean'
    BY <1>15, <2>1, <2>2, <2>3 DEF AddClient, ChanTypes, Held
  <2> QED BY <1>15, <2>1, <2>2, <2>4 DEF AddClient, ChanTypes
<1>16. ASSUME NEW l \in Listeners,
              ReadRequest(l) \/ ListenerLoops(l) \/ LockToAdd(l) \/ AddFails(l)
       PROVE  ClaimInv'
  BY <1>16 DEF ReadRequest, ListenerLoops, LockToAdd, AddFails
<1>17. CASE UNCHANGED vars
  BY <1>17 DEF vars
<1> QED
  BY <1>1, <1>2, <1>3, <1>4, <1>5, <1>6, <1>7, <1>8, <1>9, <1>10, <1>11, <1>12,
     <1>13, <1>14, <1>15, <1>16, <1>17 DEF Next, CallStep, ListenerStep

\* The invariant holds throughout.
LEMMA ClaimInvariant == ASSUME Polite PROVE Spec => []ClaimInv
<1>1. Types /\ MutexInv /\ ClaimInv /\ [Next]_vars => ClaimInv'
  BY ClaimStep
<1> QED
  BY ClaimInit, TypesInvariant, <1>1, PTL DEF Spec

\* If threads keep to their channel numbers and close their own, a channel that
\* can be claimed is clean, even if a listener of its last use is still about.
THEOREM UnclaimedClean == ASSUME Polite PROVE Spec => []UnclaimedIsClean
BY ClaimInvariant, PTL DEF ClaimInv

\* If threads keep to their channel numbers and close their own, a channel is
\* claimed exactly as long as somebody holds it, whichever step of a create
\* fails and whether or not the create had made the claim itself; only the path
\* of the info file (server.c 571-576) keeps a claim that nobody holds.
THEOREM ClaimsOwned == ASSUME Polite PROVE Spec => []ClaimsHaveOwners
BY ClaimInvariant, PTL DEF ClaimInv

\* Which listener a channel has, from create to the join in close.
ListenerIsKnown ==
  \A l \in Listeners \ stragglers :
    lpc[l] # "none" => request_thread[lch[l]] = l

ListenerJoined ==
  \A t \in Threads :
    pc[t] \in {"remove", "clean"} /\ request_thread[target[t]] \in Listeners
      => \/ lpc[request_thread[target[t]]] = "none"
         \/ request_thread[target[t]] \in stragglers

ThreadWhileUsed ==
  \A ch \in Channels :
    request_thread[ch] # NoListener =>
      \/ running[ch]
      \/ \E t \in Threads : target[t] = ch /\ pc[t] \in {"join", "remove", "clean"}

NoListenerYet ==
  \A t \in Threads :
    pc[t] \in {"lock", "setdir", "make", "wipe", "undo"}
      => request_thread[target[t]] = NoListener

ListenerInv == ListenerIsKnown /\ ListenerJoined /\ ThreadWhileUsed /\ NoListenerYet

\* Initially there is no listener.
LEMMA ListenerInit == Init => ListenerInv
BY DEF Init, ListenerInv, ListenerIsKnown, ListenerJoined, ThreadWhileUsed,
       NoListenerYet

\* Every step keeps the invariant, on channels that calls hold.
LEMMA ListenerInvStep ==
  ASSUME Types, HoldsTarget, ListenerInv, [Next]_vars
  PROVE  ListenerInv'
<1>p. CallTypes /\ ChanTypes /\ ListTypes
  BY DEF Types
<1> USE <1>p DEF CallTypes, HoldsTarget, ListenerInv, ListenerIsKnown, ListenerJoined,
                 ThreadWhileUsed, NoListenerYet, Goto, Returns, GivesBack, LeavesChannel,
                 LGoto, LEnds, callVars, chanVars, listVars
<1>1. ASSUME NEW t \in Threads, GetNext(t) \/ SaveHeader(t) PROVE ListenerInv'
  BY <1>1 DEF GetNext, SaveHeader
<1>2. ASSUME NEW t \in Threads, Create(t) PROVE ListenerInv'
  BY <1>2 DEF Create
<1>3. ASSUME NEW t \in Threads, Close(t) PROVE ListenerInv'
  BY <1>3 DEF Close
<1>4. ASSUME NEW t \in Threads, ClaimForCreate(t) PROVE ListenerInv'
  BY <1>4 DEF ClaimForCreate
<1>5. ASSUME NEW t \in Threads, LockForCreate(t) \/ SetDir(t) PROVE ListenerInv'
  BY <1>5 DEF LockForCreate, SetDir
<1>6. ASSUME NEW t \in Threads, MakeFiles(t) PROVE ListenerInv'
  BY <1>6 DEF MakeFiles, ChanTypes, ListTypes
<1>7. ASSUME NEW t \in Threads,
             MakeFails(t) \/ KeepClaim(t) \/ UndoClaim(t) \/ RefuseInfo(t)
             \/ Unclaim(t)
      PROVE  ListenerInv'
  BY <1>7 DEF MakeFails, KeepClaim, UndoClaim, RefuseInfo, Unclaim
<1>8. ASSUME NEW t \in Threads, StopListener(t) PROVE ListenerInv'
  BY <1>8 DEF StopListener, ChanTypes, ListTypes
<1>9. ASSUME NEW t \in Threads, JoinListener(t) PROVE ListenerInv'
  BY <1>9 DEF JoinListener
<1>10. ASSUME NEW t \in Threads, RemoveFiles(t) PROVE ListenerInv'
  BY <1>10 DEF RemoveFiles
<1>11. ASSUME NEW t \in Threads, Wipe(t) PROVE ListenerInv'
  BY <1>11 DEF Wipe, ChanTypes, ListTypes
<1>12. ASSUME NEW l \in Listeners, ListenerLoops(l) PROVE ListenerInv'
  BY <1>12 DEF ListenerLoops, ListTypes
<1>13. ASSUME NEW l \in Listeners,
              ReadRequest(l) \/ LockToAdd(l) \/ AddClient(l) \/ AddFails(l)
       PROVE  ListenerInv'
  BY <1>13 DEF ReadRequest, LockToAdd, AddClient, AddFails, ListTypes
<1>14. CASE UNCHANGED vars
  BY <1>14 DEF vars
<1> QED
  BY <1>1, <1>2, <1>3, <1>4, <1>5, <1>6, <1>7, <1>8, <1>9, <1>10, <1>11, <1>12,
     <1>13, <1>14 DEF Next, CallStep, ListenerStep

\* If threads keep to their channel numbers and close their own, a channel has one
\* listener, and those that a close did not wait for any longer.
THEOREM OneListenerPerChannel ==
  ASSUME Polite PROVE Spec => []OneListenerUnlessLeft
<1>1. Types /\ ClaimInv /\ ListenerInv /\ [Next]_vars => ListenerInv'
  BY ListenerInvStep DEF ClaimInv
<1>2. ListenerInv => OneListenerUnlessLeft
  BY DEF ListenerInv, ListenerIsKnown, OneListenerUnlessLeft
<1> QED
  BY ListenerInit, ClaimInvariant, TypesInvariant, <1>1, <1>2, PTL DEF Spec
(* ------------------------------ the register --------------------------- *)

\* A directory is that of a running channel, or of one whose create or close
\* has the mutex; so are clients, after the create.
DirsAttended ==
  \A ch \in Channels :
    base_dir[ch] # NoDir =>
      \/ running[ch]
      \/ \E t \in Threads :
           target[t] = ch /\ pc[t] \in {"make", "join", "remove", "clean"}

ClientsAttended ==
  \A ch \in Channels :
    has_clients[ch] =>
      \/ running[ch]
      \/ \E t \in Threads : target[t] = ch /\ pc[t] \in {"join", "remove", "clean"}

AttendInv == DirsAttended /\ ClientsAttended

\* A listener that adds a client to a channel with a directory has found it
\* running: whoever creates or closes it would have the mutex.
LEMMA AddsToRunning ==
  ASSUME Types, MutexInv, AttendInv, NEW l \in Listeners, AddClient(l)
  PROVE  lch[l] \in Channels /\ running[lch[l]] /\ base_dir[lch[l]] \in Dirs
<1>1. lpc[l] = "adding" /\ lch[l] \in Channels /\ mtx[lch[l]] = l
  BY DEF AddClient, Types, ListTypes, MutexInv
<1>2. base_dir[lch[l]] \in Dirs /\ base_dir[lch[l]] # NoDir
  BY DEF AddClient, Types, ChanTypes
<1>3. \A t \in Threads : target[t] = lch[l] => pc[t] \notin Held
  BY <1>1 DEF MutexInv
<1> QED
  BY <1>1, <1>2, <1>3 DEF AttendInv, DirsAttended, Held

\* Every step keeps the invariant.
LEMMA AttendStep ==
  ASSUME Types, MutexInv, AttendInv, [Next]_vars
  PROVE  AttendInv'
<1>p. CallTypes /\ ChanTypes /\ ListTypes
  BY DEF Types
<1> USE <1>p DEF CallTypes, AttendInv, DirsAttended, ClientsAttended, Goto, Returns,
                 GivesBack, LeavesChannel, callVars, chanVars, listVars
<1>1. ASSUME NEW t \in Threads,
             GetNext(t) \/ SaveHeader(t) \/ Create(t) \/ Close(t) \/ LockForCreate(t)
             \/ KeepClaim(t) \/ UndoClaim(t) \/ RefuseInfo(t) \/ Unclaim(t)
             \/ JoinListener(t) \/ RemoveFiles(t)
      PROVE  AttendInv'
  <2>1. /\ UNCHANGED <<running, base_dir, has_clients>>
        /\ \A u \in Threads :
             pc[u] \in {"make", "join", "remove", "clean"} =>
               /\ target'[u] = target[u]
               /\ \/ pc'[u] = pc[u]
                  \/ pc[u] # "make" /\ pc'[u] \in {"join", "remove", "clean"}
    BY <1>1 DEF GetNext, SaveHeader, Create, Close, LockForCreate, KeepClaim, UndoClaim,
                RefuseInfo, Unclaim, JoinListener, RemoveFiles
  <2> QED BY <2>1
<1>2. ASSUME NEW t \in Threads, ClaimForCreate(t) PROVE AttendInv'
  <2>1. /\ UNCHANGED <<running, base_dir, has_clients>>
        /\ \A u \in Threads :
             pc[u] \in {"make", "join", "remove", "clean"} =>
               target'[u] = target[u] /\ pc'[u] = pc[u]
    BY <1>2 DEF ClaimForCreate
  <2> QED BY <2>1
<1>3. ASSUME NEW t \in Threads, SetDir(t) PROVE AttendInv'
  BY <1>3 DEF SetDir, ChanTypes
<1>4. ASSUME NEW t \in Threads, MakeFiles(t) PROVE AttendInv'
  BY <1>4 DEF MakeFiles, ChanTypes
<1>5. ASSUME NEW t \in Threads, MakeFails(t) PROVE AttendInv'
  BY <1>5 DEF MakeFails, ChanTypes
<1>6. ASSUME NEW t \in Threads, StopListener(t) PROVE AttendInv'
  BY <1>6 DEF StopListener, ChanTypes
<1>7. ASSUME NEW t \in Threads, Wipe(t) PROVE AttendInv'
  BY <1>7 DEF Wipe, ChanTypes
<1>8. ASSUME NEW l \in Listeners, AddClient(l) PROVE AttendInv'
  <2>1. running[lch[l]] /\ lch[l] \in Channels
    BY <1>8, AddsToRunning
  <2> QED BY <1>8, <2>1 DEF AddClient, ChanTypes
<1>9. ASSUME NEW l \in Listeners,
             ReadRequest(l) \/ ListenerLoops(l) \/ LockToAdd(l) \/ AddFails(l)
      PROVE  AttendInv'
  BY <1>9 DEF ReadRequest, ListenerLoops, LockToAdd, AddFails
<1>10. CASE UNCHANGED vars
  BY <1>10 DEF vars
<1> QED
  BY <1>1, <1>2, <1>3, <1>4, <1>5, <1>6, <1>7, <1>8, <1>9, <1>10
     DEF Next, CallStep, ListenerStep

\* What a channel serves changes with that channel ...
LEMMA ServedChanges ==
  ASSUME NEW ch \in Channels, NEW d,
         \A other \in Channels \ {ch} :
           running'[other] = running[other] /\ base_dir'[other] = base_dir[other],
         d = IF running'[ch] THEN base_dir'[ch] ELSE NoDir
  PROVE  Served' = [Served EXCEPT ![ch] = d]
BY DEF Served

\* ... and not when the directory of a channel that does not run does.
LEMMA ServedStays ==
  ASSUME UNCHANGED running,
         \A ch \in Channels : running[ch] => base_dir'[ch] = base_dir[ch]
  PROVE  Served' = Served
BY DEF Served

\* Every step is one of the register, or none.
LEMMA RegisterStep ==
  ASSUME Polite, Types, MutexInv, DirInv, ClaimInv, AttendInv, [Next]_vars
  PROVE  [Register!Next]_Register!vars
<1>p. CallTypes /\ ChanTypes /\ ListTypes
  BY DEF Types
<1> USE <1>p DEF CallTypes, Goto, Returns, GivesBack, LeavesChannel, callVars, chanVars,
                 listVars
<1>s. \A ch \in Channels : Served[ch] = IF running[ch] THEN base_dir[ch] ELSE NoDir
  BY DEF Served
<1>1. ASSUME NEW t \in Threads, GetNext(t) PROVE [Register!Next]_Register!vars
  <2>1. PICK ch \in Channels : ~claimed[ch] /\ owner' = [owner EXCEPT ![ch] = t]
    BY <1>1 DEF GetNext
  <2>2. owner[ch] = NoThread
    BY <2>1 DEF ClaimInv, ClaimsHaveOwners
  <2>3. UNCHANGED <<running, base_dir, has_clients>> /\ Served' = Served
    BY <1>1, ServedStays DEF GetNext
  <2> QED BY <2>1, <2>2, <2>3 DEF Register!Next, Register!Claim
<1>2. ASSUME NEW t \in Threads, MakeFiles(t) PROVE [Register!Next]_Register!vars
  <2> DEFINE ch == target[t]
             d == wanted[t]
  <2>1. /\ pc[t] = "make" /\ ch \in Channels /\ d \in Dirs /\ base_dir[ch] = d
        /\ ~running[ch] /\ owner[ch] = t /\ mtx[ch] = t
    BY <1>2 DEF MakeFiles, DirInv, DirIsSet, Stopped, ClaimInv, HoldsTarget, MutexInv, Held
  <2>2. Served' = [Served EXCEPT ![ch] = d]
    BY <1>2, <2>1, ServedChanges DEF MakeFiles, ChanTypes
  <2>3. \A other \in Channels : Served[other] # d
    BY <1>s, <2>1 DEF DirInv, DirsExclusive
  <2>4. ~has_clients[ch]
    BY <2>1 DEF AttendInv, ClientsAttended, MutexInv, Held
  <2>5. UNCHANGED <<owner, has_clients>> /\ Served[ch] = NoDir
    BY <1>2, <1>s, <2>1 DEF MakeFiles
  <2>6. Register!Open(t, ch, d)
    BY <2>1, <2>2, <2>3, <2>4, <2>5 DEF Register!Open
  <2> HIDE DEF ch, d
  <2> QED BY <2>1, <2>6 DEF Register!Next
<1>3. ASSUME NEW t \in Threads, StopListener(t) PROVE [Register!Next]_Register!vars
  <2>1. target[t] \in Channels /\ owner[target[t]] = t
    BY <1>3 DEF StopListener, ClaimInv, HoldsTarget
  <2>2. Served' = [Served EXCEPT ![target[t]] = NoDir]
    BY <1>3, <2>1, ServedChanges DEF StopListener, ChanTypes
  <2>3. UNCHANGED <<owner, has_clients>>
    BY <1>3 DEF StopListener
  <2> QED BY <2>1, <2>2, <2>3 DEF Register!Next, Register!Stop
<1>4. ASSUME NEW t \in Threads, Wipe(t) PROVE [Register!Next]_Register!vars
  <2>1. target[t] \in Channels /\ owner[target[t]] = t /\ ~running[target[t]]
    BY <1>4 DEF Wipe, ClaimInv, HoldsTarget, DirInv, Stopped
  <2>2. running' = running
    BY <1>4, <2>1 DEF Wipe, ChanTypes
  <2>3. Served' = Served /\ Served[target[t]] = NoDir
    BY <1>4, <1>s, <2>1, <2>2, ServedStays DEF Wipe, ChanTypes
  <2>4. has_clients' = [has_clients EXCEPT ![target[t]] = FALSE] /\ owner' = owner
    BY <1>4 DEF Wipe
  <2> QED BY <2>1, <2>3, <2>4 DEF Register!Next, Register!Dismiss
<1>5. ASSUME NEW t \in Threads, Unclaim(t) PROVE [Register!Next]_Register!vars
  <2>1. /\ target[t] \in Channels /\ owner[target[t]] = t
        /\ ~running[target[t]] /\ ~has_clients[target[t]]
    BY <1>5 DEF Unclaim, ClaimInv, HoldsTarget, WipedStaysClean, Clean
  <2>2. UNCHANGED <<running, base_dir, has_clients>> /\ Served' = Served
    BY <1>5, ServedStays DEF Unclaim
  <2>3. owner' = [owner EXCEPT ![target[t]] = NoThread] /\ Served[target[t]] = NoDir
    BY <1>5, <1>s, <2>1 DEF Unclaim
  <2> QED BY <2>1, <2>2, <2>3 DEF Register!Next, Register!Release
<1>6. ASSUME NEW l \in Listeners, AddClient(l) PROVE [Register!Next]_Register!vars
  <2>1. lch[l] \in Channels /\ Served[lch[l]] # NoDir
    BY <1>6, <1>s, AddsToRunning
  <2>2. /\ has_clients' = [has_clients EXCEPT ![lch[l]] = TRUE]
        /\ UNCHANGED <<owner, running, base_dir>> /\ Served' = Served
    BY <1>6, ServedStays DEF AddClient
  <2> QED BY <2>1, <2>2 DEF Register!Next, Register!Attend
<1>7. ASSUME NEW t \in Threads, SetDir(t) \/ MakeFails(t)
      PROVE  UNCHANGED Register!vars
  <2>1. target[t] \in Channels /\ ~running[target[t]]
    BY <1>7 DEF SetDir, MakeFails, DirInv, Stopped
  <2>2. \A ch \in Channels \ {target[t]} : base_dir'[ch] = base_dir[ch]
    BY <1>7, <2>1 DEF SetDir, MakeFails, ChanTypes
  <2>3. UNCHANGED <<owner, running, has_clients>>
    BY <1>7 DEF SetDir, MakeFails
  <2> QED BY <2>1, <2>2, <2>3, ServedStays DEF Register!vars
<1>8. ASSUME NEW t \in Threads, ClaimForCreate(t) PROVE [Register!Next]_Register!vars
  <2>1. target[t] \in Channels /\ owner[target[t]] \in {t, NoThread}
    BY <1>8 DEF ClaimForCreate, ClaimInv, HoldsTarget
  <2>2. /\ owner' = [owner EXCEPT ![target[t]] = t]
        /\ UNCHANGED <<running, base_dir, has_clients>> /\ Served' = Served
    BY <1>8, <2>1, ServedStays DEF ClaimForCreate
  <2>3. CASE owner[target[t]] = t
    BY <2>1, <2>2, <2>3 DEF Register!vars
  <2>4. CASE owner[target[t]] = NoThread
    BY <2>1, <2>2, <2>4 DEF Register!Next, Register!Claim
  <2> QED BY <2>1, <2>3, <2>4
<1>12. ASSUME NEW t \in Threads, KeepClaim(t) \/ UndoClaim(t) \/ RefuseInfo(t)
       PROVE  [Register!Next]_Register!vars
  <2>1. /\ target[t] \in Channels /\ owner[target[t]] = t
        /\ pc[t] \in {"lock", "wipe", "undo"} /\ ~running[target[t]]
    BY <1>12 DEF KeepClaim, UndoClaim, RefuseInfo, ClaimInv, HoldsTarget, DirInv, Stopped
  <2>2. ~has_clients[target[t]] /\ Served[target[t]] = NoDir
    <3>1. \A u \in Threads \ {t} : target[u] = target[t] => pc[u] \in {"idle", "claim"}
      BY <2>1 DEF ClaimInv, HoldsTarget
    <3> QED BY <1>s, <2>1, <3>1 DEF AttendInv, ClientsAttended
  <2>3. /\ owner' \in {owner, [owner EXCEPT ![target[t]] = NoThread]}
        /\ UNCHANGED <<running, base_dir, has_clients>> /\ Served' = Served
    BY <1>12, <2>1, ServedStays DEF KeepClaim, UndoClaim, RefuseInfo
  <2> QED BY <2>1, <2>2, <2>3 DEF Register!Next, Register!Release, Register!vars
<1>9. ASSUME NEW t \in Threads,
             Create(t) \/ Close(t) \/ SaveHeader(t) \/ LockForCreate(t) \/ JoinListener(t)
             \/ RemoveFiles(t)
      PROVE  UNCHANGED Register!vars
  BY <1>9, ServedStays DEF Create, Close, SaveHeader, LockForCreate, JoinListener,
     RemoveFiles, Register!vars
<1>10. ASSUME NEW l \in Listeners,
              ReadRequest(l) \/ ListenerLoops(l) \/ LockToAdd(l) \/ AddFails(l)
       PROVE  UNCHANGED Register!vars
  BY <1>10, ServedStays DEF ReadRequest, ListenerLoops, LockToAdd, AddFails, Register!vars
<1>11. CASE UNCHANGED vars
  BY <1>11, ServedStays DEF vars, Register!vars
<1> QED
  BY <1>1, <1>2, <1>3, <1>4, <1>5, <1>6, <1>7, <1>8, <1>9, <1>10, <1>11, <1>12
     DEF Next, CallStep, ListenerStep

\* If threads keep to their channel numbers, create channels one at a time and
\* close their own, the channels are the register of ChannelRegister: only its
\* holder opens and closes a channel, on a directory that no other channel
\* serves; clients come to open channels only, and none is left when the
\* number is given back (pipe_server_create, pipe_server_close, _add_client).
THEOREM ImplementsRegister ==
  ASSUME Polite, CreatesApart PROVE Spec => RegisterSpec
<1>1. Init => Register!Init /\ AttendInv
  BY DEF Init, Register!Init, Served, AttendInv, DirsAttended, ClientsAttended
<1>2. Types /\ MutexInv /\ AttendInv /\ [Next]_vars => AttendInv'
  BY AttendStep
<1>3. Types /\ MutexInv /\ DirInv /\ ClaimInv /\ AttendInv /\ [Next]_vars
        => [Register!Next]_Register!vars
  BY RegisterStep
<1> QED
  BY <1>1, <1>2, <1>3, TypesInvariant, DirInvariant, ClaimInvariant, PTL
     DEF Spec, RegisterSpec, Register!Spec
=============================================================================
