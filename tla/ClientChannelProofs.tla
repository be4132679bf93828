------------------------- MODULE ClientChannelProofs --------------------------
(***************************************************************************)
(* For any number of helper threads, every kind of helper and every        *)
(* failure of the ION socket: as long as open and resume do not overlap    *)
(* with a stop that a callback asked for, an unclaimed channel is clean,   *)
(* one helper is not left behind, and that one has a buffer.               *)
(***************************************************************************)
EXTENDS ClientChannel, TLAPS

USE ClientAssumption
USE DEF Threads, OpenStates, StopStates, CallStates, LoopStates, UsesBuffer, States

\* open and resume have the channel for themselves.
OpenAlone ==
  pc[App] \in OpenStates => claimed /\ \A h \in Helpers : pc[h] \notin StopStates

Clean == ~running /\ ~configured /\ ~data_fd /\ helper_thread_id = NoThread

StaysClean == \A t \in Threads : pc[t] = "unclaim" => Clean

\* Who surely has the mutex.
MutexInv ==
  /\ \A t \in Threads : pc[t] \in {"ready", "join", "fds"} => mtx = t
  /\ \A h \in Helpers : pc[h] = "connecting" => mtx = h

\* Whoever stops a helper knows which one.
HelperThere ==
  /\ running /\ pc[App] # "spawn" => helper_thread_id \in Helpers
  /\ \A t \in Threads :
       \/ pc[t] \in {"cbwait", "lock"} /\ configured
       \/ pc[t] \in {"ready", "join"}
       => helper_thread_id \in Helpers

ChannelInv == OpenAlone /\ UnclaimedIsClean /\ StaysClean /\ MutexInv /\ HelperThere

\* The types, of the flags and of the rest.
FlagTypes ==
  /\ running \in BOOLEAN /\ claimed \in BOOLEAN /\ closing \in BOOLEAN
  /\ configured \in BOOLEAN /\ noretry \in BOOLEAN
  /\ data_fd \in BOOLEAN /\ buf \in BOOLEAN /\ helper_ready \in BOOLEAN

PlaceTypes ==
  /\ pc \in [Threads -> States]
  /\ pc[App] \in {"idle"} \union CallStates
  /\ \A h \in Helpers :
       pc[h] \in {"none"} \union StopStates \union LoopStates \union UsesBuffer

RestTypes ==
  /\ op \in [Threads -> {"none", "pause", "close"}]
  /\ cb_inflight \in Int
  /\ helper_thread_id \in Helpers \union {NoThread}
  /\ mtx \in Threads \union {NoThread}
  /\ stragglers \subseteq Helpers

\* TypeOK is these parts, now and after a step.
LEMMA TypeParts ==
  /\ TypeOK <=> FlagTypes /\ PlaceTypes /\ RestTypes
  /\ TypeOK' <=> FlagTypes' /\ PlaceTypes' /\ RestTypes'
BY DEF TypeOK, FlagTypes, PlaceTypes, RestTypes

\* The initial state.
LEMMA ChannelInit == Init => FlagTypes /\ PlaceTypes /\ RestTypes /\ ChannelInv
<1> SUFFICES ASSUME Init PROVE FlagTypes /\ PlaceTypes /\ RestTypes /\ ChannelInv
  OBVIOUS
<1>1. FlagTypes
  BY DEF Init, FlagTypes
<1>2. PlaceTypes
  BY DEF Init, PlaceTypes
<1>3. RestTypes
  BY DEF Init, RestTypes
<1>4. ChannelInv
  BY DEF Init, ChannelInv, OpenAlone, UnclaimedIsClean, StaysClean, MutexInv,
     HelperThere, Clean
<1> QED
  BY <1>1, <1>2, <1>3, <1>4

\* Every step keeps the flags Boolean.
LEMMA FlagStep == ASSUME FlagTypes, [Next]_vars PROVE FlagTypes'
<1> USE DEF FlagTypes, flags
<1>1. CASE Open \/ SetUp \/ CallResume \/ Resume \/ Spawn
  BY <1>1, Zenon DEF Open, SetUp, CallResume, Resume, Spawn
<1>2. ASSUME NEW t \in Threads, StopStep(t) \/ Pause(t) \/ Close(t) PROVE FlagTypes'
  BY <1>2, Zenon DEF Pause, Close, StopStep, WaitForCallbacks, StopRunning,
     SignalHelper, Join, CloseFds, Unclaim
<1>3. ASSUME NEW h \in Helpers,
             HelperStarts(h) \/ HelperLoops(h) \/ LookForServer(h) \/ LockToConnect(h)
             \/ Connects(h) \/ ConnectFails(h) \/ SocketFailure(h) \/ Awakes(h)
      PROVE  FlagTypes'
  BY <1>3, Zenon DEF HelperStarts, HelperLoops, LookForServer, LockToConnect, Connects,
     ConnectFails, SocketFailure, Awakes
<1>4. ASSUME NEW h \in Helpers,
             StartRead(h) \/ ReadReturns(h) \/ Disconnected(h) \/ Deliver(h)
             \/ DropBadPacket(h) \/ CallbackEnds(h)
      PROVE  FlagTypes'
  BY <1>4, Zenon DEF StartRead, ReadReturns, Disconnected, Deliver, DropBadPacket,
     CallbackEnds
<1>5. CASE UNCHANGED vars
  BY <1>5, Zenon DEF vars
<1> QED
  BY <1>1, <1>2, <1>3, <1>4, <1>5 DEF Next, OpenStep, HelperStep, ServerAnswers

\* Every step leaves threads where such threads can be.
LEMMA PlaceStep ==
  ASSUME PlaceTypes, RestTypes, [Next]_vars
  PROVE  PlaceTypes'
<1> USE DEF PlaceTypes, Goto
<1>1. CASE Open \/ SetUp \/ CallResume
  BY <1>1 DEF Open, SetUp, CallResume
<1>2. CASE Resume
  BY <1>2 DEF Resume
<1>3. CASE Spawn
  BY <1>3 DEF Spawn
<1>4. ASSUME NEW t \in Threads, Pause(t) \/ Close(t) PROVE PlaceTypes'
  BY <1>4 DEF Pause, Close
<1>5. ASSUME NEW t \in Threads, WaitForCallbacks(t) \/ StopRunning(t)
      PROVE  PlaceTypes'
  BY <1>5 DEF WaitForCallbacks, StopRunning
<1>6. ASSUME NEW t \in Threads, SignalHelper(t) PROVE PlaceTypes'
  <2>1. PICK next \in {"join", "fds"} :
          \E hit \in {"none"} \union StopStates \union LoopStates \union UsesBuffer :
            pc' = [x \in Threads |-> IF x = t THEN next
                                    ELSE IF x = helper_thread_id THEN hit ELSE pc[x]]
    <3>1. CASE helper_thread_id \in Helpers
      BY <1>6, <3>1 DEF SignalHelper
    <3>2. CASE helper_thread_id \notin Helpers
      BY <1>6, <3>2 DEF SignalHelper
    <3> QED BY <3>1, <3>2
  <2>2. helper_thread_id \in Helpers \union {NoThread}
    BY DEF RestTypes
  <2> QED BY <2>1, <2>2
<1>7. ASSUME NEW t \in Threads, Join(t) PROVE PlaceTypes'
  BY <1>7 DEF Join
<1>8. ASSUME NEW t \in Threads, CloseFds(t) PROVE PlaceTypes'
  <2>1. CASE op[t] = "pause"
    BY <1>8, <2>1 DEF CloseFds, Returned
  <2>2. CASE op[t] # "pause"
    BY <1>8, <2>2 DEF CloseFds
  <2> QED BY <2>1, <2>2
<1>9. ASSUME NEW t \in Threads, Unclaim(t) PROVE PlaceTypes'
  BY <1>9 DEF Unclaim, Returned
<1>10. ASSUME NEW h \in Helpers, HelperLoops(h) PROVE PlaceTypes'
  BY <1>10 DEF HelperLoops
<1>11. ASSUME NEW h \in Helpers, LookForServer(h) PROVE PlaceTypes'
  BY <1>11 DEF LookForServer
<1>12. ASSUME NEW h \in Helpers,
              HelperStarts(h) \/ LockToConnect(h) \/ Connects(h) \/ ConnectFails(h)
              \/ SocketFailure(h) \/ Awakes(h)
       PROVE  PlaceTypes'
  BY <1>12 DEF HelperStarts, LockToConnect, Connects, ConnectFails, SocketFailure,
     Awakes
<1>13. ASSUME NEW h \in Helpers,
              StartRead(h) \/ ReadReturns(h) \/ Disconnected(h) \/ Deliver(h)
              \/ DropBadPacket(h) \/ CallbackEnds(h)
       PROVE  PlaceTypes'
  BY <1>13 DEF StartRead, ReadReturns, Disconnected, Deliver, DropBadPacket,
     CallbackEnds
<1>14. CASE UNCHANGED vars
  BY <1>14 DEF vars
<1> QED
  BY <1>1, <1>2, <1>3, <1>4, <1>5, <1>6, <1>7, <1>8, <1>9, <1>10, <1>11, <1>12,
     <1>13, <1>14 DEF Next, OpenStep, StopStep, HelperStep, ServerAnswers

\* Every step keeps the other types; a stop that signals or joins a helper
\* knows which.
LEMMA RestStep ==
  ASSUME RestTypes, ChannelInv, [Next]_vars
  PROVE  RestTypes'
<1> USE DEF RestTypes
<1>1. CASE Open \/ SetUp \/ CallResume \/ Resume \/ Spawn
  BY <1>1 DEF Open, SetUp, CallResume, Resume, Spawn
<1>2. ASSUME NEW t \in Threads, Pause(t) \/ Close(t) \/ WaitForCallbacks(t) \/ Unclaim(t)
      PROVE  RestTypes'
  BY <1>2 DEF Pause, Close, WaitForCallbacks, Unclaim
<1>3. ASSUME NEW t \in Threads, StopRunning(t) PROVE RestTypes'
  <2>1. CASE InOwnThread(t)
    BY <1>3, <2>1 DEF StopRunning, InOwnThread
  <2>2. CASE ~InOwnThread(t)
    BY <1>3, <2>2 DEF StopRunning
  <2> QED BY <2>1, <2>2
<1>4. ASSUME NEW t \in Threads, SignalHelper(t) PROVE RestTypes'
  <2>1. helper_thread_id \in Helpers
    BY <1>4 DEF SignalHelper, ChannelInv, HelperThere
  <2> QED BY <1>4, <2>1 DEF SignalHelper
<1>5. ASSUME NEW t \in Threads, Join(t) PROVE RestTypes'
  <2>1. helper_thread_id \in Helpers
    BY <1>5 DEF Join, ChannelInv, HelperThere
  <2> QED BY <1>5, <2>1 DEF Join
<1>6. ASSUME NEW t \in Threads, CloseFds(t) PROVE RestTypes'
  <2>1. CASE op[t] = "pause"
    BY <1>6, <2>1 DEF CloseFds
  <2>2. CASE op[t] # "pause"
    BY <1>6, <2>2 DEF CloseFds
  <2> QED BY <2>1, <2>2
<1>7. ASSUME NEW h \in Helpers, HelperLoops(h) PROVE RestTypes'
  BY <1>7 DEF HelperLoops
<1>8. ASSUME NEW h \in Helpers, SocketFailure(h) PROVE RestTypes'
  BY <1>8 DEF SocketFailure
<1>9. ASSUME NEW h \in Helpers,
             HelperStarts(h) \/ LookForServer(h) \/ LockToConnect(h) \/ Connects(h)
             \/ ConnectFails(h) \/ Awakes(h)
      PROVE  RestTypes'
  BY <1>9 DEF HelperStarts, LookForServer, LockToConnect, Connects, ConnectFails, Awakes
<1>10. ASSUME NEW h \in Helpers,
              StartRead(h) \/ ReadReturns(h) \/ Disconnected(h) \/ Deliver(h)
              \/ DropBadPacket(h) \/ CallbackEnds(h)
       PROVE  RestTypes'
  BY <1>10 DEF StartRead, ReadReturns, Disconnected, Deliver, DropBadPacket,
     CallbackEnds
<1>11. CASE UNCHANGED vars
  BY <1>11 DEF vars
<1> QED
  BY <1>1, <1>2, <1>3, <1>4, <1>5, <1>6, <1>7, <1>8, <1>9, <1>10, <1>11
     DEF Next, OpenStep, StopStep, HelperStep, ServerAnswers

\* Every step keeps the channel's invariant, if opens do not overlap.
LEMMA ChannelStep ==
  ASSUME ~Overlap, PlaceTypes, PlaceTypes', RestTypes, RestTypes', ChannelInv,
         [Next]_vars
  PROVE  ChannelInv'
<1> USE DEF PlaceTypes, RestTypes, ChannelInv, OpenAlone, UnclaimedIsClean, StaysClean, MutexInv,
            HelperThere, Clean, Goto, flags
<1>1. CASE Open \/ SetUp \/ CallResume \/ Resume
  BY <1>1 DEF Open, SetUp, CallResume, Resume, MayOpen
<1>2. CASE Spawn
  BY <1>2 DEF Spawn
<1>3. ASSUME NEW t \in Threads, Pause(t) \/ Close(t) PROVE ChannelInv'
  BY <1>3 DEF Pause, Close, MayCall
<1>4. ASSUME NEW t \in Threads, WaitForCallbacks(t) \/ StopRunning(t)
      PROVE  ChannelInv'
  BY <1>4 DEF WaitForCallbacks, StopRunning, InOwnThread
<1>5. ASSUME NEW t \in Threads, SignalHelper(t) PROVE ChannelInv'
  BY <1>5 DEF SignalHelper
<1>6. ASSUME NEW t \in Threads, Join(t) PROVE ChannelInv'
  BY <1>6 DEF Join
<1>7. ASSUME NEW t \in Threads, CloseFds(t) PROVE ChannelInv'
  BY <1>7 DEF CloseFds, Returned
<1>8. ASSUME NEW t \in Threads, Unclaim(t) PROVE ChannelInv'
  BY <1>8 DEF Unclaim, Returned
<1>9. ASSUME NEW h \in Helpers,
             HelperStarts(h) \/ HelperLoops(h) \/ LookForServer(h) \/ LockToConnect(h)
      PROVE  ChannelInv'
  BY <1>9 DEF HelperStarts, HelperLoops, LookForServer, LockToConnect
<1>10. ASSUME NEW h \in Helpers, Connects(h) \/ ConnectFails(h) PROVE ChannelInv'
  <2>1. CASE Connects(h)
    BY <2>1 DEF Connects
  <2>2. CASE ConnectFails(h)
    <3>1. data_fd' => data_fd
      BY <2>2, Zenon DEF ConnectFails
    <3> QED BY <2>2, <3>1 DEF ConnectFails
  <2> QED BY <1>10, <2>1, <2>2
<1>11. ASSUME NEW h \in Helpers, SocketFailure(h) PROVE ChannelInv'
  BY <1>11 DEF SocketFailure
<1>12. ASSUME NEW h \in Helpers, Awakes(h) \/ StartRead(h) \/ ReadReturns(h)
       PROVE  ChannelInv'
  BY <1>12 DEF Awakes, StartRead, ReadReturns
<1>13. ASSUME NEW h \in Helpers,
              Disconnected(h) \/ Deliver(h) \/ DropBadPacket(h) \/ CallbackEnds(h)
       PROVE  ChannelInv'
  BY <1>13 DEF Disconnected, Deliver, DropBadPacket, CallbackEnds
<1>14. CASE UNCHANGED vars
  BY <1>14 DEF vars
<1> QED
  BY <1>1, <1>2, <1>3, <1>4, <1>5, <1>6, <1>7, <1>8, <1>9, <1>10, <1>11, <1>12,
     <1>13, <1>14 DEF Next, OpenStep, StopStep, HelperStep, ServerAnswers

\* Types and the channel's invariant throughout.
LEMMA ChannelInvariant == ASSUME ~Overlap PROVE Spec => [](TypeOK /\ ChannelInv)
<1>1. Init => TypeOK /\ ChannelInv
  BY ChannelInit, TypeParts
<1>2. TypeOK /\ ChannelInv /\ [Next]_vars => (TypeOK /\ ChannelInv)'
  BY FlagStep, PlaceStep, RestStep, ChannelStep, TypeParts
<1> QED
  BY <1>1, <1>2, PTL DEF Spec

\* The types: a call of the application and a helper thread are where such a
\* thread can be, so nobody joins a helper that is not there.
THEOREM TypeCorrect == ASSUME ~Overlap PROVE Spec => []TypeOK
BY ChannelInvariant, PTL

\* A channel that can be claimed again is as it was at the start, also when
\* both the application and a callback have closed it, and with a helper that
\* was left behind (pipe_client_close, _clean_channel, _connect_to_server).
THEOREM UnclaimedClean == ASSUME ~Overlap PROVE Spec => []UnclaimedIsClean
BY ChannelInvariant, PTL DEF ChannelInv

(* ---------------------------- the helper ------------------------------- *)

\* No helper is alive but those that were left behind.
NoneLeft == \A h \in Helpers \ stragglers : pc[h] = "none"

KnownHelper == \A h \in Helpers \ stragglers : pc[h] # "none" => helper_thread_id = h

\* When that is so.  The last part is why resume may start a new one: who sets
\* running to 0 is in a stop, or is told so by one.
NoneLeftWhen ==
  /\ \A t \in Threads : pc[t] \in {"fds", "unclaim"} => NoneLeft
  /\ ~configured => NoneLeft
  /\ pc[App] = "spawn" => NoneLeft /\ running /\ configured
  /\ ~running => NoneLeft \/ \E t \in Threads : pc[t] \in StopStates

NoRetryMeansClose ==
  /\ noretry => \E t \in Threads : pc[t] \in StopStates /\ op[t] = "close"
  /\ \A t \in Threads : pc[t] = "unclaim" => op[t] = "none"

HelperInv == KnownHelper /\ NoneLeftWhen /\ NoRetryMeansClose /\ BufferLives

\* Initially there is no helper.
LEMMA HelperInit == Init => HelperInv
BY DEF Init, HelperInv, KnownHelper, NoneLeftWhen, NoneLeft, NoRetryMeansClose,
       BufferLives

\* Every step keeps the invariant, if opens do not overlap.
LEMMA HelperInvStep ==
  ASSUME ~Overlap, PlaceTypes, RestTypes, ChannelInv, HelperInv, [Next]_vars
  PROVE  HelperInv'
<1> USE DEF PlaceTypes, RestTypes, ChannelInv, OpenAlone, HelperInv, KnownHelper,
            NoneLeftWhen, NoneLeft, NoRetryMeansClose, BufferLives, Goto, flags
<1>1. CASE Open \/ SetUp \/ CallResume
  BY <1>1 DEF Open, SetUp, CallResume
<1>2. CASE Resume
  BY <1>2 DEF Resume
<1>3. CASE Spawn
  BY <1>3 DEF Spawn
<1>4. ASSUME NEW t \in Threads, Pause(t) \/ Close(t) PROVE HelperInv'
  BY <1>4 DEF Pause, Close, MayCall
<1>5. ASSUME NEW t \in Threads, WaitForCallbacks(t) PROVE HelperInv'
  BY <1>5 DEF WaitForCallbacks
<1>6. ASSUME NEW t \in Threads, StopRunning(t) PROVE HelperInv'
  BY <1>6 DEF StopRunning, InOwnThread
<1>7. ASSUME NEW t \in Threads, SignalHelper(t) PROVE HelperInv'
  BY <1>7 DEF SignalHelper, HelperThere
<1>8. ASSUME NEW t \in Threads, Join(t) PROVE HelperInv'
  BY <1>8 DEF Join, HelperThere
<1>9. ASSUME NEW t \in Threads, CloseFds(t) PROVE HelperInv'
  <2>1. CASE op[t] = "pause"
    BY <1>9, <2>1 DEF CloseFds, Returned
  <2>2. CASE op[t] # "pause"
    BY <1>9, <2>2 DEF CloseFds
  <2> QED BY <2>1, <2>2
<1>10. ASSUME NEW t \in Threads, Unclaim(t) PROVE HelperInv'
  BY <1>10 DEF Unclaim, Returned
<1>11. ASSUME NEW h \in Helpers, HelperLoops(h) PROVE HelperInv'
  BY <1>11 DEF HelperLoops
<1>12. ASSUME NEW h \in Helpers, LookForServer(h) PROVE HelperInv'
  BY <1>12 DEF LookForServer
<1>13. ASSUME NEW h \in Helpers,
              HelperStarts(h) \/ LockToConnect(h) \/ Connects(h) \/ ConnectFails(h)
              \/ SocketFailure(h) \/ Awakes(h)
       PROVE  HelperInv'
  <2>1. CASE HelperStarts(h)
    BY <2>1 DEF HelperStarts
  <2>2. CASE LockToConnect(h) \/ Awakes(h)
    BY <2>2 DEF LockToConnect, Awakes
  <2>3. CASE Connects(h) \/ ConnectFails(h)
    <3>1. /\ pc[h] = "connecting" /\ pc' \in {[pc EXCEPT ![h] = "read"], [pc EXCEPT ![h] = "sleep"]}
          /\ UNCHANGED <<op, running, configured, noretry, buf, helper_thread_id, stragglers>>
      BY <2>3 DEF Connects, ConnectFails
    <3>2. \A g \in Helpers : pc'[g] = "none" <=> pc[g] = "none"
      BY <3>1
    <3> QED BY <3>1, <3>2
  <2>4. CASE SocketFailure(h)
    BY <2>4 DEF SocketFailure
  <2> QED BY <1>13, <2>1, <2>2, <2>3, <2>4
<1>14. ASSUME NEW h \in Helpers, StartRead(h) \/ ReadReturns(h) PROVE HelperInv'
  BY <1>14 DEF StartRead, ReadReturns
<1>15. ASSUME NEW h \in Helpers, Disconnected(h) PROVE HelperInv'
  BY <1>15 DEF Disconnected
<1>16. ASSUME NEW h \in Helpers, Deliver(h) \/ DropBadPacket(h) \/ CallbackEnds(h)
       PROVE  HelperInv'
  BY <1>16 DEF Deliver, DropBadPacket, CallbackEnds
<1>17. CASE UNCHANGED vars
  BY <1>17 DEF vars
<1> QED
  BY <1>1, <1>2, <1>3, <1>4, <1>5, <1>6, <1>7, <1>8, <1>9, <1>10, <1>11, <1>12,
     <1>13, <1>14, <1>15, <1>16, <1>17 DEF Next, OpenStep, StopStep, HelperStep, ServerAnswers

\* The invariant holds throughout.
LEMMA HelperInvariant == ASSUME ~Overlap PROVE Spec => []HelperInv
<1>1. TypeOK /\ ChannelInv /\ HelperInv /\ [Next]_vars => HelperInv'
  BY HelperInvStep, TypeParts
<1> QED
  BY HelperInit, ChannelInvariant, <1>1, PTL DEF Spec

\* "only one helper pthread per channel" (client.c), if those that were left
\* behind by a pause or close are not counted.
THEOREM OneHelperOnly == ASSUME ~Overlap PROVE Spec => []OneHelperUnlessLeft
<1>1. HelperInv => OneHelperUnlessLeft
  BY DEF HelperInv, KnownHelper, OneHelperUnlessLeft
<1> QED
  BY HelperInvariant, <1>1, PTL

\* close() frees the read buffer only when the helper that uses it has ended or
\* was left behind.
THEOREM BufferIsLive == ASSUME ~Overlap PROVE Spec => []BufferLives
BY HelperInvariant, PTL DEF HelperInv
=============================================================================
