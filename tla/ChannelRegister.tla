---------------------------- MODULE ChannelRegister ----------------------------
(***************************************************************************)
(* What libmodal-pipe promises of its server channels: a register of       *)
(* numbers.  A thread holds a number from the claim to the end of its      *)
(* close, and nobody else opens or closes it meanwhile.  An open channel   *)
(* serves one directory, which no other channel serves.  Clients come only *)
(* to an open channel, and none is left when its number is given back.     *)
(***************************************************************************)
CONSTANTS Threads, Channels, Dirs, NoThread, NoDir

VARIABLES
  holder,    \* the thread that holds each channel, or NoThread
  serves,    \* the directory each channel serves, or NoDir
  attended   \* whether it has clients

vars == <<holder, serves, attended>>

Init ==
  /\ holder = [ch \in Channels |-> NoThread]
  /\ serves = [ch \in Channels |-> NoDir]
  /\ attended = [ch \in Channels |-> FALSE]

Claim(t, ch) ==
  /\ holder[ch] = NoThread
  /\ holder' = [holder EXCEPT ![ch] = t]
  /\ UNCHANGED <<serves, attended>>

Open(t, ch, d) ==
  /\ holder[ch] = t /\ serves[ch] = NoDir /\ ~attended[ch]
  /\ \A other \in Channels : serves[other] # d
  /\ serves' = [serves EXCEPT ![ch] = d]
  /\ UNCHANGED <<holder, attended>>

Attend(ch) ==
  /\ serves[ch] # NoDir
  /\ attended' = [attended EXCEPT ![ch] = TRUE]
  /\ UNCHANGED <<holder, serves>>

Stop(t, ch) ==
  /\ holder[ch] = t
  /\ serves' = [serves EXCEPT ![ch] = NoDir]
  /\ UNCHANGED <<holder, attended>>

Dismiss(t, ch) ==
  /\ holder[ch] = t /\ serves[ch] = NoDir
  /\ attended' = [attended EXCEPT ![ch] = FALSE]
  /\ UNCHANGED <<holder, serves>>

Release(t, ch) ==
  /\ holder[ch] = t /\ serves[ch] = NoDir /\ ~attended[ch]
  /\ holder' = [holder EXCEPT ![ch] = NoThread]
  /\ UNCHANGED <<serves, attended>>

Next ==
  \/ \E t \in Threads, ch \in Channels :
       \/ Claim(t, ch) \/ Stop(t, ch) \/ Dismiss(t, ch) \/ Release(t, ch)
       \/ \E d \in Dirs : Open(t, ch, d)
  \/ \E ch \in Channels : Attend(ch)

Spec == Init /\ [][Next]_vars
=============================================================================
