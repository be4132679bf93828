---------------------------- MODULE DetectionStream ----------------------------
(***************************************************************************)
(* What voxl-tflite-server promises of its output: it is a filter on the   *)
(* stream of camera frames.  One frame at a time is taken up, out of those *)
(* the camera still holds in memory and newer than the one before.  It     *)
(* stays in memory until its result is published, together with the frame, *)
(* or given up.                                                            *)
(***************************************************************************)
EXTENDS Integers

VARIABLES
  ring,      \* the frames in memory
  taken,     \* the frame taken up last
  pending,   \* whether its result is still to be published
  out        \* what was published last

vars == <<ring, taken, pending, out>>

Init ==
  /\ ring = {0}
  /\ taken = 0
  /\ pending = FALSE
  /\ out = [frame |-> 0, image |-> 0, result |-> 0]

(* A frame comes, and others may have to go.                               *)
Receive ==
  /\ \E n \in ring' : ring' \ {n} \subseteq ring /\ \A m \in ring : m < n
  /\ pending => taken \in ring'
  /\ UNCHANGED <<taken, pending, out>>

(* A frame is run through the model, which may fail.                       *)
Take(n) ==
  /\ ~pending
  /\ n \in ring /\ n > taken
  /\ taken' = n
  /\ pending' \in BOOLEAN
  /\ UNCHANGED <<ring, out>>

Publish ==
  /\ pending
  /\ out' = [frame |-> taken, image |-> taken, result |-> taken]
  /\ pending' = FALSE
  /\ UNCHANGED <<ring, taken>>

GiveUp ==
  /\ pending
  /\ pending' = FALSE
  /\ UNCHANGED <<ring, taken, out>>

Next == Receive \/ (\E n \in ring : Take(n)) \/ Publish \/ GiveUp

Spec == Init /\ [][Next]_vars
=============================================================================
