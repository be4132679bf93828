---------------------------- MODULE ClientRegistry ----------------------------
(***************************************************************************)
(* What the client table of a server channel promises: a register of       *)
(* clients under small ids.  An id names one client from the moment it is  *)
(* given until the client is dropped, and no client has two ids.           *)
(***************************************************************************)
CONSTANTS Ids, Names, None

VARIABLE reg   \* the client registered under each id, or None

Init == reg = [i \in Ids |-> None]

Add(i, n) ==
  /\ reg[i] = None
  /\ \A j \in Ids : reg[j] # n
  /\ reg' = [reg EXCEPT ![i] = n]

Drop(i) ==
  /\ reg[i] # None
  /\ reg' = [reg EXCEPT ![i] = None]

Next == \E i \in Ids : Drop(i) \/ \E n \in Names : Add(i, n)

Spec == Init /\ [][Next]_reg
=============================================================================
