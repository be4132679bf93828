--------------------------- MODULE MCServerClients ---------------------------
(* Small instances of ServerClients for TLC.                               *)
EXTENDS ServerClients, TLC

(* Names are interchangeable: the code only compares them.                 *)
NameSymmetry == Permutations(Clients)
=============================================================================
