--------------------------- MODULE MCServerChannels ---------------------------
\* Instances of ServerChannels: which threads ask for a channel number, and
\* which have numbers of their own.
EXTENDS ServerChannels, TLC

AllAsk == [t \in Threads |-> {}]
OneAsks ==
  LET u == CHOOSE u \in Threads : TRUE IN
  [t \in Threads |-> IF t = u THEN {} ELSE Channels]
OneHasItsOwn ==
  LET u == CHOOSE u \in Threads : TRUE
      c == CHOOSE c \in Channels : TRUE
  IN [t \in Threads |-> IF t = u THEN {c} ELSE {}]
NoneAsks == [t \in Threads |-> Channels]

\* Sound for the invariants: nothing tells directories or listeners apart.
Symmetry == Permutations(Dirs) \union Permutations(Listeners)
=============================================================================
