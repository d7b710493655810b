------------------------------- MODULE Dispatch -------------------------------
(***************************************************************************)
(* What the generation queue promises, without locks, clocks or commits:    *)
(* work that was accepted waits, is taken by one holder at a time, goes     *)
(* back to waiting only when nobody holds it any more, and is done for good *)
(* once its holder says so.  ForgeQueue implements this specification.      *)
(***************************************************************************)
CONSTANTS
  Work,     \* what can be asked for
  Holders   \* who may do it

VARIABLES
  board,    \* where each piece of work stands
  holders   \* who is at work on it

bvars == <<board, holders>>

Init ==
  /\ board = [g \in Work |-> "none"]
  /\ holders = [g \in Work |-> {}]

Accept(g) ==
  /\ board[g] = "none"
  /\ board' = [board EXCEPT ![g] = "waiting"]
  /\ UNCHANGED holders

Take(i, g) ==
  /\ board[g] = "waiting"
  /\ holders[g] = {}
  /\ \A h \in Work : i \notin holders[h]
  /\ board' = [board EXCEPT ![g] = "taken"]
  /\ holders' = [holders EXCEPT ![g] = {i}]

\* The holder dies or gives up without a word.
Abandon(i, g) ==
  /\ holders[g] = {i}
  /\ holders' = [holders EXCEPT ![g] = {}]
  /\ UNCHANGED board

\* Abandoned work waits again.
PutBack(given) ==
  /\ \A g \in given : board[g] = "taken" /\ holders[g] = {}
  /\ board' = [g \in Work |-> IF g \in given THEN "waiting" ELSE board[g]]
  /\ UNCHANGED holders

Conclude(i, g) ==
  /\ board[g] = "taken"
  /\ holders[g] = {i}
  /\ board' = [board EXCEPT ![g] = "done"]
  /\ holders' = [holders EXCEPT ![g] = {}]

Next ==
  \/ \E g \in Work : Accept(g)
  \/ \E i \in Holders, g \in Work : Take(i, g) \/ Abandon(i, g) \/ Conclude(i, g)
  \/ \E given \in SUBSET Work : PutBack(given)

Spec == Init /\ [][Next]_bvars

===============================================================================
