------------------------------- MODULE MCLobby -------------------------------
(***************************************************************************)
(* Instances of Lobby for TLC: a host h (or two holders of the token) and  *)
(* players a and b, who are alike.                                         *)
(***************************************************************************)
EXTENDS Lobby, TLC

CONSTANTS h, g, a, b

Alike == Permutations({a, b})

Never          == [c \in Clients |-> 0]
SuccessorOnce  == [c \in Clients |-> IF c = g THEN 1 ELSE 0]
HostTwice      == [c \in Clients |-> IF c = h THEN 2 ELSE 1]
AllButB        == [c \in Clients |-> IF c = b THEN 0 ELSE 1]
=============================================================================
