---------------------------- MODULE MCDispatcher ----------------------------
(* Model-checking instances of Dispatcher.                                 *)
EXTENDS Dispatcher, TLC

CONSTANTS c1, c2

TwoClients == {c1, c2}

(* Clients are interchangeable; used by runs that check safety only.       *)
ClientSymmetry == Permutations(TwoClients)
==============================================================================
