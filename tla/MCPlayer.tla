------------------------------ MODULE MCPlayer ------------------------------
(***************************************************************************)
(* Instances of Player for TLC.  Handlers are interchangeable.             *)
(***************************************************************************)
EXTENDS Player, TLC

CONSTANTS c1, c2

MCClients == {c1, c2}

Handlers == Permutations(MCClients)

(* Both ends of Clamp. *)
MCSeekArgs == {-1, FileChunks + 1}
=============================================================================
