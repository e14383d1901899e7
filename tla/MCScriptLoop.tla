---------------------------- MODULE MCScriptLoop ----------------------------
(***************************************************************************)
(* Instances of ScriptLoop for TLC.                                        *)
(***************************************************************************)
EXTENDS ScriptLoop

(* There is room for a timer that a callback makes, and a request can be   *)
(* overtaken by another.                                                   *)
ASSUME EnoughToRace == MaxTimers >= 2 /\ MaxRequests >= 2
=============================================================================
