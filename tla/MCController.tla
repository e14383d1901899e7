---------------------------- MODULE MCController ----------------------------
(***************************************************************************)
(* Instances of Controller for TLC.                                        *)
(***************************************************************************)
EXTENDS Controller

(* Registering must never be stopped by the bound on stations: one takes   *)
(* the place of another only after a restart or an unregister, and the     *)
(* first call registers.                                                   *)
ASSUME EnoughStations == MaxStations >= MaxRestarts + MaxCalls
=============================================================================
