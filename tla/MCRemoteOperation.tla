-------------------------- MODULE MCRemoteOperation --------------------------
(* A small instance of RemoteOperation for TLC. *)
EXTENDS RemoteOperation, TLC

CONSTANTS o1, o2
=============================================================================
