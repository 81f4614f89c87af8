---------------------------- MODULE MCSaveQueue ----------------------------
(* Model-checking instance of SaveQueue: rows and flush calls are model     *)
(* values of the configurations.                                            *)
EXTENDS SaveQueue, TLC
=============================================================================
