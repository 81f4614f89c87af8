----------------------------- MODULE MCAutoSync -----------------------------
(* Instances of AutoSync for TLC.                                            *)
EXTENDS AutoSync
==============================================================================
