---------------------------- MODULE MCServerNet ----------------------------
(* ServerNet with numbers small enough for TLC.                            *)
EXTENDS ServerNet
=============================================================================
