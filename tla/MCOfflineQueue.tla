--------------------------- MODULE MCOfflineQueue ---------------------------
(* The offline queue by itself, in its default configuration, for TLC.      *)
EXTENDS OfflineQueue

DefaultOnly == {[persist |-> TRUE, remoteWins |-> TRUE, throwing |-> FALSE]}
=============================================================================
