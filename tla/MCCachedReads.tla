---------------------------- MODULE MCCachedReads ----------------------------
(* Instances of CachedReads for TLC: the editors of flows, and the readers of *)
(* what they edit.                                                            *)
EXTENDS CachedReads, TLC

=============================================================================
