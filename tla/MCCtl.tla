------------------------------- MODULE MCCtl -------------------------------
(* Instances of RtmapCtl for TLC.                                          *)
EXTENDS RtmapCtl, TLC

Perms == Permutations(Threads)

=============================================================================
