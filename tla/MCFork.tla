------------------------------- MODULE MCFork -------------------------------
(* Instances of RtmapFork for TLC: the pids are model values.              *)
EXTENDS RtmapFork

=============================================================================
