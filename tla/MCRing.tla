------------------------------- MODULE MCRing -------------------------------
(* Instances of RtmapRing for TLC: small rings, and the instrumented       *)
(* points a traced program may contain.                                    *)
EXTENDS RtmapRing

JointOps == {"bb", "write", "wide", "fault", "return", "reload", "read"}
CleanOps == {"call", "alloc", "read", "syscall"}

=============================================================================
