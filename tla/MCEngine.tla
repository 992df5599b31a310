------------------------------ MODULE MCEngine ------------------------------
(* Instances of RtmapEngine for TLC: what the target writes is a script.    *)
EXTENDS RtmapEngine

Snaps == <<"snap", "snap">>
Mixed == <<"snap", "ev">>

=============================================================================
