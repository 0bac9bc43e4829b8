----------------------------- MODULE MCChannel -----------------------------
(* Instances of std::sync::Channel for model checking. *)
EXTENDS ChannelProps

CONSTANTS s1, s2, r1, r2, p1
=============================================================================
