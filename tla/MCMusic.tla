------------------------------ MODULE MCMusic -------------------------------
(* Music for TLC: two packets that are told apart. *)
EXTENDS Music

MCPackets == {"p1", "p2"}
=============================================================================
